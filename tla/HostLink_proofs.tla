-------------------------- MODULE HostLink_proofs ---------------------------
(***************************************************************************)
(* Proofs about module HostLink, for programs that do what the             *)
(* documentation asks and nothing else (ProgramsStopAtErrors).             *)
(*                                                                         *)
(* A state is described by what the library has still to do: its script    *)
(* begins with what is left of a record the firmware waits for, then the   *)
(* lines and bytes of the answer, then the rest of the call (Asks), or     *)
(* with what is left of an answer that is under way (Hearing).  Expects    *)
(* lists the records of every handler with the answers they have.  Types   *)
(* and Talking together are inductive; the properties of HostLink follow.  *)
(***************************************************************************)
EXTENDS HostLink, SequenceTheorems, TLAPS

-----------------------------------------------------------------------------
(* What the library still reads, and the answers it is to.                 *)

Byte == 0..255
Op == [op : {"send"}, byte : Byte] \union [op : {"ack", "byte", "text", "info", "pins", "close"}]

SendOp(b) == [op |-> "send", byte |-> b]
AckOp == [op |-> "ack"]
ByteOp == [op |-> "byte"]

\* k acknowledgements and then n bytes, and the answer that has them.
Reads(k, n) == [x \in 1..k + n |-> IF x <= k THEN AckOp ELSE ByteOp]
Acks(k) == [x \in 1..2 * k |-> IF x % 2 = 1 THEN 65 ELSE Newline]

\* The mode the firmware is in between two calls.
ModePc == IF object = NOP THEN "main" ELSE ModeOf[object]

-----------------------------------------------------------------------------
(* The conversation: who has sent what, and what is still to come.         *)

\* The calls of a plain Gumbi, which a Monitor object makes as well.
Plain == object \in {NOP, MONITOR}

\* What follows the count of PinCount, and the end of a scan.
PinsRead == Do("pins") \o (IF object = MONITOR THEN SetMode(MONITOR) ELSE <<>>)
ScanRead == IF object = MONITOR THEN Do("close") ELSE <<>>

\* The firmware in the main loop is asked for mode m: it answers with k lines
\* "A" and n bytes, and the call goes on with t.
ModeAsked(m, k, n, t) ==
    \/ /\ m = object /\ m \in {GPIO, SPEEDTEST, XFER, PARALLEL, MONITOR}
       /\ m = MONITOR => hostPins = numPins
       /\ k = 1 /\ n = 0 /\ t = <<>>
    \/ m = GETPINCOUNT /\ Plain /\ k = 1 /\ n = 1 /\ t = PinsRead
    \/ /\ m = SETPINCOUNT /\ Plain /\ k = 1 /\ n = 0
       /\ \E c \in PinCounts : t = WriteBytes(<<c>>) \o (Reads(0, 1) \o PinsRead)
    \/ m = VOLTAGE /\ object = NOP /\ k = 1 /\ n = 0 /\ t = WriteBytes(<<0>>) \o (Reads(1, 0) \o <<>>)
    \/ m = PING /\ object = NOP /\ k = 2 /\ n = 0 /\ t = <<>>
    \/ m = INFO /\ object = NOP /\ k = 1 /\ n = 0 /\ t = Do("info")
    \/ m = GID /\ object = NOP /\ k = 1 /\ n = 0 /\ t = Do("text")
    \/ m = SCANBUS /\ Plain /\ k = 1 /\ n = 1 /\ t = ScanRead

\* The same in the handlers that read a record r.
RecordAsked(r, k, n, t) ==
    \/ /\ pc = "pins" /\ Plain
       /\ \E c \in PinCounts : r = <<c>>
       /\ k = 0 /\ n = 1 /\ t = PinsRead
    \/ pc = "volt" /\ object = NOP /\ r = <<0>> /\ k = 1 /\ n = 0 /\ t = <<>>
    \/ pc = "speed" /\ object = NOP /\ n \in 1..MaxCount /\ r = Pack32(n) /\ k = 0 /\ t = <<>>
    \/ pc = "xfer" /\ object = NOP /\ Len(r) = XferSize /\ k = 0 /\ n = XferSize /\ t = <<>>
    \/ /\ pc = "gpio" /\ object = GPIO /\ k = 1
       /\ \/ r \in {<<HIGH, 0>>, <<LOW, 0>>} /\ n = 0 /\ t = <<>>
          \/ r = <<READ, 0>> /\ n = 1 /\ t = <<>>
          \/ r = <<EXIT, 0>> /\ n = 0 /\ t = Do("close")
    \/ /\ pc = "monitor" /\ object = MONITOR /\ hostPins = numPins
       /\ \/ \E c \in 1..MaxCount : r = Pack32(c) /\ k = 0 /\ n = c * (hostPins \div PinsPerPort) /\ t = <<>>
          \/ r = Pack32(0) /\ k = 1 /\ n = 0 /\ t = WriteBytes(<<SCANBUS>>) \o (Reads(1, 1) \o Do("close"))
    \/ /\ pc = "conf" /\ object = PARALLEL
       /\ \/ n \in Count /\ r = Pack(READ, n) /\ k = 2 /\ t = <<>>
          \/ r = Pack(COMMAND, 0) /\ k = 3 /\ n = 0 /\ t = <<>>
          \/ r = Pack(EXIT, 0) /\ k = 1 /\ n = 0 /\ t = Do("close")

\* A Write: its record, and its data when the firmware waits for byte m of it.
WriteAsked(r, k, n, t) ==
    /\ call.name = "Write" /\ object = PARALLEL /\ Len(call.data) \in Count /\ n = 0
    /\ \/ /\ pc = "conf" /\ r = Pack(WRITE, Len(call.data)) /\ k = 2
          /\ t = BytesAcked(call.data) /\ written = <<>>
       \/ /\ pc \in {"data1", "data2"} /\ k = 1
          /\ hconfig = [count |-> Len(call.data), size |-> config.size]
          /\ i % config.size = 0 /\ i \in 0..Len(call.data) - 1
          /\ written = SubSeq(call.data, 1, i)
          /\ LET m == IF pc = "data1" THEN i + 1 ELSE i + 2
             IN  /\ pc = "data2" => config.size = 2
                 /\ r = SubSeq(call.data, i + 1, m)
                 /\ t = BytesAcked(SubSeq(call.data, m + 1, Len(call.data)))

Expects(r, k, n, t) ==
    \/ call.name # "Write" /\ pc = "main" /\ Len(r) = 1 /\ ModeAsked(r[1], k, n, t)
    \/ call.name # "Write" /\ RecordAsked(r, k, n, t)
    \/ WriteAsked(r, k, n, t)

\* The firmware has, or will have, the bytes q of the record it waits for; the
\* library sends the others.
Asks(q, script) ==
    \E s \in Seq(Byte), k \in 0..3, n \in Nat, t \in Seq(Op) :
        script = WriteBytes(s) \o (Reads(k, n) \o t) /\ Expects(q \o s, k, n, t)

\* Nothing is under way.
Quiet(script) ==
    \/ /\ script = <<>> /\ pc = ModePc /\ buf = <<>>
       /\ object = MONITOR => hostPins = numPins
       /\ call.name = "Write" => written = call.data
    \/ script = Do("close") /\ pc = "main" /\ buf = <<>>
    \/ script = PinsRead /\ Plain /\ pc = "main" /\ buf = <<>> /\ call.name # "Write"
         /\ produced # <<>> /\ Last(produced) = numPins
    \/ Len(buf) < Want[pc] /\ Asks(buf, script)

Asking == toHost = <<>> /\ taken = produced /\ Asks(buf \o toBoard, todo)

\* An answer of k lines and the data d is under way.
Hearing ==
    /\ toBoard = <<>>
    /\ \E k \in 0..3, d \in Seq(Byte), t \in Seq(Op) :
         /\ toHost = Acks(k) \o d /\ produced = taken \o d
         /\ todo = Reads(k, Len(d)) \o t /\ Quiet(t)

\* An answer to Info or ID.
HearingText ==
    /\ object = NOP /\ Listens("main") /\ taken = produced /\ call.name # "Write"
    /\ \/ toHost = Ack \o TextLine \o TextLine \o Ack /\ todo = ReadAck \o Do("info")
       \/ toHost \in {TextLine \o TextLine \o Ack, TextLine \o Ack, Ack} /\ todo = Do("info")
       \/ toHost = Ack \o TextLine /\ todo = ReadAck \o Do("text")
       \/ toHost = TextLine /\ todo = Do("text")

\* The board has rejected the configuration.
Rejected ==
    /\ object = PARALLEL /\ config.pins > numPins /\ Listens("main")
    /\ \/ failed = FALSE /\ toHost = Nack \o Text /\ \E t \in Seq(Op) : todo = Reads(1, 0) \o t
       \/ failed = TRUE /\ toHost = Text /\ todo = <<>>

Closed == port = "closed" /\ failed = FALSE /\ todo = <<>> /\ toHost = <<>> /\ Listens("main")

Talking ==
    \/ port = "open" /\ failed = FALSE /\ (Asking \/ Hearing \/ HearingText)
    \/ port = "open" /\ Rejected
    \/ Closed

\* The variables and their types.
Types ==
    /\ port \in {"open", "closed"} /\ object \in {NOP, PARALLEL, GPIO, MONITOR, SPEEDTEST, XFER}
    /\ config \in Configs /\ hostPins \in {0, BoardPins} \union PinCounts
    /\ call.data \in Seq(Byte) /\ todo \in Seq(Op)
    /\ taken \in Seq(Byte) /\ toBoard \in Seq(Byte) /\ toHost \in Seq(Byte)
    /\ pc \in DOMAIN Want /\ buf \in Seq(Byte) /\ Len(buf) <= Want[pc]
    /\ numPins \in PinCounts \union {BoardPins}
    /\ hconfig \in [count : 0..255, size : {1, 2}] /\ i \in 0..WholeWords(hconfig.count, hconfig.size)
    /\ produced \in Seq(Byte) /\ written \in Seq(Byte)

-----------------------------------------------------------------------------
(* Sequences.                                                              *)

\* The letters of the lines are bytes.
LEMMA Bytewise == Byte \subseteq Int /\ Newline \in Byte /\ 65 \in Byte /\ 78 \in Byte /\ 63 \in Byte
  BY DEF Byte, Newline

\* A send is an operation.
LEMMA SendIsOp == ASSUME NEW b \in Byte PROVE SendOp(b) \in Op
  BY DEF Op, SendOp

\* So is a read.
LEMMA ReadIsOne == AckOp \in Op /\ ByteOp \in Op
  BY DEF Op, AckOp, ByteOp

\* Operations are records of these shapes.
LEMMA ReadIsOp ==
  ASSUME NEW o \in {"ack", "byte", "text", "info", "pins", "close"}
  PROVE  [op |-> o] \in Op /\ Do(o) \in Seq(Op) /\ Len(Do(o)) = 1 /\ Do(o)[1] = [op |-> o]
<1>1. [op |-> o] \in Op
  BY DEF Op
<1> HIDE DEF Op
<1> QED
  BY <1>1 DEF Do

\* The operations that write bytes.
LEMMA Sends ==
  ASSUME NEW s \in Seq(Byte)
  PROVE  /\ WriteBytes(s) \in Seq(Op) /\ Len(WriteBytes(s)) = Len(s)
         /\ \A x \in 1..Len(s) : WriteBytes(s)[x] = SendOp(s[x])
<1>1. \A x \in 1..Len(s) : SendOp(s[x]) \in Op
  BY SendIsOp, ElementOfSeq
<1> HIDE DEF Op
<1>2. DOMAIN s = 1..Len(s) /\ Len(s) \in Nat
  BY LenProperties
<1> QED
  BY <1>1, <1>2 DEF WriteBytes, SendOp

\* The operations that read acknowledgements and bytes.
LEMMA ReadsAre ==
  ASSUME NEW k \in Nat, NEW n \in Nat
  PROVE  /\ Reads(k, n) \in Seq(Op) /\ Len(Reads(k, n)) = k + n
         /\ \A x \in 1..k + n : Reads(k, n)[x] = (IF x <= k THEN AckOp ELSE ByteOp)
<1>1. \A x \in 1..k + n : (IF x <= k THEN AckOp ELSE ByteOp) \in Op
  BY ReadIsOne
<1> HIDE DEF Op
<1> QED
  BY <1>1 DEF Reads

\* The bytes of k lines "A".
LEMMA AcksAre ==
  ASSUME NEW k \in Nat
  PROVE  /\ Acks(k) \in Seq(Byte) /\ Len(Acks(k)) = 2 * k
         /\ \A x \in 1..2 * k : Acks(k)[x] = IF x % 2 = 1 THEN 65 ELSE Newline
<1>1. \A x \in 1..2 * k : (IF x % 2 = 1 THEN 65 ELSE Newline) \in Byte
  BY Bytewise
<1> HIDE DEF Byte
<1> QED
  BY <1>1 DEF Acks

\* The head and the tail of a concatenation.
LEMMA FirstOf ==
  ASSUME NEW S, NEW s \in Seq(S), NEW t \in Seq(S), s # <<>>
  PROVE  s \o t # <<>> /\ Head(s \o t) = s[1] /\ Tail(s \o t) = Tail(s) \o t
<1>1. Len(s) \in Nat \ {0}
  BY EmptySeq
<1>2. Tail(s) \in Seq(S) /\ Len(Tail(s)) = Len(s) - 1 /\ \A x \in 1..Len(s) - 1 : Tail(s)[x] = s[x + 1]
  BY HeadTailProperties
<1>3. s \o t \in Seq(S) /\ Len(s \o t) = Len(s) + Len(t) /\ Len(t) \in Nat
      /\ \A x \in 1..Len(s) + Len(t) : (s \o t)[x] = IF x <= Len(s) THEN s[x] ELSE t[x - Len(s)]
  BY ConcatProperties, LenProperties
<1>4. s \o t # <<>> /\ Head(s \o t) = s[1]
  BY <1>1, <1>3
<1>5. /\ Tail(s \o t) \in Seq(S) /\ Len(Tail(s \o t)) = Len(s) + Len(t) - 1
      /\ \A x \in 1..Len(s) + Len(t) - 1 : Tail(s \o t)[x] = (s \o t)[x + 1]
  BY <1>3, <1>4, HeadTailProperties
<1>6. /\ Tail(s) \o t \in Seq(S) /\ Len(Tail(s) \o t) = Len(s) - 1 + Len(t)
      /\ \A x \in 1..Len(s) - 1 + Len(t) :
            (Tail(s) \o t)[x] = IF x <= Len(s) - 1 THEN Tail(s)[x] ELSE t[x - (Len(s) - 1)]
  BY <1>2, ConcatProperties
<1>7. \A x \in 1..Len(s) + Len(t) - 1 : Tail(s \o t)[x] = (Tail(s) \o t)[x]
  <2> SUFFICES ASSUME NEW x \in 1..Len(s) + Len(t) - 1 PROVE Tail(s \o t)[x] = (Tail(s) \o t)[x]
    OBVIOUS
  <2>1. Tail(s \o t)[x] = IF x + 1 <= Len(s) THEN s[x + 1] ELSE t[x + 1 - Len(s)]
    BY <1>1, <1>3, <1>5
  <2>2. (Tail(s) \o t)[x] = IF x <= Len(s) - 1 THEN s[x + 1] ELSE t[x - (Len(s) - 1)]
    BY <1>1, <1>2, <1>3, <1>6
  <2>3. x + 1 - Len(s) = x - (Len(s) - 1) /\ (x + 1 <= Len(s) <=> x <= Len(s) - 1)
    BY <1>1
  <2> QED
    BY <2>1, <2>2, <2>3
<1>8. Tail(s \o t) = Tail(s) \o t
  BY <1>1, <1>5, <1>6, <1>7, SeqEqual
<1> QED
  BY <1>4, <1>8

\* A script that starts with a send: its head and its tail.
LEMMA SendFirst ==
  ASSUME NEW s \in Seq(Byte), NEW u \in Seq(Op), s # <<>>
  PROVE  /\ WriteBytes(s) \o u # <<>>
         /\ Head(WriteBytes(s) \o u) = SendOp(s[1])
         /\ Tail(WriteBytes(s) \o u) = WriteBytes(Tail(s)) \o u
<1> HIDE DEF Op, Byte
<1>1. Len(s) \in Nat \ {0} /\ Tail(s) \in Seq(Byte) /\ Len(Tail(s)) = Len(s) - 1
      /\ \A x \in 1..Len(s) - 1 : Tail(s)[x] = s[x + 1]
  BY EmptySeq, HeadTailProperties
<1>2. WriteBytes(s) # <<>> /\ WriteBytes(s)[1] = SendOp(s[1])
  BY <1>1, Sends
<1>3. Tail(WriteBytes(s)) = WriteBytes(Tail(s))
  <2>1. /\ Tail(WriteBytes(s)) \in Seq(Op) /\ Len(Tail(WriteBytes(s))) = Len(s) - 1
        /\ \A x \in 1..Len(s) - 1 : Tail(WriteBytes(s))[x] = WriteBytes(s)[x + 1]
    BY <1>1, <1>2, Sends, HeadTailProperties
  <2>2. /\ WriteBytes(Tail(s)) \in Seq(Op) /\ Len(WriteBytes(Tail(s))) = Len(s) - 1
        /\ \A x \in 1..Len(s) - 1 : WriteBytes(Tail(s))[x] = SendOp(s[x + 1])
    BY <1>1, Sends, Zenon
  <2>3. \A x \in 1..Len(s) - 1 : WriteBytes(s)[x + 1] = SendOp(s[x + 1])
    BY <1>1, Sends
  <2>4. \A x \in 1..Len(s) - 1 : Tail(WriteBytes(s))[x] = WriteBytes(Tail(s))[x]
    BY <2>1, <2>2, <2>3
  <2> QED
    BY <2>1, <2>2, <2>4, SeqEqual
<1>4. WriteBytes(s) \in Seq(Op)
  BY Sends
<1>5. /\ WriteBytes(s) \o u # <<>> /\ Head(WriteBytes(s) \o u) = WriteBytes(s)[1]
      /\ Tail(WriteBytes(s) \o u) = Tail(WriteBytes(s)) \o u
  BY <1>2, <1>4, FirstOf, Zenon
<1> QED
  BY <1>2, <1>3, <1>5

\* Sending nothing adds nothing to a script.
LEMMA SendNone == ASSUME NEW u \in Seq(Op) PROVE WriteBytes(<<>>) \o u = u
<1> HIDE DEF Op, Byte
<1>1. WriteBytes(<<>>) = <<>>
  BY EmptySeq, Sends
<1> QED
  BY <1>1, ConcatEmptySeq

\* A script that starts with a read: its head and its tail.
LEMMA ReadFirst ==
  ASSUME NEW k \in Nat, NEW n \in Nat, NEW u \in Seq(Op), k + n > 0
  PROVE  /\ Reads(k, n) \o u # <<>>
         /\ Head(Reads(k, n) \o u) = (IF k > 0 THEN AckOp ELSE ByteOp)
         /\ k > 0 => Tail(Reads(k, n) \o u) = Reads(k - 1, n) \o u
         /\ k = 0 => Tail(Reads(k, n) \o u) = Reads(0, n - 1) \o u
<1> HIDE DEF Op
<1>0. /\ Reads(k, n) \in Seq(Op) /\ Len(Reads(k, n)) = k + n
      /\ \A x \in 1..k + n : Reads(k, n)[x] = (IF x <= k THEN AckOp ELSE ByteOp)
  BY ReadsAre, Zenon
<1>1. Reads(k, n) # <<>> /\ Reads(k, n)[1] = (IF k > 0 THEN AckOp ELSE ByteOp)
  BY <1>0
<1>2. /\ Tail(Reads(k, n)) \in Seq(Op) /\ Len(Tail(Reads(k, n))) = k + n - 1
      /\ \A x \in 1..k + n - 1 : Tail(Reads(k, n))[x] = (IF x + 1 <= k THEN AckOp ELSE ByteOp)
  <2>1. /\ Tail(Reads(k, n)) \in Seq(Op) /\ Len(Tail(Reads(k, n))) = k + n - 1
        /\ \A x \in 1..k + n - 1 : Tail(Reads(k, n))[x] = Reads(k, n)[x + 1]
    BY <1>0, <1>1, HeadTailProperties
  <2> QED
    BY <1>0, <2>1
<1>3. k > 0 => Tail(Reads(k, n)) = Reads(k - 1, n)
  <2> SUFFICES ASSUME k > 0 PROVE Tail(Reads(k, n)) = Reads(k - 1, n)
    OBVIOUS
  <2>1. /\ Reads(k - 1, n) \in Seq(Op) /\ Len(Reads(k - 1, n)) = k + n - 1
        /\ \A x \in 1..k + n - 1 : Reads(k - 1, n)[x] = (IF x + 1 <= k THEN AckOp ELSE ByteOp)
    <3>1. k - 1 \in Nat /\ k - 1 + n = k + n - 1
      OBVIOUS
    <3>2. /\ Reads(k - 1, n) \in Seq(Op) /\ Len(Reads(k - 1, n)) = k - 1 + n
          /\ \A x \in 1..k - 1 + n : Reads(k - 1, n)[x] = (IF x <= k - 1 THEN AckOp ELSE ByteOp)
      BY <3>1, ReadsAre, Zenon
    <3> QED
      BY <3>1, <3>2
  <2>2. \A x \in 1..Len(Tail(Reads(k, n))) : Tail(Reads(k, n))[x] = Reads(k - 1, n)[x]
    BY <1>2, <2>1
  <2> QED
    BY <1>2, <2>1, <2>2, SeqEqual
<1>4. k = 0 => Tail(Reads(k, n)) = Reads(0, n - 1)
  <2> SUFFICES ASSUME k = 0 PROVE Tail(Reads(0, n)) = Reads(0, n - 1)
    OBVIOUS
  <2>1. /\ Reads(0, n - 1) \in Seq(Op) /\ Len(Reads(0, n - 1)) = n - 1
        /\ \A x \in 1..n - 1 : Reads(0, n - 1)[x] = ByteOp
    <3>1. 0 \in Nat /\ n - 1 \in Nat
      OBVIOUS
    <3>2. /\ Reads(0, n - 1) \in Seq(Op) /\ Len(Reads(0, n - 1)) = 0 + (n - 1)
          /\ \A x \in 1..0 + (n - 1) : Reads(0, n - 1)[x] = (IF x <= 0 THEN AckOp ELSE ByteOp)
      BY <3>1, ReadsAre, Zenon
    <3> QED
      BY <3>1, <3>2
  <2>2. \A x \in 1..Len(Tail(Reads(0, n))) : Tail(Reads(0, n))[x] = Reads(0, n - 1)[x]
    BY <1>2, <2>1
  <2> QED
    BY <1>2, <2>1, <2>2, SeqEqual
<1>5. /\ Reads(k, n) \o u # <<>> /\ Head(Reads(k, n) \o u) = Reads(k, n)[1]
      /\ Tail(Reads(k, n) \o u) = Tail(Reads(k, n)) \o u
  BY <1>0, <1>1, FirstOf, Zenon
<1> QED
  BY <1>1, <1>3, <1>4, <1>5

\* Reading nothing adds nothing to a script.
LEMMA ReadNone == ASSUME NEW u \in Seq(Op) PROVE Reads(0, 0) \o u = u
<1> HIDE DEF Op
<1>1. Reads(0, 0) = <<>>
  BY ReadsAre, EmptySeq
<1> QED
  BY <1>1, ConcatEmptySeq

\* readline takes the first line, to the first newline.
LEMMA FirstNewline ==
  ASSUME NEW h \in Seq(Byte), NEW m \in 1..Len(h), h[m] = Newline, \A x \in 1..m - 1 : h[x] # Newline
  PROVE  Newline \in ToSet(h) /\ LineEnd(h) = m
<1> HIDE DEF Byte
<1> DEFINE I == {x \in 1..Len(h) : h[x] = Newline}
<1>1. Len(h) \in Nat /\ DOMAIN h = 1..Len(h)
  BY LenProperties
<1>2. m \in I /\ \A x \in I : m <= x
  BY <1>1
<1>3. Min(I) = m
  <2>1. \A y \in I : (\A x \in I : y <= x) => y = m
    BY <1>1, <1>2
  <2> HIDE DEF I
  <2> QED
    BY <1>2, <2>1 DEF Min
<1>4. LineEnd(h) = IF I # {} THEN Min(I) ELSE 0
  BY DEF LineEnd, SelectInSeq
<1>5. Newline \in ToSet(h)
  BY <1>1 DEF ToSet
<1> QED
  BY <1>2, <1>3, <1>4, <1>5

\* The first of k acknowledgements.
LEMMA AckFirst ==
  ASSUME NEW k \in Nat \ {0}, NEW d \in Seq(Byte)
  PROVE  LET h == Acks(k) \o d
         IN  /\ h \in Seq(Byte) /\ Len(h) = 2 * k + Len(d)
             /\ Newline \in ToSet(h) /\ LineEnd(h) = 2
             /\ SubSeq(h, 1, 2) = Ack /\ SubSeq(h, 3, Len(h)) = Acks(k - 1) \o d
<1> HIDE DEF Byte
<1> DEFINE h == Acks(k) \o d
<1>1. /\ h \in Seq(Byte) /\ Len(h) = 2 * k + Len(d) /\ Len(d) \in Nat
      /\ \A x \in 1..2 * k + Len(d) :
            h[x] = IF x <= 2 * k THEN (IF x % 2 = 1 THEN 65 ELSE Newline) ELSE d[x - 2 * k]
  <2>1. Acks(k) \in Seq(Byte) /\ Len(Acks(k)) = 2 * k
        /\ \A x \in 1..2 * k : Acks(k)[x] = IF x % 2 = 1 THEN 65 ELSE Newline
    BY AcksAre
  <2>2. /\ h \in Seq(Byte) /\ Len(h) = 2 * k + Len(d) /\ Len(d) \in Nat
        /\ \A x \in 1..2 * k + Len(d) : h[x] = IF x <= 2 * k THEN Acks(k)[x] ELSE d[x - 2 * k]
    <3>1. /\ h \in Seq(Byte) /\ Len(h) = Len(Acks(k)) + Len(d)
          /\ \A x \in 1..Len(Acks(k)) + Len(d) :
                h[x] = IF x <= Len(Acks(k)) THEN Acks(k)[x] ELSE d[x - Len(Acks(k))]
      BY <2>1, ConcatProperties, Zenon
    <3> QED
      BY <2>1, <3>1, LenProperties
  <2> QED
    BY <2>1, <2>2
<1>2. h[1] = 65 /\ h[2] = Newline /\ 2 \in 1..Len(h)
  BY <1>1
<1> HIDE DEF h
<1>3. Newline \in ToSet(h) /\ LineEnd(h) = 2
  <2>1. \A x \in 1..2 - 1 : h[x] # Newline
    BY <1>2 DEF Newline
  <2> QED
    BY <1>1, <1>2, <2>1, FirstNewline, SMTT(60)
<1>4. SubSeq(h, 1, 2) = Ack
  <2>1. SubSeq(h, 1, 2) \in Seq(Byte) /\ Len(SubSeq(h, 1, 2)) = 2
        /\ \A x \in 1..2 : SubSeq(h, 1, 2)[x] = h[x]
    BY <1>1, <1>2
  <2>2. Ack = <<65, Newline>> /\ Len(Ack) = 2 /\ Ack[1] = 65 /\ Ack[2] = Newline /\ Ack \in Seq(Byte)
    BY Bytewise DEF Ack
  <2>3. \A x \in 1..2 : SubSeq(h, 1, 2)[x] = Ack[x]
    BY <1>2, <2>1, <2>2
  <2> QED
    BY <2>1, <2>2, <2>3, SeqEqual, ZenonT(60)
<1>5. SubSeq(h, 3, Len(h)) = Acks(k - 1) \o d
  <2>1. /\ SubSeq(h, 3, Len(h)) \in Seq(Byte) /\ Len(SubSeq(h, 3, Len(h))) = 2 * k + Len(d) - 2
        /\ \A x \in 1..2 * k + Len(d) - 2 : SubSeq(h, 3, Len(h))[x] = h[x + 2]
    BY <1>1, <1>2
  <2>2. Acks(k - 1) \in Seq(Byte) /\ Len(Acks(k - 1)) = 2 * k - 2
        /\ \A x \in 1..2 * k - 2 : Acks(k - 1)[x] = IF x % 2 = 1 THEN 65 ELSE Newline
    <3>1. k - 1 \in Nat /\ 2 * (k - 1) = 2 * k - 2
      OBVIOUS
    <3>2. Acks(k - 1) \in Seq(Byte) /\ Len(Acks(k - 1)) = 2 * (k - 1)
          /\ \A x \in 1..2 * (k - 1) : Acks(k - 1)[x] = IF x % 2 = 1 THEN 65 ELSE Newline
      BY <3>1, AcksAre, Zenon
    <3> QED
      BY <3>1, <3>2
  <2>3. /\ Acks(k - 1) \o d \in Seq(Byte) /\ Len(Acks(k - 1) \o d) = 2 * k - 2 + Len(d)
        /\ \A x \in 1..2 * k - 2 + Len(d) :
              (Acks(k - 1) \o d)[x] = IF x <= 2 * k - 2 THEN Acks(k - 1)[x] ELSE d[x - (2 * k - 2)]
    <3>1. /\ Acks(k - 1) \o d \in Seq(Byte) /\ Len(Acks(k - 1) \o d) = Len(Acks(k - 1)) + Len(d)
          /\ \A x \in 1..Len(Acks(k - 1)) + Len(d) :
                (Acks(k - 1) \o d)[x] = IF x <= Len(Acks(k - 1)) THEN Acks(k - 1)[x] ELSE d[x - Len(Acks(k - 1))]
      BY <2>2, ConcatProperties, Zenon
    <3> QED
      BY <2>2, <3>1
  <2>4. \A x \in 1..2 * k + Len(d) - 2 : SubSeq(h, 3, Len(h))[x] = (Acks(k - 1) \o d)[x]
    <3> SUFFICES ASSUME NEW x \in 1..2 * k + Len(d) - 2
                 PROVE  SubSeq(h, 3, Len(h))[x] = (Acks(k - 1) \o d)[x]
      OBVIOUS
    <3>1. x + 2 \in 1..2 * k + Len(d) /\ x + 2 - 2 * k = x - (2 * k - 2) /\ (x + 2) % 2 = x % 2
      BY <1>1
    <3>2. h[x + 2] = IF x <= 2 * k - 2 THEN (IF x % 2 = 1 THEN 65 ELSE Newline) ELSE d[x - (2 * k - 2)]
      BY <1>1, <3>1
    <3> QED
      BY <1>1, <2>1, <2>2, <2>3, <3>2
  <2> QED
    BY <1>1, <2>1, <2>3, <2>4, SeqEqual, SMTT(60)
<1> QED
  BY <1>1, <1>3, <1>4, <1>5 DEF h

-----------------------------------------------------------------------------
(* What is expected, heard and done next.                                  *)

\* The lengths of the records.
LEMMA Sizes ==
  /\ Want["main"] = 1 /\ Want["pins"] = 1 /\ Want["volt"] = 1 /\ Want["speed"] = 2
  /\ Want["xfer"] = 2 /\ Want["gpio"] = 2 /\ Want["monitor"] = 2 /\ Want["conf"] = 4
  /\ Want["data1"] = 1 /\ Want["data2"] = 2
  /\ DOMAIN Want = {"main", "pins", "volt", "speed", "xfer", "gpio", "monitor", "conf", "data1", "data2"}
  BY DEF Want, XferSize

\* A pin count is a number of chips.
LEMMA PinsOfChips ==
  ASSUME NEW p \in PinCounts \union {BoardPins}
  PROVE  p \in 1..128 /\ p \div 8 = 2 * (p \div 16) /\ p \div 8 \in Nat \ {0}
<1>1. p \in 1..128 /\ p % 16 = 0
  <2>1. BoardPins \in 1..128 /\ BoardPins % 16 = 0
    BY LinkAssumption DEF PinsPerDevice
  <2>2. p \in PinCounts => p \in 1..BoardPins /\ p % 16 = 0
    BY LinkAssumption DEF PinsPerDevice
  <2> QED
    BY <2>1, <2>2
<1> QED
  BY <1>1

\* A record is as long as the firmware wants it, and it has an answer.
LEMMA ExpectedRecord ==
  ASSUME Types, NEW r \in Seq(Byte), NEW k \in 0..3, NEW n \in Nat, NEW t, Expects(r, k, n, t)
  PROVE  Len(r) = Want[pc] /\ k + n > 0
<1>1. CASE pc = "main" /\ Len(r) = 1 /\ ModeAsked(r[1], k, n, t)
  BY <1>1, Sizes DEF ModeAsked
<1>2. CASE RecordAsked(r, k, n, t)
  <2>1. CASE pc = "monitor" /\ object = MONITOR /\ hostPins = numPins
             /\ \E c \in 1..MaxCount : r = Pack32(c) /\ k = 0 /\ n = c * (hostPins \div PinsPerPort) /\ t = <<>>
    <3>1. PICK c \in 1..MaxCount : r = Pack32(c) /\ n = c * (hostPins \div PinsPerPort)
      BY <2>1
    <3>2. hostPins \in PinCounts \union {BoardPins}
      BY <2>1 DEF Types
    <3>3. hostPins \div 8 \in Nat \ {0} /\ c \in Nat \ {0}
      BY <3>2, PinsOfChips, LinkAssumption
    <3>4. c * (hostPins \div 8) > 0
      BY <3>3
    <3> QED
      BY <2>1, <3>1, <3>4, Sizes DEF Pack32, PinsPerPort
  <2>2. CASE pc = "conf"
    BY <1>2, <2>2, Sizes DEF RecordAsked, Pack
  <2>3. CASE pc \in {"pins", "volt", "speed", "xfer", "gpio"}
    <3>1. CASE pc = "speed"
      BY <1>2, <3>1, Sizes, LinkAssumption DEF RecordAsked, Pack32
    <3>2. CASE pc = "gpio"
      BY <1>2, <3>2, Sizes DEF RecordAsked
    <3>3. CASE pc = "pins"
      BY <1>2, <3>3, Sizes DEF RecordAsked
    <3>4. CASE pc = "volt"
      BY <1>2, <3>4, Sizes DEF RecordAsked
    <3>5. CASE pc = "xfer"
      BY <1>2, <3>5, Sizes DEF RecordAsked, XferSize
    <3> QED
      BY <2>3, <3>1, <3>2, <3>3, <3>4, <3>5
  <2>4. CASE pc = "monitor" /\ r = Pack32(0) /\ k = 1
    BY <2>4, Sizes DEF Pack32
  <2> QED
    BY <1>2, <2>1, <2>2, <2>3, <2>4 DEF RecordAsked
<1>3. CASE WriteAsked(r, k, n, t)
  <2>1. CASE pc = "conf"
    BY <1>3, <2>1, Sizes DEF WriteAsked, Pack
  <2>2. CASE pc \in {"data1", "data2"}
    <3>1. i \in Nat /\ k = 1
      BY <1>3, <2>2 DEF WriteAsked
    <3>2. Len(SubSeq(call.data, i + 1, i + 1)) = 1 /\ Len(SubSeq(call.data, i + 1, i + 2)) = 2
      BY <3>1
    <3>3. CASE pc = "data1"
      <4>1. r = SubSeq(call.data, i + 1, i + 1)
        BY <1>3, <3>3 DEF WriteAsked
      <4> QED
        BY <3>1, <3>2, <3>3, <4>1, Sizes
    <3>4. CASE pc = "data2"
      <4>1. r = SubSeq(call.data, i + 1, i + 2)
        BY <1>3, <3>4 DEF WriteAsked
      <4> QED
        BY <3>1, <3>2, <3>4, <4>1, Sizes
    <3> QED
      BY <2>2, <3>3, <3>4
  <2> QED
    BY <1>3, <2>1, <2>2 DEF WriteAsked
<1> QED
  BY <1>1, <1>2, <1>3 DEF Expects

\* The kinds of the operations.
LEMMA Ops == AckOp.op = "ack" /\ ByteOp.op = "byte" /\ \A b : SendOp(b).op = "send" /\ SendOp(b).byte = b
  BY DEF AckOp, ByteOp, SendOp

\* A script of one operation, and a script that starts with it.
LEMMA DoIs ==
  ASSUME NEW o \in {"ack", "byte", "text", "info", "pins", "close"}
  PROVE  /\ Do(o) \in Seq(Op) /\ Do(o) # <<>> /\ Head(Do(o)).op = o /\ Tail(Do(o)) = <<>>
         /\ \A u \in Seq(Op) : Do(o) \o u \in Seq(Op) /\ Do(o) \o u # <<>> /\ Head(Do(o) \o u).op = o /\ Tail(Do(o) \o u) = u
<1>1. Do(o) \in Seq(Op)
  BY ReadIsOp, Zenon
<1> HIDE DEF Op
<1>2. Do(o) # <<>> /\ Head(Do(o)) = [op |-> o] /\ Do(o)[1].op = o /\ Tail(Do(o)) = <<>>
  BY DEF Do
<1>3. ASSUME NEW u \in Seq(Op)
      PROVE  Do(o) \o u \in Seq(Op) /\ Do(o) \o u # <<>> /\ Head(Do(o) \o u).op = o /\ Tail(Do(o) \o u) = u
  <2>1. Do(o) \o u # <<>> /\ Head(Do(o) \o u) = Do(o)[1] /\ Tail(Do(o) \o u) = Tail(Do(o)) \o u
    BY <1>1, <1>2, FirstOf, Zenon
  <2>2. <<>> \o u = u
    BY ConcatEmptySeq
  <2>3. Do(o) \o u \in Seq(Op)
    BY <1>1, ConcatProperties, Zenon
  <2> QED
    BY <1>2, <2>1, <2>2, <2>3, Zenon
<1>4. Head(Do(o)).op = o
  BY <1>2
<1> QED
  BY <1>1, <1>2, <1>3, <1>4

\* SetMode sends one byte and waits for one acknowledgement.
LEMMA ModeScript ==
  ASSUME NEW m \in Byte
  PROVE  /\ SetMode(m) = WriteBytes(<<m>>) \o (Reads(1, 0) \o <<>>) /\ SetMode(m) \in Seq(Op)
         /\ <<m>> \in Seq(Byte)
<1>1. ReadAck = Reads(1, 0)
  <2>1. /\ Reads(1, 0) \in Seq(Op) /\ Len(Reads(1, 0)) = 1 + 0
        /\ \A x \in 1..1 + 0 : Reads(1, 0)[x] = (IF x <= 1 THEN AckOp ELSE ByteOp)
    BY ReadsAre
  <2>2. ReadAck \in Seq(Op) /\ Len(ReadAck) = 1 /\ ReadAck[1] = AckOp
    BY ReadIsOp DEF ReadAck, AckOp
  <2> HIDE DEF Op
  <2>3. \A x \in 1..Len(ReadAck) : ReadAck[x] = Reads(1, 0)[x]
    BY <2>1, <2>2
  <2>4. Len(ReadAck) = Len(Reads(1, 0))
    BY <2>1, <2>2
  <2> QED
    BY <2>1, <2>2, <2>3, <2>4, SeqEqual, Zenon
<1> HIDE DEF Op, Byte
<1>2. <<m>> \in Seq(Byte)
  OBVIOUS
<1>3. WriteBytes(<<m>>) \in Seq(Op) /\ Reads(1, 0) \in Seq(Op)
  BY <1>2, Sends, ReadsAre
<1>4. Reads(1, 0) \o <<>> = Reads(1, 0)
  BY <1>3, ConcatEmptySeq, Zenon
<1>5. SetMode(m) = WriteBytes(<<m>>) \o Reads(1, 0)
  BY <1>1 DEF SetMode
<1>6. WriteBytes(<<m>>) \o Reads(1, 0) \in Seq(Op)
  BY <1>3, ConcatProperties, Zenon
<1> QED
  BY <1>2, <1>4, <1>5, <1>6

\* The modes are bytes.
LEMMA ModesAreBytes ==
  {NOP, PARALLEL, PING, INFO, SPEEDTEST, GPIO, GID, XFER, GETPINCOUNT, SETPINCOUNT, SCANBUS, MONITOR, VOLTAGE}
    \subseteq Byte
  BY DEF Byte, NOP, PARALLEL, PING, INFO, SPEEDTEST, GPIO, GID, XFER, GETPINCOUNT, SETPINCOUNT,
         SCANBUS, MONITOR, VOLTAGE

\* The end of PinCount: num_pins is set, and Monitor goes on to its mode.
LEMMA PinsReadIs ==
  /\ PinsRead \in Seq(Op) /\ PinsRead # <<>> /\ Head(PinsRead).op = "pins"
  /\ Tail(PinsRead) = IF object = MONITOR THEN SetMode(MONITOR) ELSE <<>>
<1>1. SetMode(MONITOR) \in Seq(Op)
  BY ModeScript, ModesAreBytes
<1>2. (IF object = MONITOR THEN SetMode(MONITOR) ELSE <<>>) \in Seq(Op)
  BY <1>1, EmptySeq, Zenon
<1> QED
  BY <1>2, DoIs, ZenonT(60) DEF PinsRead

\* A library that asks sends the rest of its record first, and then reads.
LEMMA AsksIs ==
  ASSUME Types, NEW q \in Seq(Byte), NEW script, Asks(q, script)
  PROVE  /\ script \in Seq(Op) /\ script # <<>> /\ Len(q) <= Want[pc]
         /\ Len(q) < Want[pc] => Head(script).op = "send"
         /\ Len(q) = Want[pc] => Head(script).op \in {"ack", "byte"}
<1> HIDE DEF Op, Byte, Types
<1>1. PICK s \in Seq(Byte), k \in 0..3, n \in Nat, t \in Seq(Op) :
        script = WriteBytes(s) \o (Reads(k, n) \o t) /\ Expects(q \o s, k, n, t)
  BY DEF Asks
<1>2. q \o s \in Seq(Byte) /\ Len(q \o s) = Len(q) + Len(s) /\ Len(q) \in Nat /\ Len(s) \in Nat
  BY ConcatProperties, LenProperties
<1>3. Len(q \o s) = Want[pc] /\ k + n > 0
  BY <1>1, <1>2, ExpectedRecord, Zenon
<1>4. Reads(k, n) \o t \in Seq(Op) /\ WriteBytes(s) \o (Reads(k, n) \o t) \in Seq(Op)
  <2>1. k \in Nat
    OBVIOUS
  <2>3. Reads(k, n) \in Seq(Op) /\ WriteBytes(s) \in Seq(Op)
    BY <2>1, ReadsAre, Sends, Zenon
  <2>2. Reads(k, n) \o t \in Seq(Op)
    BY <2>3, ConcatProperties, Zenon
  <2> QED
    BY <2>2, <2>3, ConcatProperties, Zenon
<1>5. CASE s # <<>>
  <2>1. script # <<>> /\ Head(script) = SendOp(s[1])
    BY <1>1, <1>4, <1>5, SendFirst, Zenon
  <2>2. Len(s) > 0
    BY <1>5, EmptySeq
  <2>3. Head(script).op = "send"
    BY <2>1, Ops, Zenon
  <2>4. Len(q) < Want[pc] /\ Len(q) <= Want[pc] /\ Len(q) # Want[pc]
    BY <1>2, <1>3, <2>2
  <2>5. script \in Seq(Op)
    BY <1>1, <1>4
  <2> QED
    BY <2>1, <2>3, <2>4, <2>5, Zenon
<1>6. CASE s = <<>>
  <2>1. script = Reads(k, n) \o t
    BY <1>1, <1>4, <1>6, SendNone, Zenon
  <2>2. k \in Nat
    OBVIOUS
  <2>3. script # <<>> /\ Head(script) = (IF k > 0 THEN AckOp ELSE ByteOp)
    BY <1>3, <2>1, <2>2, ReadFirst, Zenon
  <2>4. Head(script).op \in {"ack", "byte"}
    BY <2>3, Ops
  <2>5. Len(s) = 0
    BY <1>6
  <2>6. Len(q) = Want[pc]
    BY <1>2, <1>3, <2>5
  <2>7. script \in Seq(Op)
    BY <1>1, <1>4
  <2> QED
    BY <1>2, <2>3, <2>4, <2>6, <2>7
<1> QED
  BY <1>5, <1>6

-----------------------------------------------------------------------------
(* Where the conversation is when the library or the firmware moves.       *)

\* What the next operation is when nothing is under way.
LEMMA QuietIs ==
  ASSUME Types, NEW script, Quiet(script)
  PROVE  /\ script \in Seq(Op)
         /\ script # <<>> => Head(script).op \in {"close", "pins", "send"}
         /\ script # <<>> /\ Head(script).op = "send" => Asks(buf, script)
         /\ Len(buf) < Want[pc]
<1>0. buf \in Seq(Byte) /\ pc \in DOMAIN Want
  BY DEF Types
<1> HIDE DEF Op, Byte, Types
<1>1. CASE script = <<>> /\ pc = ModePc /\ buf = <<>>
  <2>1. Want[pc] \in {1, 2, 4}
    BY <1>0, Sizes
  <2>2. Len(buf) < Want[pc]
    BY <1>1, <2>1
  <2> QED
    BY <1>1, <2>2
<1>2. CASE script = Do("close") /\ pc = "main" /\ buf = <<>>
  <2>1. script \in Seq(Op) /\ script # <<>> /\ Head(script).op = "close"
    BY <1>2, DoIs, Zenon
  <2>2. Len(buf) < Want[pc]
    BY <1>2, Sizes
  <2> QED
    BY <2>1, <2>2, Zenon
<1>3. CASE script = PinsRead /\ pc = "main" /\ buf = <<>>
  <2>1. script \in Seq(Op) /\ script # <<>> /\ Head(script).op = "pins"
    BY <1>3, PinsReadIs, Zenon
  <2>2. Len(buf) < Want[pc]
    BY <1>3, Sizes
  <2> QED
    BY <2>1, <2>2, Zenon
<1>4. CASE Len(buf) < Want[pc] /\ Asks(buf, script)
  <2>1. script \in Seq(Op) /\ Head(script).op = "send"
    BY <1>0, <1>4, AsksIs
  <2> QED
    BY <1>4, <2>1, Zenon
<1> QED
  BY <1>1, <1>2, <1>3, <1>4, Zenon DEF Quiet

\* An answer is under way, or the library asks or has nothing to do.
LEMMA HearingIs ==
  ASSUME Types, NEW k \in 0..3, NEW d \in Seq(Byte), NEW t,
         todo = Reads(k, Len(d)) \o t, Quiet(t)
  PROVE  /\ k > 0 => todo # <<>> /\ Head(todo).op = "ack" /\ Tail(todo) = Reads(k - 1, Len(d)) \o t
         /\ k = 0 /\ d # <<>> =>
              todo # <<>> /\ Head(todo).op = "byte" /\ Tail(todo) = Reads(0, Len(d) - 1) \o t
         /\ k = 0 /\ d = <<>> => todo = t
<1>1. t \in Seq(Op)
  BY QuietIs, Zenon
<1> HIDE DEF Op, Byte, Types
<1>2. k \in Nat /\ Len(d) \in Nat
  BY LenProperties
<1>3. ASSUME k > 0
      PROVE  todo # <<>> /\ Head(todo).op = "ack" /\ Tail(todo) = Reads(k - 1, Len(d)) \o t
  <2>1. k + Len(d) > 0
    BY <1>2, <1>3
  <2>2. todo # <<>> /\ Head(todo) = AckOp /\ Tail(todo) = Reads(k - 1, Len(d)) \o t
    BY <1>1, <1>2, <1>3, <2>1, ReadFirst, ZenonT(60)
  <2> QED
    BY <2>2, Ops, Zenon
<1>4. ASSUME k = 0, d # <<>>
      PROVE  todo # <<>> /\ Head(todo).op = "byte" /\ Tail(todo) = Reads(0, Len(d) - 1) \o t
  <2>1. k + Len(d) > 0 /\ ~(k > 0)
    BY <1>2, <1>4, EmptySeq
  <2>2. todo # <<>> /\ Head(todo) = ByteOp /\ Tail(todo) = Reads(0, Len(d) - 1) \o t
    BY <1>1, <1>2, <1>4, <2>1, ReadFirst, ZenonT(60)
  <2> QED
    BY <2>2, Ops, Zenon
<1>5. ASSUME k = 0, d = <<>> PROVE todo = t
  <2>1. todo = Reads(0, 0) \o t
    BY <1>5
  <2> QED
    BY <1>1, <2>1, ReadNone, Zenon
<1> QED
  BY <1>3, <1>4, <1>5

\* No line, no bytes.
LEMMA AcksNone == ASSUME NEW d \in Seq(Byte) PROVE Acks(0) \o d = d
<1> HIDE DEF Byte
<1>1. Acks(0) = <<>>
  <2>1. Acks(0) \in Seq(Byte) /\ Len(Acks(0)) = 2 * 0
    BY AcksAre
  <2> QED
    BY <2>1
<1> QED
  BY <1>1, ConcatEmptySeq

\* Nothing is left of the answer.
LEMMA HeardAll ==
  ASSUME Types, NEW k \in 0..3, NEW d \in Seq(Byte), k = 0, d = <<>>,
         toHost = Acks(k) \o d, produced = taken \o d
  PROVE  toHost = <<>> /\ produced = taken
<1>1. taken \in Seq(Byte)
  BY DEF Types
<1> HIDE DEF Byte, Types
<1>2. Acks(0) \o <<>> = <<>> /\ taken \o <<>> = taken
  BY <1>1, AcksNone, ConcatEmptySeq, EmptySeq
<1> QED
  BY <1>2

\* What the next operation is after a rejection.
LEMMA RejectedIs ==
  ASSUME Rejected
  PROVE  \/ failed = TRUE /\ todo = <<>>
         \/ failed = FALSE /\ toHost = Nack \o Text /\ todo # <<>> /\ Head(todo).op = "ack"
<1> HIDE DEF Op, Byte
<1>1. ASSUME NEW t \in Seq(Op), todo = Reads(1, 0) \o t
      PROVE  todo # <<>> /\ Head(todo).op = "ack"
  <2>1. 1 \in Nat /\ 0 \in Nat /\ 1 + 0 > 0 /\ 1 > 0
    OBVIOUS
  <2>2. todo # <<>> /\ Head(todo) = AckOp
    BY <1>1, <2>1, ReadFirst, Zenon
  <2> QED
    BY <2>2, Ops, Zenon
<1> QED
  BY <1>1, Zenon DEF Rejected

\* What the next operation is while Info or ID reads text.
LEMMA TextIs ==
  ASSUME HearingText
  PROVE  todo # <<>> /\ Head(todo).op \in {"ack", "info", "text"} /\ toHost # <<>>
<1>1. Do("info") # <<>> /\ Head(Do("info")).op = "info" /\ Do("text") # <<>> /\ Head(Do("text")).op = "text"
  BY DoIs, Zenon
<1>2. /\ ReadAck \o Do("info") # <<>> /\ Head(ReadAck \o Do("info")).op = "ack"
      /\ ReadAck \o Do("text") # <<>> /\ Head(ReadAck \o Do("text")).op = "ack"
  <2>1. Do("info") \in Seq(Op) /\ Do("text") \in Seq(Op)
    BY DoIs, Zenon
  <2>2. ReadAck \o Do("info") # <<>> /\ Head(ReadAck \o Do("info")).op = "ack"
    BY <2>1, DoIs, ZenonT(60) DEF ReadAck
  <2>3. ReadAck \o Do("text") # <<>> /\ Head(ReadAck \o Do("text")).op = "ack"
    BY <2>1, DoIs, ZenonT(60) DEF ReadAck
  <2> QED
    BY <2>2, <2>3
<1>3. /\ Ack \o TextLine \o TextLine \o Ack # <<>> /\ TextLine \o TextLine \o Ack # <<>>
      /\ TextLine \o Ack # <<>> /\ Ack # <<>> /\ Ack \o TextLine # <<>> /\ TextLine # <<>>
  BY DEF Ack, TextLine
<1> QED
  BY <1>1, <1>2, <1>3, Zenon DEF HearingText

\* Between two calls nothing is under way.
LEMMA NowIdle ==
  ASSUME Types, Talking, Idle
  PROVE  /\ toBoard = <<>> /\ toHost = <<>> /\ taken = produced
         /\ buf = <<>> /\ pc = ModePc /\ failed = FALSE
         /\ object = MONITOR => hostPins = numPins
         /\ call.name = "Write" => written = call.data
<1>1. port = "open" /\ todo = <<>> /\ ~failed
  BY DEF Idle
<1>0. buf \in Seq(Byte) /\ toBoard \in Seq(Byte) /\ buf \o toBoard \in Seq(Byte)
  <2>1. buf \in Seq(Byte) /\ toBoard \in Seq(Byte)
    BY DEF Types
  <2> QED
    BY <2>1, ConcatProperties, Zenon
<1> HIDE DEF Op, Byte, Types
<1>2. Hearing /\ failed = FALSE
  <2>1. ~Rejected
    BY <1>1, RejectedIs
  <2>2. ~HearingText
    BY <1>1, TextIs, Zenon
  <2>3. ~Asking
    BY <1>0, <1>1, AsksIs DEF Asking
  <2> QED
    BY <1>1, <2>1, <2>2, <2>3 DEF Talking, Closed
<1>3. PICK k \in 0..3, d \in Seq(Byte), t \in Seq(Op) :
        toHost = Acks(k) \o d /\ produced = taken \o d /\ todo = Reads(k, Len(d)) \o t /\ Quiet(t)
  BY <1>2 DEF Hearing
<1>4. k = 0 /\ d = <<>> /\ todo = t
  <2>1. /\ k > 0 => todo # <<>>
        /\ k = 0 /\ d # <<>> => todo # <<>>
        /\ k = 0 /\ d = <<>> => todo = t
    BY <1>3, HearingIs, Zenon
  <2> QED
    BY <1>1, <2>1
<1>5. toHost = <<>> /\ produced = taken
  BY <1>3, <1>4, HeardAll
<1>6. Quiet(<<>>)
  BY <1>1, <1>3, <1>4
<1>7. Do("close") # <<>> /\ PinsRead # <<>> /\ ~Asks(buf, <<>>)
  BY <1>0, DoIs, PinsReadIs, AsksIs, Zenon
<1>8. pc = ModePc /\ buf = <<>> /\ (object = MONITOR => hostPins = numPins)
      /\ (call.name = "Write" => written = call.data)
  BY <1>6, <1>7, Zenon DEF Quiet
<1> QED
  BY <1>2, <1>5, <1>8 DEF Hearing

\* When the library sends, the firmware expects what it sends.
LEMMA NowSending ==
  ASSUME Types, Talking, Doing("send")
  PROVE  port = "open" /\ failed = FALSE /\ toHost = <<>> /\ taken = produced
         /\ Asks(buf \o toBoard, todo) /\ Len(buf \o toBoard) < Want[pc]
<1>1. todo # <<>> /\ Head(todo).op = "send"
  BY DEF Doing
<1>0. buf \in Seq(Byte) /\ toBoard \in Seq(Byte) /\ buf \o toBoard \in Seq(Byte)
  <2>1. buf \in Seq(Byte) /\ toBoard \in Seq(Byte)
    BY DEF Types
  <2> QED
    BY <2>1, ConcatProperties, Zenon
<1> HIDE DEF Op, Byte, Types
<1>2. port = "open" /\ failed = FALSE /\ (Asking \/ Hearing)
  <2>1. ~Rejected
    BY <1>1, RejectedIs
  <2>2. ~HearingText
    BY <1>1, TextIs
  <2> QED
    BY <1>1, <2>1, <2>2 DEF Talking, Closed
<1>3. CASE Asking
  <2>1. toHost = <<>> /\ taken = produced /\ Asks(buf \o toBoard, todo)
    BY <1>3 DEF Asking
  <2>2. Len(buf \o toBoard) <= Want[pc] /\ Len(buf \o toBoard) # Want[pc]
    BY <1>0, <1>1, <2>1, AsksIs
  <2>3. Len(buf \o toBoard) \in Nat /\ Want[pc] \in Nat
    <3>1. pc \in DOMAIN Want
      BY DEF Types
    <3> QED
      BY <1>0, <3>1, LenProperties, Sizes
  <2> QED
    BY <1>2, <2>1, <2>2, <2>3
<1>4. CASE Hearing
  <2>1. PICK k \in 0..3, d \in Seq(Byte), t \in Seq(Op) :
          toHost = Acks(k) \o d /\ produced = taken \o d /\ todo = Reads(k, Len(d)) \o t /\ Quiet(t)
    BY <1>4 DEF Hearing
  <2>2. k = 0 /\ d = <<>> /\ todo = t
    <3>1. /\ k > 0 => Head(todo).op = "ack"
          /\ k = 0 /\ d # <<>> => Head(todo).op = "byte"
          /\ k = 0 /\ d = <<>> => todo = t
      BY <2>1, HearingIs, Zenon
    <3> QED
      BY <1>1, <3>1
  <2>3. toHost = <<>> /\ produced = taken
    BY <2>1, <2>2, HeardAll
  <2>4. toBoard = <<>> /\ buf \o toBoard = buf
    BY <1>0, <1>4, ConcatEmptySeq DEF Hearing
  <2>5. Asks(buf, todo) /\ Len(buf) < Want[pc]
    BY <1>1, <2>1, <2>2, QuietIs
  <2> QED
    BY <1>2, <2>3, <2>4, <2>5
<1> QED
  BY <1>2, <1>3, <1>4

\* A count that was read, a port that is closed.
LEMMA NowEnding ==
  ASSUME Types, Talking, NEW o \in {"pins", "close"}, Doing(o)
  PROVE  /\ port = "open" /\ failed = FALSE /\ toBoard = <<>> /\ toHost = <<>> /\ taken = produced
         /\ pc = "main" /\ buf = <<>>
         /\ o = "pins" => /\ todo = PinsRead /\ Plain /\ call.name # "Write"
                          /\ produced # <<>> /\ Last(produced) = numPins
         /\ o = "close" => todo = Do("close")
<1>1. todo # <<>> /\ Head(todo).op = o
  BY DEF Doing
<1>0. buf \in Seq(Byte) /\ toBoard \in Seq(Byte) /\ buf \o toBoard \in Seq(Byte)
  <2>1. buf \in Seq(Byte) /\ toBoard \in Seq(Byte)
    BY DEF Types
  <2> QED
    BY <2>1, ConcatProperties, Zenon
<1> HIDE DEF Op, Byte, Types
<1>2. port = "open" /\ failed = FALSE /\ Hearing
  <2>1. ~Rejected
    BY <1>1, RejectedIs
  <2>2. ~HearingText
    BY <1>1, TextIs
  <2>3. ~Asking
    <3>1. Asks(buf \o toBoard, todo) => Head(todo).op \in {"send", "ack", "byte"}
      <4> SUFFICES ASSUME Asks(buf \o toBoard, todo) PROVE Head(todo).op \in {"send", "ack", "byte"}
        OBVIOUS
      <4>1. /\ Len(buf \o toBoard) <= Want[pc]
            /\ Len(buf \o toBoard) < Want[pc] => Head(todo).op = "send"
            /\ Len(buf \o toBoard) = Want[pc] => Head(todo).op \in {"ack", "byte"}
        BY <1>0, AsksIs
      <4>2. Len(buf \o toBoard) \in Nat /\ Want[pc] \in Nat
        <5>1. pc \in DOMAIN Want
          BY DEF Types
        <5> QED
          BY <1>0, <5>1, LenProperties, Sizes
      <4> QED
        BY <4>1, <4>2
    <3> QED
      BY <1>1, <3>1 DEF Asking
  <2> QED
    BY <1>1, <2>1, <2>2, <2>3 DEF Talking, Closed
<1>3. PICK k \in 0..3, d \in Seq(Byte), t \in Seq(Op) :
        toHost = Acks(k) \o d /\ produced = taken \o d /\ todo = Reads(k, Len(d)) \o t /\ Quiet(t)
  BY <1>2 DEF Hearing
<1>4. k = 0 /\ d = <<>> /\ todo = t
  <2>1. /\ k > 0 => Head(todo).op = "ack"
        /\ k = 0 /\ d # <<>> => Head(todo).op = "byte"
        /\ k = 0 /\ d = <<>> => todo = t
    BY <1>3, HearingIs, Zenon
  <2> QED
    BY <1>1, <2>1
<1>5. toHost = <<>> /\ produced = taken
  BY <1>3, <1>4, HeardAll
<1>6. Quiet(todo)
  BY <1>3, <1>4
<1>7. ~(Len(buf) < Want[pc] /\ Asks(buf, todo))
  <2>1. Len(buf) < Want[pc] /\ Asks(buf, todo) => Head(todo).op = "send"
    BY <1>0, AsksIs
  <2> QED
    BY <1>1, <2>1
<1>8. Head(Do("close")).op = "close" /\ Head(PinsRead).op = "pins"
  BY DoIs, PinsReadIs, Zenon
<1>9. CASE o = "pins"
  BY <1>1, <1>2, <1>5, <1>6, <1>7, <1>8, <1>9 DEF Quiet, Hearing
<1>10. CASE o = "close"
  BY <1>1, <1>2, <1>5, <1>6, <1>7, <1>8, <1>10 DEF Quiet, Hearing
<1> QED
  BY <1>9, <1>10

\* The library reads what the firmware has sent.
LEMMA NowReading ==
  ASSUME Types, Talking, toHost # <<>>,
         NEW o \in {"byte", "ack", "text", "info"}, Doing(o)
  PROVE  /\ port = "open"
         /\ \/ failed = FALSE /\ Hearing
            \/ failed = FALSE /\ HearingText /\ o # "byte"
            \/ Rejected /\ failed = FALSE /\ toHost = Nack \o Text /\ o = "ack"
<1>1. todo # <<>> /\ Head(todo).op = o
  BY DEF Doing
<1> HIDE DEF Op, Byte, Types
<1>2. CASE Rejected
  BY <1>1, <1>2, RejectedIs DEF Talking, Closed
<1>3. CASE HearingText
  <2>1. o # "byte"
    BY <1>1, <1>3, TextIs
  <2> QED
    BY <1>1, <1>3, <2>1, RejectedIs DEF Talking, Closed
<1>4. CASE ~Rejected /\ ~HearingText
  BY <1>1, <1>4 DEF Talking, Closed, Asking
<1> QED
  BY <1>2, <1>3, <1>4

\* The firmware has a whole record: its answer is expected.
LEMMA NowServing ==
  ASSUME Types, Talking, Len(buf) = Want[pc]
  PROVE  /\ port = "open" /\ failed = FALSE /\ toBoard = <<>> /\ toHost = <<>> /\ taken = produced
         /\ \E k \in 0..3, n \in Nat, t \in Seq(Op) : todo = Reads(k, n) \o t /\ Expects(buf, k, n, t)
<1>0. buf \in Seq(Byte) /\ toBoard \in Seq(Byte) /\ pc \in DOMAIN Want
  BY DEF Types
<1> HIDE DEF Op, Byte, Types
<1>1. Want["main"] = 1 /\ Len(<<>>) = 0
  BY Sizes
<1>2. ~Listens("main")
  BY <1>1 DEF Listens
<1>3. port = "open" /\ failed = FALSE /\ (Asking \/ Hearing)
  BY <1>2 DEF Talking, Closed, Rejected, HearingText
<1>4. ~Hearing
  <2> SUFFICES ASSUME Hearing PROVE FALSE
    OBVIOUS
  <2>1. PICK t \in Seq(Op) : Quiet(t)
    BY DEF Hearing
  <2>2. Len(buf) < Want[pc] /\ Len(buf) \in Nat
    BY <1>0, <2>1, QuietIs, LenProperties
  <2> QED
    BY <2>2
<1>5. toHost = <<>> /\ taken = produced /\ Asks(buf \o toBoard, todo)
  BY <1>3, <1>4 DEF Asking
<1>6. PICK s \in Seq(Byte), k \in 0..3, n \in Nat, t \in Seq(Op) :
        todo = WriteBytes(s) \o (Reads(k, n) \o t) /\ Expects((buf \o toBoard) \o s, k, n, t)
  BY <1>5 DEF Asks
<1>7. /\ buf \o toBoard \in Seq(Byte) /\ Len(buf \o toBoard) = Len(buf) + Len(toBoard)
      /\ (buf \o toBoard) \o s \in Seq(Byte) /\ Len((buf \o toBoard) \o s) = Len(buf \o toBoard) + Len(s)
      /\ Len(buf) \in Nat /\ Len(toBoard) \in Nat /\ Len(s) \in Nat
  <2>1. buf \o toBoard \in Seq(Byte) /\ Len(buf \o toBoard) = Len(buf) + Len(toBoard)
    BY <1>0, ConcatProperties, Zenon
  <2>2. (buf \o toBoard) \o s \in Seq(Byte) /\ Len((buf \o toBoard) \o s) = Len(buf \o toBoard) + Len(s)
    BY <2>1, ConcatProperties, Zenon
  <2> QED
    BY <1>0, <2>1, <2>2, LenProperties
<1>8. Len((buf \o toBoard) \o s) = Want[pc]
  BY <1>6, <1>7, ExpectedRecord
<1>9. toBoard = <<>> /\ s = <<>>
  <2>1. Len(toBoard) = 0 /\ Len(s) = 0
    BY <1>7, <1>8, SMT
  <2> QED
    BY <1>0, <2>1, EmptySeq
<1>10. (buf \o toBoard) \o s = buf
  BY <1>0, <1>9, ConcatEmptySeq
<1>11. todo = Reads(k, n) \o t
  <2>1. k \in Nat
    OBVIOUS
  <2>2. Reads(k, n) \o t \in Seq(Op)
    BY <2>1, ReadsAre, ConcatProperties, Zenon
  <2> QED
    BY <1>6, <1>9, <2>2, SendNone, Zenon
<1> QED
  BY <1>3, <1>5, <1>6, <1>9, <1>10, <1>11

-----------------------------------------------------------------------------
(* What stays, and where a step leads.                                     *)

\* What is expected depends on these.
topic == <<pc, object, config, hostPins, call, numPins, hconfig, i, written>>

\* What the firmware expects depends on the topic alone.
LEMMA ExpectsSame ==
  ASSUME NEW r, NEW k, NEW n, NEW t, Expects(r, k, n, t), UNCHANGED topic
  PROVE  Expects(r, k, n, t)'
<1>1. /\ pc' = pc /\ object' = object /\ config' = config /\ hostPins' = hostPins /\ call' = call
      /\ numPins' = numPins /\ hconfig' = hconfig /\ i' = i /\ written' = written
  BY DEF topic
<1>2. PinsRead' = PinsRead /\ ScanRead' = ScanRead /\ Plain' = Plain /\ Count' = Count
      /\ \A a, c : Pack(a, c)' = Pack(a, c)
  BY <1>1 DEF PinsRead, ScanRead, Plain, Count, Pack
<1>3. ModeAsked(r[1], k, n, t) => ModeAsked(r[1], k, n, t)'
  BY <1>1, <1>2 DEF ModeAsked
<1>4. RecordAsked(r, k, n, t) => RecordAsked(r, k, n, t)'
  BY <1>1, <1>2 DEF RecordAsked
<1>5. WriteAsked(r, k, n, t) => WriteAsked(r, k, n, t)'
  BY <1>1, <1>2 DEF WriteAsked
<1> QED
  BY <1>1, <1>3, <1>4, <1>5 DEF Expects

\* So does whether it is asked for it.
LEMMA AsksSame ==
  ASSUME NEW q, NEW t, Asks(q, t), UNCHANGED topic
  PROVE  Asks(q, t)'
  BY ExpectsSame DEF Asks

\* A record the firmware expects next is being asked for.
LEMMA AsksNow ==
  ASSUME NEW q, NEW script, NEW s \in Seq(Byte), NEW k \in 0..3, NEW n \in Nat, NEW t \in Seq(Op),
         script = WriteBytes(s) \o (Reads(k, n) \o t), Expects(q \o s, k, n, t)'
  PROVE  Asks(q, script)'
  BY DEF Asks

\* Whether nothing is under way depends on the topic, buf and produced.
LEMMA QuietSame ==
  ASSUME NEW t, Quiet(t), UNCHANGED <<topic, buf, produced>>
  PROVE  Quiet(t)'
<1>1. /\ pc' = pc /\ object' = object /\ config' = config /\ hostPins' = hostPins /\ call' = call
      /\ numPins' = numPins /\ hconfig' = hconfig /\ i' = i /\ written' = written
      /\ buf' = buf /\ produced' = produced
  BY DEF topic
<1>2. PinsRead' = PinsRead /\ Plain' = Plain /\ ModePc' = ModePc
  BY <1>1 DEF PinsRead, Plain, ModePc
<1>3. Asks(buf, t) => Asks(buf, t)'
  BY <1>1, ExpectsSame DEF Asks
<1> QED
  BY <1>1, <1>2, <1>3 DEF Quiet

\* A call that goes on with another record.
LEMMA QuietAsks ==
  ASSUME NEW script, Len(buf') < Want[pc'], Asks(buf, script)'
  PROVE  Quiet(script)'
  BY DEF Quiet

\* The library hears what is left of an answer.
LEMMA HearsNext ==
  ASSUME port' = "open", failed' = FALSE, toBoard' = <<>>,
         NEW k \in 0..3, NEW d \in Seq(Byte), NEW t \in Seq(Op),
         toHost' = Acks(k) \o d, produced' = taken' \o d, todo' = Reads(k, Len(d)) \o t, Quiet(t)'
  PROVE  Talking'
  BY DEF Talking, Hearing

-----------------------------------------------------------------------------
(* The serial operations keep the conversation.                            *)

\* A byte goes from one sequence to the next.
LEMMA ByteMoves ==
  ASSUME NEW S, NEW a \in Seq(S), NEW s \in Seq(S), s # <<>>
  PROVE  Append(a, s[1]) \o Tail(s) = a \o s /\ Append(a, s[1]) \in Seq(S) /\ Tail(s) \in Seq(S)
         /\ Len(Tail(s)) = Len(s) - 1 /\ s[1] = Head(s) /\ s[1] \in S
<1>1. Len(s) \in Nat \ {0} /\ s[1] \in S /\ s[1] = Head(s) /\ Tail(s) \in Seq(S) /\ Len(Tail(s)) = Len(s) - 1
      /\ \A x \in 1..Len(s) - 1 : Tail(s)[x] = s[x + 1]
  BY EmptySeq, HeadTailProperties
<1>2. Append(a, s[1]) \in Seq(S)
  BY <1>1
<1>3. Append(a, s[1]) \o Tail(s) \in Seq(S) /\ a \o s \in Seq(S)
  BY <1>1, <1>2, ConcatProperties, Zenon
<1>4. Len(Append(a, s[1]) \o Tail(s)) = Len(a \o s)
  BY <1>1, <1>2
<1>5. \A x \in 1..Len(a \o s) : (Append(a, s[1]) \o Tail(s))[x] = (a \o s)[x]
  BY <1>1, <1>2
<1>6. Append(a, s[1]) \o Tail(s) = a \o s
  BY <1>3, <1>4, <1>5, SeqEqual
<1> QED
  BY <1>1, <1>2, <1>6

\* The library is still asking.
LEMMA StillAsking ==
  ASSUME port' = "open", failed' = FALSE, toHost' = <<>>, taken' = produced',
         Asks(buf \o toBoard, todo)'
  PROVE  Talking'
  BY DEF Talking, Asking

\* Bytes are joined one after another.
LEMMA BytesJoin ==
  ASSUME NEW a \in Seq(Byte), NEW b \in Seq(Byte), NEW c \in Seq(Byte)
  PROVE  a \o b \o c = a \o (b \o c)
<1> HIDE DEF Byte
<1> QED
  BY ConcatAssociative, SMTT(60)

\* The variables that are sequences.
LEMMA Sequenced ==
  ASSUME Types
  PROVE  /\ buf \in Seq(Byte) /\ toBoard \in Seq(Byte) /\ toHost \in Seq(Byte) /\ taken \in Seq(Byte)
         /\ produced \in Seq(Byte) /\ written \in Seq(Byte) /\ todo \in Seq(Op)
         /\ buf \o toBoard \in Seq(Byte)
<1>1. /\ buf \in Seq(Byte) /\ toBoard \in Seq(Byte) /\ toHost \in Seq(Byte) /\ taken \in Seq(Byte)
      /\ produced \in Seq(Byte) /\ written \in Seq(Byte) /\ todo \in Seq(Op)
  BY DEF Types
<1>2. buf \o toBoard \in Seq(Byte)
  BY <1>1, ConcatProperties, Zenon
<1> QED
  BY <1>1, <1>2

\* The library sends a byte of a record.
LEMMA HostSendStep == ASSUME Types, Talking, HostSend PROVE Types' /\ Talking'
<1> HIDE DEF Op, Byte, Types
<1>0. /\ buf \in Seq(Byte) /\ toBoard \in Seq(Byte) /\ buf \o toBoard \in Seq(Byte)
  BY Sequenced
<1>1. Doing("send") /\ todo # <<>>
  BY DEF HostSend, Doing
<1>2. port = "open" /\ failed = FALSE /\ toHost = <<>> /\ taken = produced
      /\ Asks(buf \o toBoard, todo) /\ Len(buf \o toBoard) < Want[pc]
  BY <1>1, NowSending
<1>3. PICK s \in Seq(Byte), k \in 0..3, n \in Nat, t \in Seq(Op) :
        todo = WriteBytes(s) \o (Reads(k, n) \o t) /\ Expects((buf \o toBoard) \o s, k, n, t)
  BY <1>2 DEF Asks
<1>16. PICK r : r = (buf \o toBoard) \o s
  OBVIOUS
<1> DEFINE u == Reads(k, n) \o t
<1>4. u \in Seq(Op)
  <2>1. k \in Nat
    OBVIOUS
  <2> QED
    BY <2>1, ReadsAre, ConcatProperties, Zenon
<1> HIDE DEF u
<1>5. s # <<>>
  <2>1. s = <<>> => (buf \o toBoard) \o s = buf \o toBoard
    BY <1>0, ConcatEmptySeq
  <2>2. s = <<>> => r = buf \o toBoard /\ Expects(r, k, n, t)
    BY <1>3, <1>16, <2>1
  <2>3. s = <<>> => Len(buf \o toBoard) = Want[pc]
    BY <1>0, <2>2, ExpectedRecord
  <2>4. Len(buf \o toBoard) # Want[pc]
    <3>1. Len(buf \o toBoard) \in Nat
      BY <1>0, LenProperties
    <3> QED
      BY <1>2, <3>1
  <2> QED
    BY <2>3, <2>4
<1>6. todo = WriteBytes(s) \o u
  BY <1>3 DEF u
<1>7. Head(todo) = SendOp(s[1]) /\ Tail(todo) = WriteBytes(Tail(s)) \o u
  BY <1>4, <1>5, <1>6, SendFirst, Zenon
<1>8. Head(todo).byte = s[1]
  BY <1>7, Ops, Zenon
<1>9. toBoard' = Append(toBoard, s[1]) /\ todo' = WriteBytes(Tail(s)) \o u
  BY <1>7, <1>8 DEF HostSend
<1>10. UNCHANGED <<port, object, config, hostPins, call, taken, failed, toHost, pc, buf, numPins, hconfig, i, produced, written>>
  BY DEF HostSend, boardVars
<1>11. Tail(s) \in Seq(Byte) /\ toBoard' \in Seq(Byte) /\ toBoard' \o Tail(s) = toBoard \o s
  BY <1>5, <1>9, Sequenced, ByteMoves, ZenonT(60)
<1>12. (buf \o toBoard') \o Tail(s) = (buf \o toBoard) \o s
  <2>1. (buf \o toBoard') \o Tail(s) = buf \o (toBoard' \o Tail(s))
    <3>1. PICK x \in Seq(Byte) : x = toBoard'
      BY <1>11
    <3>2. PICK y \in Seq(Byte) : y = Tail(s)
      BY <1>11
    <3>3. PICK z \in Seq(Byte) : z = buf
      BY <1>0
    <3>4. z \o x \o y = z \o (x \o y)
      BY BytesJoin, ZenonT(60)
    <3> QED
      BY <3>1, <3>2, <3>3, <3>4
  <2>2. (buf \o toBoard) \o s = buf \o (toBoard \o s)
    <3>1. PICK x \in Seq(Byte) : x = toBoard
      BY <1>0
    <3>2. PICK z \in Seq(Byte) : z = buf
      BY <1>0
    <3>3. z \o x \o s = z \o (x \o s)
      BY BytesJoin, ZenonT(60)
    <3> QED
      BY <3>1, <3>2, <3>3
  <2> QED
    BY <1>11, <2>1, <2>2
<1>13. Asks(buf \o toBoard, todo)'
  <2>1. Expects(r, k, n, t)'
    BY <1>3, <1>10, <1>16, ExpectsSame DEF topic
  <2> QED
    BY <1>9, <1>10, <1>11, <1>12, <1>16, <2>1 DEF Asks, u
<1>14. Talking'
  BY <1>2, <1>10, <1>13, StillAsking
<1>15. todo' \in Seq(Op)
  BY <1>4, <1>9, <1>11, Sends, ConcatProperties, Zenon
<1> QED
  BY <1>10, <1>11, <1>14, <1>15 DEF Types

\* The firmware reads a byte of a record.
LEMMA FwByteStep == ASSUME Types, Talking, FwByte PROVE Types' /\ Talking'
<1>0. /\ buf \in Seq(Byte) /\ toBoard \in Seq(Byte) /\ buf \o toBoard \in Seq(Byte)
  BY Sequenced
<1>1. /\ toBoard # <<>> /\ Len(buf) < Want[pc] /\ buf' = Append(buf, Head(toBoard)) /\ toBoard' = Tail(toBoard)
      /\ UNCHANGED <<port, object, config, hostPins, call, todo, taken, failed, toHost, pc, numPins,
                     hconfig, i, produced, written>>
  BY DEF FwByte, hostVars
<1> HIDE DEF Op, Byte, Types
<1>2. port = "open" /\ failed = FALSE /\ Asking
  BY <1>1 DEF Talking, Closed, Rejected, HearingText, Hearing, Listens
<1>3. buf' \o toBoard' = buf \o toBoard /\ buf' \in Seq(Byte) /\ toBoard' \in Seq(Byte)
  BY <1>0, <1>1, ByteMoves, SMTT(60)
<1>4. PICK q : q = buf \o toBoard
  OBVIOUS
<1>5. Asks(q, todo)
  BY <1>2, <1>4 DEF Asking
<1>6. Asks(buf \o toBoard, todo)'
  <2>1. PICK t : t = todo
    OBVIOUS
  <2>2. Asks(q, t)'
    BY <1>1, <1>5, <2>1, AsksSame DEF topic
  <2> QED
    BY <1>1, <1>3, <1>4, <2>1, <2>2
<1>7. Talking'
  BY <1>1, <1>2, <1>6, StillAsking DEF Asking
<1>8. Len(buf') <= Want[pc]
  <2>1. Len(buf') = Len(buf) + 1 /\ Len(buf) \in Nat
    BY <1>0, <1>1, ByteMoves, AppendProperties, LenProperties
  <2>2. Want[pc] \in Nat
    <3>1. pc \in DOMAIN Want
      BY DEF Types
    <3> QED
      BY <3>1, Sizes
  <2> QED
    BY <1>1, <2>1, <2>2
<1> QED
  BY <1>1, <1>3, <1>7, <1>8 DEF Types

\* The library reads a byte of an answer.
LEMMA HostByteStep == ASSUME Types, Talking, HostByte PROVE Types' /\ Talking'
<1>0. toHost \in Seq(Byte) /\ taken \in Seq(Byte) /\ todo \in Seq(Op)
  BY Sequenced
<1>1. /\ Doing("byte") /\ toHost # <<>> /\ todo # <<>>
      /\ taken' = Append(taken, Head(toHost)) /\ toHost' = Tail(toHost) /\ todo' = Tail(todo)
      /\ UNCHANGED <<port, object, config, hostPins, call, failed, toBoard, pc, buf, numPins, hconfig, i,
                     produced, written>>
  BY DEF HostByte, Doing, Taken, boardVars
<1> HIDE DEF Op, Byte, Types
<1>2. port = "open" /\ failed = FALSE /\ Hearing
  <2>1. "byte" \in {"byte", "ack", "text", "info"} /\ "byte" # "ack"
    OBVIOUS
  <2> QED
    BY <1>1, <2>1, NowReading, Zenon
<1>3. PICK k \in 0..3, d \in Seq(Byte), t \in Seq(Op) :
        toHost = Acks(k) \o d /\ produced = taken \o d /\ todo = Reads(k, Len(d)) \o t /\ Quiet(t)
  BY <1>2 DEF Hearing
<1>4. k = 0 /\ d # <<>>
  <2>1. /\ k > 0 => Head(todo).op = "ack"
        /\ k = 0 /\ d = <<>> => toHost = <<>>
    <3>1. k > 0 => Head(todo).op = "ack"
      BY <1>3, HearingIs, Zenon
    <3>2. k = 0 /\ d = <<>> => toHost = <<>>
      BY <1>3, HeardAll, Zenon
    <3> QED
      BY <3>1, <3>2
  <2> QED
    BY <1>1, <2>1 DEF Doing
<1>5. toHost = d /\ todo' = Reads(0, Len(d) - 1) \o t
  <2>1. toHost = d
    BY <1>3, <1>4, AcksNone
  <2>2. Tail(todo) = Reads(0, Len(d) - 1) \o t
    BY <1>3, <1>4, HearingIs, Zenon
  <2> QED
    BY <1>1, <2>1, <2>2
<1>6. /\ Append(taken, d[1]) \o Tail(d) = taken \o d /\ Append(taken, d[1]) \in Seq(Byte)
      /\ Tail(d) \in Seq(Byte) /\ Len(Tail(d)) = Len(d) - 1 /\ d[1] = Head(d)
  BY <1>0, <1>4, ByteMoves, ZenonT(60)
<1>7. /\ toHost' = Acks(0) \o Tail(d) /\ produced' = taken' \o Tail(d) /\ todo' = Reads(0, Len(Tail(d))) \o t
      /\ taken' \in Seq(Byte) /\ toHost' \in Seq(Byte)
  BY <1>1, <1>3, <1>5, <1>6, AcksNone, Zenon
<1>8. Quiet(t)'
  BY <1>1, <1>3, QuietSame DEF topic
<1>9. toBoard' = <<>> /\ 0 \in 0..3
  BY <1>1, <1>2 DEF Hearing
<1>10. Talking'
  BY <1>1, <1>2, <1>6, <1>7, <1>8, <1>9, HearsNext
<1>11. todo' \in Seq(Op)
  BY <1>0, <1>1, HeadTailProperties
<1> QED
  BY <1>1, <1>7, <1>10, <1>11 DEF Types

\* The library closes the port.
LEMMA HostCloseStep == ASSUME Types, Talking, HostClose PROVE Types' /\ Talking'
<1>1. /\ Doing("close") /\ port' = "closed" /\ toHost' = <<>> /\ todo' = Tail(todo)
      /\ UNCHANGED <<object, config, hostPins, call, taken, failed, toBoard, pc, buf, numPins, hconfig, i,
                     produced, written>>
  BY DEF HostClose, boardVars
<1> HIDE DEF Op, Byte
<1>2. failed = FALSE /\ toBoard = <<>> /\ pc = "main" /\ buf = <<>> /\ todo = Do("close")
  BY <1>1, NowEnding
<1>3. Tail(todo) = <<>>
  BY <1>2, DoIs
<1>4. Talking'
  BY <1>1, <1>2, <1>3 DEF Talking, Closed, Listens
<1>5. todo' \in Seq(Op) /\ toHost' \in Seq(Byte)
  BY <1>1, <1>3, EmptySeq
<1>6. Types'
  BY <1>1, <1>5 DEF Types
<1> QED
  BY <1>4, <1>6

\* The library takes the count of pins it has read.
LEMMA HostPinsStep == ASSUME Types, Talking, HostPins PROVE Types' /\ Talking'
<1>0. taken \in Seq(Byte) /\ todo \in Seq(Op)
  BY Sequenced
<1>1. /\ Doing("pins") /\ hostPins' = Last(taken) /\ todo' = Tail(todo)
      /\ UNCHANGED <<port, object, config, call, taken, failed, toBoard, toHost, pc, buf, numPins, hconfig, i,
                     produced, written>>
  BY DEF HostPins, boardVars
<1> HIDE DEF Op, Byte, Types
<1>2. /\ port = "open" /\ failed = FALSE /\ toBoard = <<>> /\ toHost = <<>> /\ taken = produced
      /\ pc = "main" /\ buf = <<>> /\ todo = PinsRead /\ Plain /\ call.name # "Write" /\ Last(produced) = numPins
  BY <1>1, NowEnding
<1>3. hostPins' = numPins' /\ hostPins' = numPins
  BY <1>1, <1>2
<1>4. todo' = IF object = MONITOR THEN SetMode(MONITOR) ELSE <<>>
  BY <1>1, <1>2, PinsReadIs
<1>5. todo' \in Seq(Op)
  BY <1>4, ModeScript, ModesAreBytes, EmptySeq
<1>6. Quiet(todo)'
  <2>1. CASE object = MONITOR
    <3>1. todo' = WriteBytes(<<MONITOR>>) \o (Reads(1, 0) \o <<>>) /\ <<MONITOR>> \in Seq(Byte)
      BY <1>4, <2>1, ModeScript, ModesAreBytes
    <3>2. ModeAsked(MONITOR, 1, 0, <<>>)'
      BY <1>1, <1>3, <2>1 DEF ModeAsked
    <3>3. Expects(<<MONITOR>>, 1, 0, <<>>)'
      BY <1>1, <1>2, <3>2 DEF Expects
    <3>4. <<>> \o <<MONITOR>> = <<MONITOR>> /\ <<>> \in Seq(Op)
      BY <3>1, ConcatEmptySeq, EmptySeq
    <3>5. Asks(buf, todo)'
      <4>1. 1 \in 0..3 /\ 0 \in Nat /\ buf' = <<>>
        BY <1>1, <1>2
      <4> QED
        BY <3>1, <3>3, <3>4, <4>1 DEF Asks
    <3>6. Len(buf') < Want[pc']
      BY <1>1, <1>2, Sizes
    <3> QED
      BY <3>5, <3>6 DEF Quiet
  <2>2. CASE object # MONITOR
    <3>1. object' = NOP /\ object' # MONITOR
      BY <1>1, <1>2, <2>2 DEF Plain
    <3>2. todo' = <<>> /\ pc' = "main" /\ buf' = <<>> /\ call'.name # "Write"
      BY <1>1, <1>2, <1>4, <2>2
    <3> QED
      BY <3>1, <3>2 DEF Quiet, ModePc
  <2> QED
    BY <2>1, <2>2
<1>7. Talking'
  <2>1. PICK t \in Seq(Op) : t = todo'
    BY <1>5
  <2>2. Quiet(t)'
    BY <1>6, <2>1
  <2>3. <<>> \in Seq(Byte) /\ Len(<<>>) = 0 /\ 0 \in 0..3
    BY EmptySeq
  <2>4. Acks(0) \o <<>> = <<>> /\ taken' \o <<>> = taken'
    BY <1>0, <1>1, <2>3, AcksNone, ConcatEmptySeq
  <2>5. todo' = Reads(0, Len(<<>>)) \o t
    BY <2>1, <2>3, ReadNone
  <2> QED
    BY <1>1, <1>2, <2>2, <2>3, <2>4, <2>5, HearsNext
<1>8. hostPins' \in {0, BoardPins} \union PinCounts
  BY <1>3 DEF Types
<1> QED
  BY <1>1, <1>5, <1>7, <1>8 DEF Types

\* A line of one letter, and what follows it.
LEMMA LineOf ==
  ASSUME NEW b \in Byte \ {Newline}, NEW u \in Seq(Byte), toHost = <<b, Newline>> \o u
  PROVE  /\ Newline \in ToSet(toHost) /\ LineEnd(toHost) = 2
         /\ SubSeq(toHost, 1, 2) = <<b, Newline>> /\ SubSeq(toHost, 3, Len(toHost)) = u
<1>0. Newline \in Byte
  BY Bytewise
<1> HIDE DEF Byte
<1>1. <<b, Newline>> \in Seq(Byte) /\ Len(<<b, Newline>>) = 2 /\ <<b, Newline>>[1] = b /\ <<b, Newline>>[2] = Newline
  BY <1>0
<1>2. /\ toHost \in Seq(Byte) /\ Len(toHost) = 2 + Len(u) /\ Len(u) \in Nat
      /\ \A x \in 1..2 + Len(u) : toHost[x] = IF x <= 2 THEN <<b, Newline>>[x] ELSE u[x - 2]
  BY <1>1, ConcatProperties, LenProperties
<1>3. toHost[1] = b /\ toHost[2] = Newline /\ 2 \in 1..Len(toHost)
  BY <1>1, <1>2
<1>4. Newline \in ToSet(toHost) /\ LineEnd(toHost) = 2
  <2>1. \A x \in 1..2 - 1 : toHost[x] # Newline
    BY <1>3
  <2> QED
    BY <1>2, <1>3, <2>1, FirstNewline
<1>5. SubSeq(toHost, 1, 2) = <<b, Newline>>
  <2>1. /\ SubSeq(toHost, 1, 2) \in Seq(Byte) /\ Len(SubSeq(toHost, 1, 2)) = 2
        /\ SubSeq(toHost, 1, 2)[1] = b /\ SubSeq(toHost, 1, 2)[2] = Newline
    BY <1>2, <1>3
  <2>2. \A x \in 1..2 : SubSeq(toHost, 1, 2)[x] = <<b, Newline>>[x]
    BY <1>1, <2>1
  <2> QED
    BY <1>1, <2>1, <2>2, SeqEqual
<1>6. SubSeq(toHost, 3, Len(toHost)) = u
  <2>1. /\ SubSeq(toHost, 3, Len(toHost)) \in Seq(Byte) /\ Len(SubSeq(toHost, 3, Len(toHost))) = Len(u)
        /\ \A x \in 1..Len(u) : SubSeq(toHost, 3, Len(toHost))[x] = toHost[x + 2]
    BY <1>2, <1>3
  <2>2. \A x \in 1..Len(u) : SubSeq(toHost, 3, Len(toHost))[x] = u[x]
    BY <1>2, <2>1
  <2> QED
    BY <2>1, <2>2, SeqEqual
<1> QED
  BY <1>4, <1>5, <1>6

\* What readline leaves, and what ReadAck makes of the line.
LEMMA LineRead ==
  ASSUME HostLine, NEW b \in Byte \ {Newline}, NEW u \in Seq(Byte), toHost = <<b, Newline>> \o u
  PROVE  /\ toHost' = u
         /\ b = 65 => failed' = FALSE /\ todo' = Tail(todo)
         /\ b # 65 /\ Head(todo).op = "ack" => failed' = TRUE /\ todo' = <<>>
         /\ b # 65 /\ Head(todo).op = "text" => failed' = FALSE /\ todo' = Tail(todo)
         /\ b # 65 /\ Head(todo).op = "info" => failed' = FALSE /\ todo' = todo
<1> DEFINE isAck == SubSeq(toHost, 1, LineEnd(toHost)) = Ack
<1>1. /\ LineEnd(toHost) = 2 /\ SubSeq(toHost, 1, 2) = <<b, Newline>>
      /\ SubSeq(toHost, 3, Len(toHost)) = u
  BY LineOf
<1>2. isAck <=> b = 65
  <2>1. SubSeq(toHost, 1, LineEnd(toHost)) = <<b, Newline>>
    BY <1>1
  <2>2. <<b, Newline>> = <<65, Newline>> <=> b = 65
    OBVIOUS
  <2> QED
    BY <2>1, <2>2 DEF Ack
<1>3. /\ toHost' = SubSeq(toHost, LineEnd(toHost) + 1, Len(toHost))
      /\ failed' = (Doing("ack") /\ ~isAck)
      /\ todo' = IF failed' THEN <<>> ELSE IF Doing("info") /\ ~isAck THEN todo ELSE Tail(todo)
      /\ todo # <<>>
  BY DEF HostLine, Doing
<1>4. toHost' = u
  BY <1>1, <1>3
<1> HIDE DEF isAck
<1>5. CASE b = 65
  <2>1. ~(Doing("ack") /\ ~isAck) /\ ~(Doing("info") /\ ~isAck)
    BY <1>2, <1>5
  <2> QED
    BY <1>3, <1>4, <1>5, <2>1
<1>6. CASE b # 65 /\ Head(todo).op = "ack"
  <2>1. Doing("ack") /\ ~isAck
    BY <1>2, <1>3, <1>6 DEF Doing
  <2> QED
    BY <1>3, <1>4, <1>6, <2>1
<1>7. CASE b # 65 /\ Head(todo).op = "text"
  <2>1. ~(Doing("ack") /\ ~isAck) /\ ~(Doing("info") /\ ~isAck)
    BY <1>7 DEF Doing
  <2> QED
    BY <1>3, <1>4, <1>7, <2>1
<1>8. CASE b # 65 /\ Head(todo).op = "info"
  <2>1. ~(Doing("ack") /\ ~isAck) /\ Doing("info") /\ ~isAck
    BY <1>2, <1>3, <1>8 DEF Doing
  <2> QED
    BY <1>3, <1>4, <1>8, <2>1
<1> QED
  BY <1>4, <1>5, <1>6, <1>7, <1>8

\* readline takes an acknowledgement.
LEMMA AckRead ==
  ASSUME HostLine, NEW k \in Nat \ {0}, NEW d \in Seq(Byte), toHost = Acks(k) \o d
  PROVE  toHost' = Acks(k - 1) \o d /\ failed' = FALSE /\ todo' = Tail(todo)
<1> HIDE DEF Byte
<1>1. LineEnd(toHost) = 2 /\ SubSeq(toHost, 1, 2) = Ack /\ SubSeq(toHost, 3, Len(toHost)) = Acks(k - 1) \o d
  BY AckFirst
<1>2. /\ toHost' = SubSeq(toHost, LineEnd(toHost) + 1, Len(toHost))
      /\ failed' = (Doing("ack") /\ SubSeq(toHost, 1, LineEnd(toHost)) # Ack)
      /\ todo' = IF failed' THEN <<>>
                 ELSE IF Doing("info") /\ SubSeq(toHost, 1, LineEnd(toHost)) # Ack THEN todo ELSE Tail(todo)
  BY DEF HostLine
<1>3. SubSeq(toHost, 1, LineEnd(toHost)) = Ack
  BY <1>1
<1>4. failed' = FALSE /\ todo' = Tail(todo)
  BY <1>2, <1>3
<1>5. LineEnd(toHost) + 1 = 3
  BY <1>1
<1>6. toHost' = SubSeq(toHost, 3, Len(toHost))
  BY <1>2, <1>5, Zenon
<1> QED
  BY <1>1, <1>4, <1>6, Zenon

\* The texts of Info and ID, a line before the others.
LEMMA Texts ==
  /\ Ack = <<65, Newline>> \o <<>> /\ TextLine = <<63, Newline>> \o <<>>
  /\ Ack \o TextLine \o TextLine \o Ack = <<65, Newline>> \o (TextLine \o TextLine \o Ack)
  /\ TextLine \o TextLine \o Ack = <<63, Newline>> \o (TextLine \o Ack)
  /\ TextLine \o Ack = <<63, Newline>> \o Ack
  /\ Ack \o TextLine = <<65, Newline>> \o TextLine
  /\ Nack \o Text = <<78, Newline>> \o Text
  /\ <<>> \in Seq(Byte) /\ Ack \in Seq(Byte) /\ TextLine \in Seq(Byte) /\ Text \in Seq(Byte)
  /\ TextLine \o Ack \in Seq(Byte) /\ TextLine \o TextLine \o Ack \in Seq(Byte)
<1>0. Ack \in Seq(Byte) /\ TextLine \in Seq(Byte) /\ Text \in Seq(Byte) /\ <<>> \in Seq(Byte)
  BY EmptySeq DEF Byte, Ack, TextLine, Text, Newline
<1>1. Ack = <<65, Newline>> /\ TextLine = <<63, Newline>> /\ Nack = <<78, Newline>>
  BY DEF Ack, TextLine, Nack
<1> HIDE DEF Byte, Text, Newline, Ack, TextLine, Nack
<1>2. Ack \o <<>> = Ack /\ TextLine \o <<>> = TextLine
  BY <1>0, ConcatEmptySeq
<1>3. TextLine \o Ack \in Seq(Byte) /\ TextLine \o TextLine \in Seq(Byte) /\ Ack \o TextLine \in Seq(Byte)
  BY <1>0, ConcatProperties, Zenon
<1>4. TextLine \o TextLine \o Ack \in Seq(Byte)
  BY <1>0, <1>3, ConcatProperties, Zenon
<1>5. TextLine \o (TextLine \o Ack) = TextLine \o TextLine \o Ack
  BY <1>0, ConcatAssociative, SMTT(60)
<1>6. Ack \o (TextLine \o TextLine) = Ack \o TextLine \o TextLine
  BY <1>0, ConcatAssociative, SMTT(60)
<1>7. Ack \o (TextLine \o TextLine \o Ack) = Ack \o (TextLine \o TextLine) \o Ack
  BY <1>0, <1>3, ConcatAssociative, SMTT(60)
<1>8. Ack \o TextLine \o TextLine \o Ack = Ack \o (TextLine \o TextLine \o Ack)
  BY <1>6, <1>7
<1> QED
  BY <1>0, <1>1, <1>2, <1>3, <1>4, <1>5, <1>8

\* The last line of a text has been read.
LEMMA TextEnds ==
  ASSUME port' = "open", failed' = FALSE, toBoard' = <<>>, toHost' = <<>>, taken' \in Seq(Byte),
         taken' = produced', todo' = <<>>, object' = NOP, pc' = "main", buf' = <<>>, call'.name # "Write"
  PROVE  Talking'
<1> HIDE DEF Byte, Op
<1>1. Quiet(<<>>)'
  <2>1. object' # MONITOR
    BY DEF NOP, MONITOR
  <2> QED
    BY <2>1 DEF Quiet, ModePc
<1>2. <<>> \in Seq(Byte) /\ <<>> \in Seq(Op) /\ Len(<<>>) = 0 /\ 0 \in 0..3
  BY EmptySeq
<1>3. Acks(0) \o <<>> = <<>> /\ taken' \o <<>> = taken' /\ Reads(0, 0) \o <<>> = <<>>
  BY <1>2, AcksNone, ReadNone, ConcatEmptySeq
<1> QED
  BY <1>1, <1>2, <1>3, HearsNext

\* The library reads a line.
LEMMA HostLineStep == ASSUME Types, Talking, HostLine PROVE Types' /\ Talking'
<1>0. toHost \in Seq(Byte) /\ taken \in Seq(Byte) /\ todo \in Seq(Op)
  BY Sequenced
<1>1. /\ \E o \in {"ack", "text", "info"} : Doing(o)
      /\ todo # <<>> /\ Newline \in ToSet(toHost)
      /\ UNCHANGED <<port, object, config, hostPins, call, taken, toBoard, pc, buf, numPins, hconfig, i,
                     produced, written>>
  BY DEF HostLine, boardVars, Doing
<1> HIDE DEF Op, Byte, Types
<1>2. toHost # <<>>
  BY <1>1 DEF ToSet
<1>3. PICK o \in {"byte", "ack", "text", "info"} : Doing(o) /\ o # "byte"
  BY <1>1
<1>4. /\ port = "open"
      /\ \/ failed = FALSE /\ Hearing
         \/ failed = FALSE /\ HearingText
         \/ Rejected /\ failed = FALSE /\ toHost = Nack \o Text /\ o = "ack"
  BY <1>2, <1>3, NowReading
<1>5. Tail(todo) \in Seq(Op) /\ <<>> \in Seq(Op) /\ <<>> \in Seq(Byte)
  BY <1>0, <1>1, HeadTailProperties, EmptySeq
<1>6. CASE Hearing
  <2>1. PICK k \in 0..3, d \in Seq(Byte), t \in Seq(Op) :
          toHost = Acks(k) \o d /\ produced = taken \o d /\ todo = Reads(k, Len(d)) \o t /\ Quiet(t)
    BY <1>6 DEF Hearing
  <2>2. k > 0
    <3>1. k = 0 /\ d # <<>> => Head(todo).op = "byte"
      BY <2>1, HearingIs, Zenon
    <3>2. k = 0 /\ d = <<>> => toHost = <<>>
      BY <2>1, HeardAll, Zenon
    <3>3. Head(todo).op # "byte"
      BY <1>3 DEF Doing
    <3> QED
      BY <1>2, <3>1, <3>2, <3>3
  <2>3. Tail(todo) = Reads(k - 1, Len(d)) \o t
    BY <2>1, <2>2, HearingIs, ZenonT(60)
  <2>4. toHost' = Acks(k - 1) \o d /\ failed' = FALSE /\ todo' = Tail(todo)
    <3>1. k \in Nat \ {0}
      BY <2>2
    <3> QED
      BY <2>1, <3>1, AckRead, Zenon
  <2>5. Quiet(t)'
    BY <1>1, <2>1, QuietSame DEF topic
  <2>6. k - 1 \in 0..3 /\ port' = "open" /\ toBoard' = <<>>
    BY <1>1, <1>4, <1>6, <2>2 DEF Hearing
  <2>7. Talking'
    <3>1. produced' = taken' \o d /\ todo' = Reads(k - 1, Len(d)) \o t
      BY <1>1, <2>1, <2>3, <2>4
    <3> QED
      BY <2>4, <2>5, <2>6, <3>1, HearsNext
  <2>8. toHost' \in Seq(Byte) /\ todo' \in Seq(Op) /\ failed' \in BOOLEAN
    <3>1. k - 1 \in Nat
      BY <2>2
    <3>2. Acks(k - 1) \o d \in Seq(Byte)
      BY <3>1, AcksAre, ConcatProperties, Zenon
    <3> QED
      BY <1>5, <2>4, <3>2
  <2> QED
    BY <1>1, <2>7, <2>8 DEF Types
<1>7. CASE failed = FALSE /\ HearingText
  <2>0. /\ object = NOP /\ pc = "main" /\ buf = <<>> /\ toBoard = <<>> /\ taken = produced /\ call.name # "Write"
    BY <1>7 DEF HearingText, Listens
  <2>1. /\ 65 \in Byte \ {Newline} /\ 63 \in Byte \ {Newline}
        /\ Do("info") \in Seq(Op) /\ Do("text") \in Seq(Op)
        /\ Head(Do("info")).op = "info" /\ Tail(Do("info")) = <<>>
        /\ Head(Do("text")).op = "text" /\ Tail(Do("text")) = <<>>
        /\ Tail(ReadAck \o Do("info")) = Do("info") /\ Tail(ReadAck \o Do("text")) = Do("text")
    <3>1. 65 \in Byte \ {Newline} /\ 63 \in Byte \ {Newline}
      BY Bytewise DEF Newline
    <3>2. /\ Do("info") \in Seq(Op) /\ Do("text") \in Seq(Op)
          /\ Head(Do("info")).op = "info" /\ Tail(Do("info")) = <<>>
          /\ Head(Do("text")).op = "text" /\ Tail(Do("text")) = <<>>
      BY DoIs
    <3>3. Tail(ReadAck \o Do("info")) = Do("info") /\ Tail(ReadAck \o Do("text")) = Do("text")
      BY <3>2, DoIs, ZenonT(60) DEF ReadAck
    <3> QED
      BY <3>1, <3>2, <3>3
  <2>2. \A u \in Seq(Byte) : toHost = <<65, Newline>> \o u => toHost' = u /\ failed' = FALSE /\ todo' = Tail(todo)
    BY <2>1, LineRead
  <2>3. \A u \in Seq(Byte) : toHost = <<63, Newline>> \o u /\ todo = Do("info") => toHost' = u /\ failed' = FALSE /\ todo' = todo
    <3> SUFFICES ASSUME NEW u \in Seq(Byte), toHost = <<63, Newline>> \o u, todo = Do("info")
                 PROVE  toHost' = u /\ failed' = FALSE /\ todo' = todo
      OBVIOUS
    <3>1. Head(todo).op = "info" /\ 63 # 65 /\ 63 \in Byte \ {Newline}
      BY <2>1
    <3> QED
      BY <3>1, LineRead, ZenonT(60)
  <2>4. \A u \in Seq(Byte) : toHost = <<63, Newline>> \o u /\ todo = Do("text") => toHost' = u /\ failed' = FALSE /\ todo' = Tail(todo)
    <3> SUFFICES ASSUME NEW u \in Seq(Byte), toHost = <<63, Newline>> \o u, todo = Do("text")
                 PROVE  toHost' = u /\ failed' = FALSE /\ todo' = Tail(todo)
      OBVIOUS
    <3>1. Head(todo).op = "text" /\ 63 # 65 /\ 63 \in Byte \ {Newline}
      BY <2>1
    <3> QED
      BY <3>1, LineRead, ZenonT(60)
  <2>5. /\ failed' = FALSE
        /\ \/ toHost' = TextLine \o TextLine \o Ack /\ todo' = Do("info")
           \/ toHost' = TextLine \o Ack /\ todo' = Do("info")
           \/ toHost' = Ack /\ todo' = Do("info")
           \/ toHost' = TextLine /\ todo' = Do("text")
           \/ toHost' = <<>> /\ todo' = <<>>
    <3>1. CASE toHost = Ack \o TextLine \o TextLine \o Ack /\ todo = ReadAck \o Do("info")
      BY <2>1, <2>2, <3>1, Texts, ZenonT(60)
    <3>2. CASE toHost = TextLine \o TextLine \o Ack /\ todo = Do("info")
      BY <2>1, <2>3, <3>2, Texts, ZenonT(60)
    <3>3. CASE toHost = TextLine \o Ack /\ todo = Do("info")
      <4>1. TextLine \o Ack = <<63, Newline>> \o Ack /\ Ack \in Seq(Byte)
        BY Texts
      <4>2. toHost = <<63, Newline>> \o Ack /\ todo = Do("info")
        BY <3>3, <4>1
      <4>3. toHost' = Ack /\ failed' = FALSE /\ todo' = todo
        BY <2>3, <4>1, <4>2, Zenon
      <4> QED
        BY <3>3, <4>3
    <3>4. CASE toHost = Ack /\ todo = Do("info")
      BY <2>1, <2>2, <3>4, Texts, ZenonT(60)
    <3>5. CASE toHost = Ack \o TextLine /\ todo = ReadAck \o Do("text")
      BY <2>1, <2>2, <3>5, Texts, ZenonT(60)
    <3>6. CASE toHost = TextLine /\ todo = Do("text")
      BY <2>1, <2>4, <3>6, Texts, ZenonT(60)
    <3> QED
      BY <1>7, <3>1, <3>2, <3>3, <3>4, <3>5, <3>6 DEF HearingText
  <2>6. Talking'
    <3>1. CASE toHost' = <<>> /\ todo' = <<>>
      BY <1>0, <1>1, <1>4, <2>0, <2>5, <3>1, TextEnds
    <3>2. CASE ~(toHost' = <<>> /\ todo' = <<>>)
      <4>1. /\ port' = "open" /\ object' = NOP /\ Listens("main")' /\ taken' = produced' /\ call'.name # "Write"
        BY <1>1, <1>4, <2>0 DEF Listens
      <4> QED
        BY <2>5, <3>2, <4>1 DEF Talking, HearingText
    <3> QED
      BY <3>1, <3>2
  <2>7. toHost' \in Seq(Byte) /\ todo' \in Seq(Op)
    <3>1. todo' \in Seq(Op)
      BY <1>5, <2>1, <2>5
    <3>2. toHost' \in {<<>>, Ack, TextLine, TextLine \o Ack, TextLine \o TextLine \o Ack}
      BY <2>5
    <3> QED
      BY <3>1, <3>2, Texts, ZenonT(60)
  <2> QED
    BY <1>1, <2>6, <2>7 DEF Types
<1>8. CASE Rejected /\ failed = FALSE /\ toHost = Nack \o Text /\ o = "ack"
  <2>1. toHost = <<78, Newline>> \o Text /\ Text \in Seq(Byte) /\ 78 \in Byte \ {Newline}
    <3>1. 78 \in Byte \ {Newline}
      BY Bytewise DEF Newline
    <3> QED
      BY <1>8, <3>1, Texts
  <2>2. Head(todo).op = "ack"
    BY <1>3, <1>8 DEF Doing
  <2>3. toHost' = Text /\ failed' = TRUE /\ todo' = <<>>
    <3>1. 78 # 65
      OBVIOUS
    <3> QED
      BY <2>1, <2>2, <3>1, LineRead, ZenonT(60)
  <2>4. object' = PARALLEL /\ config'.pins > numPins' /\ Listens("main")' /\ port' = "open"
    BY <1>1, <1>4, <1>8 DEF Rejected, Listens
  <2>5. Talking'
    BY <2>3, <2>4 DEF Talking, Rejected
  <2> QED
    BY <1>1, <1>5, <2>1, <2>3, <2>5 DEF Types
<1> QED
  BY <1>4, <1>6, <1>7, <1>8

-----------------------------------------------------------------------------
(* The firmware's answers keep the conversation.                           *)

\* Ack once, twice and three times.
LEMMA Acknowledgements ==
  /\ Acks(0) = <<>> /\ Acks(1) = Ack /\ Acks(2) = Ack \o Ack /\ Acks(3) = Ack \o Ack \o Ack
  /\ \A k \in Nat : Acks(k) \in Seq(Byte)
<1>1. \A k \in Nat : Acks(k) \in Seq(Byte)
  BY AcksAre, Zenon
<1>2. Acks(0) = <<>>
  <2>1. 0 \in Nat
    OBVIOUS
  <2>2. Acks(0) \in Seq(Byte) /\ Len(Acks(0)) = 2 * 0
    BY <2>1, AcksAre, Zenon
  <2> QED
    BY <2>2, EmptySeq
<1>3. Acks(1) = Ack
  BY DEF Acks, Ack
<1>4. Acks(2) = Ack \o Ack
  BY DEF Acks, Ack
<1>5. Acks(3) = Ack \o Ack \o Ack
  BY DEF Acks, Ack
<1> QED
  BY <1>1, <1>2, <1>3, <1>4, <1>5

\* The modes that read more than their byte, and where they read it.
LEMMA Modes ==
  /\ DOMAIN ModeOf = {PARALLEL, GPIO, MONITOR, SPEEDTEST, XFER, SETPINCOUNT, VOLTAGE}
  /\ ModeOf[PARALLEL] = "conf" /\ ModeOf[GPIO] = "gpio" /\ ModeOf[MONITOR] = "monitor"
  /\ ModeOf[SPEEDTEST] = "speed" /\ ModeOf[XFER] = "xfer"
  /\ ModeOf[SETPINCOUNT] = "pins" /\ ModeOf[VOLTAGE] = "volt"
BY DEF ModeOf, PARALLEL, GPIO, MONITOR, SPEEDTEST, XFER, SETPINCOUNT, VOLTAGE

\* A reply leaves the types.
LEMMA ReplyTypes ==
  ASSUME Types, NEW text \in Seq(Byte), NEW d \in Seq(Byte), NEW next \in DOMAIN Want, Reply(text, d, next),
         numPins' \in PinCounts \union {BoardPins}, written' \in Seq(Byte),
         hconfig' \in [count : 0..255, size : {1, 2}], i' \in 0..WholeWords(hconfig'.count, hconfig'.size)
  PROVE  Types'
<1>0. toHost \in Seq(Byte) /\ produced \in Seq(Byte)
  BY Sequenced
<1>1. Want[next] \in Nat
  BY Sizes
<1> HIDE DEF Op, Byte
<1>2. toHost \o text \o d \in Seq(Byte) /\ produced \o d \in Seq(Byte)
  BY <1>0, ConcatProperties
<1>3. /\ toHost' \in Seq(Byte) /\ produced' \in Seq(Byte) /\ pc' = next /\ buf' = <<>>
      /\ UNCHANGED <<port, object, config, hostPins, call, todo, taken, failed, toBoard>>
  BY <1>0, <1>2 DEF Reply, hostVars
<1>4. buf' \in Seq(Byte) /\ Len(buf') <= Want[pc']
  BY <1>1, <1>3, EmptySeq
<1> QED
  BY <1>3, <1>4 DEF Types

\* The firmware answers what the library reads, and goes on as it expects.
LEMMA Answered ==
  ASSUME port = "open", failed = FALSE, toBoard = <<>>, toHost = <<>>, taken = produced,
         NEW k \in 0..3, NEW d \in Seq(Byte), NEW t \in Seq(Op), todo = Reads(k, Len(d)) \o t,
         NEW text, text = Acks(k), NEW next, Reply(text, d, next), Quiet(t)'
  PROVE  Talking'
<1> HIDE DEF Op, Byte
<1>1. /\ toHost' = toHost \o text \o d /\ produced' = produced \o d
      /\ UNCHANGED <<port, todo, taken, failed, toBoard>>
  BY DEF Reply, hostVars
<1>2. Acks(k) \in Seq(Byte)
  <2>1. k \in Nat
    OBVIOUS
  <2> QED
    BY <2>1, Acknowledgements
<1>3. toHost' = Acks(k) \o d
  <2>1. <<>> \o Acks(k) = Acks(k)
    BY <1>2, ConcatEmptySeq
  <2> QED
    BY <1>1, <2>1
<1>4. produced' = taken' \o d /\ todo' = Reads(k, Len(d)) \o t
  BY <1>1
<1> QED
  BY <1>1, <1>3, <1>4, HearsNext

\* The next thing the library does is a call.
LEMMA QuietIdle ==
  ASSUME pc' = ModePc', buf' = <<>>, (object = MONITOR)' => hostPins' = numPins', call'.name # "Write"
  PROVE  Quiet(<<>>)'
BY DEF Quiet

\* The next thing is a record of the handler.
LEMMA QuietRecord ==
  ASSUME NEW c \in Seq(Byte), NEW k \in 0..3, NEW n \in Nat, NEW u \in Seq(Op),
         buf' = <<>>, Want[pc'] > 0, Expects(c, k, n, u)'
  PROVE  Quiet(WriteBytes(c) \o (Reads(k, n) \o u))'
<1> HIDE DEF Op, Byte
<1>1. <<>> \o c = c
  BY ConcatEmptySeq
<1>2. Asks(<<>>, WriteBytes(c) \o (Reads(k, n) \o u))'
  BY <1>1, AsksNow
<1>3. Len(buf') < Want[pc'] /\ Asks(buf, WriteBytes(c) \o (Reads(k, n) \o u))'
  <2>1. Len(<<>>) = 0
    OBVIOUS
  <2>2. Len(buf') < Want[pc']
    BY <2>1
  <2>3. PICK q : q = <<>>
    OBVIOUS
  <2>4. Asks(q, WriteBytes(c) \o (Reads(k, n) \o u))'
    BY <1>2, <2>3
  <2> QED
    BY <2>2, <2>3, <2>4 DEF Asks
<1> QED
  BY <1>3, QuietAsks

\* The library has asked the main loop for a mode.
LEMMA NowCommanded ==
  ASSUME Types, Talking, Has("main")
  PROVE  /\ port = "open" /\ failed = FALSE /\ toBoard = <<>> /\ toHost = <<>> /\ taken = produced
         /\ call.name # "Write" /\ buf[1] \in Byte
         /\ \E k \in 0..3, n \in Nat, t \in Seq(Op) : todo = Reads(k, n) \o t /\ ModeAsked(buf[1], k, n, t)
<1>1. pc = "main" /\ Len(buf) = Want[pc]
  BY DEF Has
<1>2. buf[1] \in Byte
  <2>1. buf \in Seq(Byte) /\ Len(buf) = 1
    BY <1>1, Sequenced, Sizes
  <2> QED
    BY <2>1
<1> HIDE DEF Op, Byte, Types
<1>3. /\ port = "open" /\ failed = FALSE /\ toBoard = <<>> /\ toHost = <<>> /\ taken = produced
      /\ \E k \in 0..3, n \in Nat, t \in Seq(Op) : todo = Reads(k, n) \o t /\ Expects(buf, k, n, t)
  BY <1>1, NowServing
<1>4. PICK k \in 0..3, n \in Nat, t \in Seq(Op) : todo = Reads(k, n) \o t /\ Expects(buf, k, n, t)
  BY <1>3
<1>5. call.name # "Write" /\ ModeAsked(buf[1], k, n, t)
  BY <1>1, <1>4 DEF Expects, RecordAsked, WriteAsked
<1> QED
  BY <1>2, <1>3, <1>4, <1>5

\* What the main loop answers.
LEMMA CommandReply ==
  ASSUME FwCommand, NEW m \in Byte, m = buf[1]
  PROVE  /\ m = PING => Reply(Ack \o Ack, <<>>, "main") /\ UNCHANGED numPins
         /\ m = INFO => Reply(Ack \o TextLine \o TextLine \o Ack, <<>>, "main") /\ UNCHANGED numPins
         /\ m = GID => Reply(Ack \o TextLine, <<>>, "main") /\ UNCHANGED numPins
         /\ m = GETPINCOUNT => Reply(Ack, <<numPins>>, "main") /\ UNCHANGED numPins
         /\ m = SCANBUS => numPins' = BoardPins /\ Reply(Ack, <<BoardPins>>, "main")
         /\ m \in DOMAIN ModeOf => Reply(Ack, <<>>, ModeOf[m]) /\ UNCHANGED numPins
         /\ UNCHANGED <<hconfig, i, written>>
<1> USE DEF NOP, PING, INFO, GID, GETPINCOUNT, SCANBUS, PARALLEL, GPIO, MONITOR, SPEEDTEST, XFER, SETPINCOUNT, VOLTAGE
<1>1. DOMAIN ModeOf = {1, 5, 11, 4, 7, 9, 12}
  BY Modes
<1>2. /\ \/ m = 0
         \/ m = 2 /\ Reply(Ack \o Ack, <<>>, "main") /\ UNCHANGED numPins
         \/ m = 3 /\ Reply(Ack \o TextLine \o TextLine \o Ack, <<>>, "main") /\ UNCHANGED numPins
         \/ m = 6 /\ Reply(Ack \o TextLine, <<>>, "main") /\ UNCHANGED numPins
         \/ m = 8 /\ Reply(Ack, <<numPins>>, "main") /\ UNCHANGED numPins
         \/ m = 10 /\ numPins' = BoardPins /\ Reply(Ack, <<BoardPins>>, "main")
         \/ m \in DOMAIN ModeOf /\ Reply(Ack, <<>>, ModeOf[m]) /\ UNCHANGED numPins
         \/ m > 12
      /\ UNCHANGED <<hconfig, i, written>>
  BY DEF FwCommand
<1> QED
  BY <1>1, <1>2, SMTT(60) DEF Byte

\* What a reply leaves.
LEMMA ReplyKeeps ==
  ASSUME NEW text, NEW d, NEW next, Reply(text, d, next)
  PROVE  /\ UNCHANGED <<port, object, config, hostPins, call, todo, taken, failed, toBoard>>
         /\ pc' = next /\ buf' = <<>> /\ produced' = produced \o d
BY DEF Reply, hostVars

\* The main loop answers a mode.
LEMMA FwCommandStep == ASSUME Types, Talking, FwCommand PROVE Types' /\ Talking'
<1>0. /\ toHost \in Seq(Byte) /\ produced \in Seq(Byte) /\ written \in Seq(Byte) /\ <<>> \in Seq(Byte) /\ Len(<<>>) = 0
      /\ <<>> \in Seq(Op) /\ Ack \in Seq(Byte) /\ Ack \o Ack \in Seq(Byte) /\ Ack \o TextLine \in Seq(Byte)
      /\ Ack \o TextLine \o TextLine \o Ack \in Seq(Byte)
  <2>1. Ack \in Seq(Byte) /\ TextLine \in Seq(Byte)
    BY Texts
  <2>2. Ack \o Ack \in Seq(Byte) /\ Ack \o TextLine \in Seq(Byte)
    BY <2>1, ConcatProperties, Zenon
  <2>3. Ack \o TextLine \o TextLine \in Seq(Byte)
    BY <2>1, <2>2, ConcatProperties, Zenon
  <2>4. Ack \o TextLine \o TextLine \o Ack \in Seq(Byte)
    BY <2>1, <2>3, ConcatProperties, Zenon
  <2> QED
    BY <2>1, <2>2, <2>4, Sequenced, EmptySeq
<1>1. Has("main")
  BY DEF FwCommand
<1>2. /\ hconfig \in [count : 0..255, size : {1, 2}] /\ i \in 0..WholeWords(hconfig.count, hconfig.size)
      /\ numPins \in PinCounts \union {BoardPins} /\ \A p \in PinCounts \union {BoardPins} : p \in Byte /\ <<p>> \in Seq(Byte)
  <2>1. \A p \in PinCounts \union {BoardPins} : p \in Byte
    BY PinsOfChips DEF Byte
  <2> QED
    BY <2>1 DEF Types
<1>m. PICK m : m = buf[1]
  OBVIOUS
<1> HIDE DEF Op, Byte, Types
<1>3. /\ port = "open" /\ failed = FALSE /\ toBoard = <<>> /\ toHost = <<>> /\ taken = produced
      /\ call.name # "Write" /\ m \in Byte
      /\ \E k \in 0..3, n \in Nat, t \in Seq(Op) : todo = Reads(k, n) \o t /\ ModeAsked(m, k, n, t)
  BY <1>1, <1>m, NowCommanded
<1>4. PICK k \in 0..3, n \in Nat, t \in Seq(Op) : todo = Reads(k, n) \o t /\ ModeAsked(m, k, n, t)
  BY <1>3
<1>5. /\ m = PING => Reply(Ack \o Ack, <<>>, "main") /\ UNCHANGED numPins
      /\ m = INFO => Reply(Ack \o TextLine \o TextLine \o Ack, <<>>, "main") /\ UNCHANGED numPins
      /\ m = GID => Reply(Ack \o TextLine, <<>>, "main") /\ UNCHANGED numPins
      /\ m = GETPINCOUNT => Reply(Ack, <<numPins>>, "main") /\ UNCHANGED numPins
      /\ m = SCANBUS => numPins' = BoardPins /\ Reply(Ack, <<BoardPins>>, "main")
      /\ m \in DOMAIN ModeOf => Reply(Ack, <<>>, ModeOf[m]) /\ UNCHANGED numPins
      /\ UNCHANGED <<hconfig, i, written>>
  BY <1>3, <1>m, CommandReply
<1>6. "main" \in DOMAIN Want /\ \A p \in DOMAIN ModeOf : ModeOf[p] \in DOMAIN Want /\ Want[ModeOf[p]] > 0
  BY Sizes, Modes
<1>7. Acks(1) = Ack /\ Acks(2) = Ack \o Ack
  BY Acknowledgements
<1>8. CASE /\ m = object /\ m \in {GPIO, SPEEDTEST, XFER, PARALLEL, MONITOR}
           /\ (m = MONITOR => hostPins = numPins)
           /\ k = 1 /\ n = 0 /\ t = <<>>
  <2>1. m \in DOMAIN ModeOf /\ m # NOP
    <3>1. DOMAIN ModeOf = {PARALLEL, GPIO, MONITOR, SPEEDTEST, XFER, SETPINCOUNT, VOLTAGE}
      BY Modes
    <3>2. m # NOP
      BY <1>8 DEF NOP, GPIO, SPEEDTEST, XFER, PARALLEL, MONITOR
    <3> QED
      BY <1>8, <3>1, <3>2
  <2>2. Reply(Ack, <<>>, ModeOf[m]) /\ UNCHANGED numPins
    BY <1>5, <2>1
  <2>3. Types'
    BY <1>0, <1>2, <1>5, <1>6, <2>1, <2>2, ReplyTypes
  <2>4. Quiet(<<>>)'
    <3>1. pc' = ModeOf[m] /\ buf' = <<>> /\ UNCHANGED <<object, hostPins, call, numPins>>
      BY <2>2, ReplyKeeps
    <3>2. pc' = ModePc'
      BY <1>8, <2>1, <3>1 DEF ModePc
    <3>3. (object = MONITOR)' => hostPins' = numPins'
      BY <1>8, <3>1
    <3> QED
      BY <1>3, <3>1, <3>2, <3>3, QuietIdle
  <2>5. Talking'
    BY <1>0, <1>3, <1>4, <1>7, <1>8, <2>2, <2>4, Answered
  <2> QED
    BY <2>3, <2>5
<1>9. CASE m = GETPINCOUNT /\ Plain /\ k = 1 /\ n = 1 /\ t = PinsRead
  <2>1. Reply(Ack, <<numPins>>, "main") /\ UNCHANGED numPins
    BY <1>5, <1>9
  <2>2. PICK p \in Byte : p = numPins
    BY <1>2
  <2>3. Reply(Ack, <<p>>, "main") /\ <<p>> \in Seq(Byte) /\ Len(<<p>>) = 1
    BY <2>1, <2>2
  <2>4. Types'
    BY <1>0, <1>2, <1>5, <1>6, <2>1, <2>3, ReplyTypes
  <2>5. Quiet(t)'
    <3>1. /\ pc' = "main" /\ buf' = <<>> /\ produced' = produced \o <<p>> /\ UNCHANGED <<object, call>>
      BY <2>3, ReplyKeeps
    <3>2. produced' # <<>> /\ Last(produced') = p
      BY <1>0, <2>3, <3>1 DEF Last
    <3> QED
      BY <1>3, <1>9, <2>1, <2>2, <3>1, <3>2 DEF Quiet, Plain, PinsRead
  <2>6. Talking'
    BY <1>3, <1>4, <1>7, <1>9, <2>3, <2>5, Answered
  <2> QED
    BY <2>4, <2>6
<1>10. CASE /\ m = SETPINCOUNT /\ Plain /\ k = 1 /\ n = 0
            /\ \E c \in PinCounts : t = WriteBytes(<<c>>) \o (Reads(0, 1) \o PinsRead)
  <2>1. m \in DOMAIN ModeOf /\ ModeOf[m] = "pins"
    BY <1>10, Modes
  <2>2. Reply(Ack, <<>>, "pins") /\ UNCHANGED numPins
    BY <1>5, <2>1
  <2>3. Types'
    BY <1>0, <1>2, <1>5, <1>6, <2>1, <2>2, ReplyTypes
  <2>4. PICK c \in PinCounts : t = WriteBytes(<<c>>) \o (Reads(0, 1) \o PinsRead)
    BY <1>10
  <2>5. Quiet(t)'
    <3>1. pc' = "pins" /\ buf' = <<>> /\ UNCHANGED <<object, call>>
      BY <2>2, ReplyKeeps
    <3>2. PICK u : u = PinsRead
      OBVIOUS
    <3>3. u \in Seq(Op) /\ <<c>> \in Seq(Byte) /\ 0 \in 0..3 /\ 1 \in Nat /\ Want[pc'] > 0
      BY <1>2, <3>1, <3>2, PinsReadIs, Sizes
    <3>4. u = PinsRead'
      BY <3>1, <3>2 DEF PinsRead
    <3>5. Expects(<<c>>, 0, 1, u)'
      BY <1>3, <1>10, <3>1, <3>4 DEF Expects, RecordAsked, Plain
    <3>6. Quiet(WriteBytes(<<c>>) \o (Reads(0, 1) \o u))'
      BY <3>1, <3>3, <3>5, QuietRecord
    <3> QED
      BY <2>4, <3>2, <3>6
  <2>6. Talking'
    BY <1>0, <1>3, <1>4, <1>7, <1>10, <2>2, <2>5, Answered
  <2> QED
    BY <2>3, <2>6
<1>11. CASE m = VOLTAGE /\ object = NOP /\ k = 1 /\ n = 0 /\ t = WriteBytes(<<0>>) \o (Reads(1, 0) \o <<>>)
  <2>1. m \in DOMAIN ModeOf /\ ModeOf[m] = "volt"
    BY <1>11, Modes
  <2>2. Reply(Ack, <<>>, "volt") /\ UNCHANGED numPins
    BY <1>5, <2>1
  <2>3. Types'
    BY <1>0, <1>2, <1>5, <1>6, <2>1, <2>2, ReplyTypes
  <2>4. Quiet(t)'
    <3>1. pc' = "volt" /\ buf' = <<>> /\ UNCHANGED <<object, call>>
      BY <2>2, ReplyKeeps
    <3>2. <<0>> \in Seq(Byte) /\ 1 \in 0..3 /\ 0 \in Nat /\ Want[pc'] > 0
      <4>1. 0 \in Byte
        BY DEF Byte
      <4> QED
        BY <3>1, <4>1, Sizes
    <3>3. Expects(<<0>>, 1, 0, <<>>)'
      BY <1>3, <1>11, <3>1 DEF Expects, RecordAsked
    <3>4. Quiet(WriteBytes(<<0>>) \o (Reads(1, 0) \o <<>>))'
      BY <1>0, <3>1, <3>2, <3>3, QuietRecord
    <3> QED
      BY <1>11, <3>4
  <2>5. Talking'
    BY <1>0, <1>3, <1>4, <1>7, <1>11, <2>2, <2>4, Answered
  <2> QED
    BY <2>3, <2>5
<1>12. CASE m = PING /\ object = NOP /\ k = 2 /\ n = 0 /\ t = <<>>
  <2>1. Reply(Ack \o Ack, <<>>, "main") /\ UNCHANGED numPins
    BY <1>5, <1>12
  <2>2. Types'
    BY <1>0, <1>2, <1>5, <1>6, <2>1, ReplyTypes
  <2>3. Quiet(<<>>)'
    <3>1. pc' = "main" /\ buf' = <<>> /\ UNCHANGED <<object, call>>
      BY <2>1, ReplyKeeps
    <3>2. pc' = ModePc' /\ object' # MONITOR
      BY <1>12, <3>1 DEF ModePc, NOP, MONITOR
    <3> QED
      BY <1>3, <3>1, <3>2, QuietIdle
  <2>4. Talking'
    BY <1>0, <1>3, <1>4, <1>7, <1>12, <2>1, <2>3, Answered
  <2> QED
    BY <2>2, <2>4
<1>13. CASE m = INFO /\ object = NOP /\ k = 1 /\ n = 0 /\ t = Do("info")
  <2>1. Reply(Ack \o TextLine \o TextLine \o Ack, <<>>, "main") /\ UNCHANGED numPins
    BY <1>5, <1>13
  <2>2. Types'
    BY <1>0, <1>2, <1>5, <1>6, <2>1, ReplyTypes
  <2>3. todo' = ReadAck \o Do("info")
    <3>1. Reads(1, 0) = ReadAck
      BY DEF Reads, ReadAck, Do, AckOp
    <3> QED
      BY <1>4, <1>13, <2>1, <3>1, ReplyKeeps
  <2>4. toHost' = Ack \o TextLine \o TextLine \o Ack /\ taken' = produced'
    <3>1. toHost' = toHost \o (Ack \o TextLine \o TextLine \o Ack) \o <<>> /\ produced' = produced \o <<>>
      BY <1>3, <2>1 DEF Reply
    <3>2. taken' = taken
      BY <2>1, ReplyKeeps
    <3> QED
      BY <1>0, <1>3, <3>1, <3>2, ConcatEmptySeq
  <2>5. Talking'
    <3>1. /\ port' = "open" /\ failed' = FALSE /\ toBoard' = <<>> /\ object' = NOP /\ pc' = "main"
          /\ buf' = <<>> /\ call'.name # "Write"
      BY <1>3, <1>13, <2>1, ReplyKeeps
    <3> QED
      BY <2>3, <2>4, <3>1 DEF Talking, HearingText, Listens
  <2> QED
    BY <2>2, <2>5
<1>14. CASE m = GID /\ object = NOP /\ k = 1 /\ n = 0 /\ t = Do("text")
  <2>1. Reply(Ack \o TextLine, <<>>, "main") /\ UNCHANGED numPins
    BY <1>5, <1>14
  <2>2. Types'
    BY <1>0, <1>2, <1>5, <1>6, <2>1, ReplyTypes
  <2>3. todo' = ReadAck \o Do("text")
    <3>1. Reads(1, 0) = ReadAck
      BY DEF Reads, ReadAck, Do, AckOp
    <3> QED
      BY <1>4, <1>14, <2>1, <3>1, ReplyKeeps
  <2>4. toHost' = Ack \o TextLine /\ taken' = produced'
    <3>1. toHost' = toHost \o (Ack \o TextLine) \o <<>> /\ produced' = produced \o <<>>
      BY <1>3, <2>1 DEF Reply
    <3>2. taken' = taken
      BY <2>1, ReplyKeeps
    <3> QED
      BY <1>0, <1>3, <3>1, <3>2, ConcatEmptySeq
  <2>5. Talking'
    <3>1. /\ port' = "open" /\ failed' = FALSE /\ toBoard' = <<>> /\ object' = NOP /\ pc' = "main"
          /\ buf' = <<>> /\ call'.name # "Write"
      BY <1>3, <1>14, <2>1, ReplyKeeps
    <3> QED
      BY <2>3, <2>4, <3>1 DEF Talking, HearingText, Listens
  <2> QED
    BY <2>2, <2>5
<1>15. CASE m = SCANBUS /\ Plain /\ k = 1 /\ n = 1 /\ t = ScanRead
  <2>1. Reply(Ack, <<BoardPins>>, "main") /\ numPins' = BoardPins
    BY <1>5, <1>15
  <2>2. <<BoardPins>> \in Seq(Byte) /\ Len(<<BoardPins>>) = 1
    BY <1>2
  <2>3. Types'
    BY <1>0, <1>2, <1>5, <1>6, <2>1, <2>2, ReplyTypes
  <2>4. Quiet(t)'
    <3>1. pc' = "main" /\ buf' = <<>> /\ UNCHANGED <<object, call>>
      BY <2>1, ReplyKeeps
    <3>2. CASE object = MONITOR
      BY <1>15, <3>1, <3>2 DEF ScanRead, Quiet
    <3>3. CASE object # MONITOR
      <4>1. pc' = ModePc' /\ object' # MONITOR /\ t = <<>>
        BY <1>15, <3>1, <3>3 DEF ModePc, Plain, ScanRead
      <4>2. Quiet(<<>>)'
        BY <1>3, <3>1, <4>1, QuietIdle
      <4> QED
        BY <4>1, <4>2
    <3> QED
      BY <3>2, <3>3
  <2>5. Talking'
    BY <1>3, <1>4, <1>7, <1>15, <2>1, <2>2, <2>4, Answered
  <2> QED
    BY <2>3, <2>5
<1> QED
  BY <1>4, <1>8, <1>9, <1>10, <1>11, <1>12, <1>13, <1>14, <1>15 DEF ModeAsked

\* The library has sent a record to the handler of a mode.
LEMMA NowAsked ==
  ASSUME Types, Talking, NEW p \in {"pins", "volt", "speed", "xfer", "gpio", "monitor"}, Has(p)
  PROVE  /\ port = "open" /\ failed = FALSE /\ toBoard = <<>> /\ toHost = <<>> /\ taken = produced
         /\ call.name # "Write" /\ buf \in Seq(Byte) /\ Len(buf) = Want[p]
         /\ \E k \in 0..3, n \in Nat, t \in Seq(Op) : todo = Reads(k, n) \o t /\ RecordAsked(buf, k, n, t)
<1>1. pc = p /\ Len(buf) = Want[pc]
  BY DEF Has
<1> HIDE DEF Op, Byte, Types
<1>2. /\ port = "open" /\ failed = FALSE /\ toBoard = <<>> /\ toHost = <<>> /\ taken = produced
      /\ \E k \in 0..3, n \in Nat, t \in Seq(Op) : todo = Reads(k, n) \o t /\ Expects(buf, k, n, t)
  BY <1>1, NowServing
<1>3. PICK k \in 0..3, n \in Nat, t \in Seq(Op) : todo = Reads(k, n) \o t /\ Expects(buf, k, n, t)
  BY <1>2
<1>4. call.name # "Write" /\ RecordAsked(buf, k, n, t)
  BY <1>1, <1>3 DEF Expects, WriteAsked
<1>5. buf \in Seq(Byte)
  BY Sequenced
<1> QED
  BY <1>1, <1>2, <1>3, <1>4, <1>5

\* What the handlers leave as it is.
LEMMA Kept ==
  ASSUME Types
  PROVE  /\ hconfig \in [count : 0..255, size : {1, 2}] /\ i \in 0..WholeWords(hconfig.count, hconfig.size)
         /\ numPins \in PinCounts \union {BoardPins} /\ written \in Seq(Byte)
         /\ toHost \in Seq(Byte) /\ produced \in Seq(Byte)
         /\ <<>> \in Seq(Byte) /\ <<>> \in Seq(Op) /\ Ack \in Seq(Byte) /\ Len(<<>>) = 0
         /\ \A p \in {"main", "pins", "volt", "speed", "xfer", "gpio", "monitor", "conf", "data1", "data2"} : p \in DOMAIN Want
BY Sequenced, EmptySeq, Texts, Sizes DEF Types

\* The firmware takes the pin count.
LEMMA FwSetPinCountStep == ASSUME Types, Talking, FwSetPinCount PROVE Types' /\ Talking'
<1>1. Has("pins") /\ numPins' = buf[1] /\ Reply(<<>>, <<buf[1]>>, "main") /\ UNCHANGED <<hconfig, i, written>>
  BY DEF FwSetPinCount
<1> HIDE DEF Op, Byte, Types
<1>2. /\ port = "open" /\ failed = FALSE /\ toBoard = <<>> /\ toHost = <<>> /\ taken = produced /\ call.name # "Write"
      /\ \E k \in 0..3, n \in Nat, t \in Seq(Op) : todo = Reads(k, n) \o t /\ RecordAsked(buf, k, n, t)
  BY <1>1, NowAsked
<1>3. PICK k \in 0..3, n \in Nat, t \in Seq(Op) : todo = Reads(k, n) \o t /\ RecordAsked(buf, k, n, t)
  BY <1>2
<1>4. Plain /\ (\E c \in PinCounts : buf = <<c>>) /\ k = 0 /\ n = 1 /\ t = PinsRead
  BY <1>1, <1>3 DEF RecordAsked, Has
<1>5. PICK c \in PinCounts : buf = <<c>>
  BY <1>4
<1>6. /\ Reply(<<>>, <<c>>, "main") /\ numPins' = c /\ c \in Byte /\ <<c>> \in Seq(Byte) /\ Len(<<c>>) = 1
      /\ Acks(0) = <<>>
  <2>1. c \in Byte
    <3>1. c \in 1..128
      BY PinsOfChips
    <3> QED
      BY <3>1 DEF Byte
  <2>2. buf[1] = c
    BY <1>5
  <2> QED
    BY <1>1, <2>1, <2>2, Acknowledgements
<1>7. Types'
  <2>1. numPins' \in PinCounts \union {BoardPins}
    BY <1>6
  <2> QED
    BY <1>1, <1>6, <2>1, Kept, ReplyTypes
<1>8. Quiet(t)'
  <2>1. pc' = "main" /\ buf' = <<>> /\ produced' = produced \o <<c>> /\ UNCHANGED <<object, call>>
    BY <1>6, ReplyKeeps
  <2>2. produced' # <<>> /\ Last(produced') = c
    BY <1>6, <2>1, Kept DEF Last
  <2> QED
    BY <1>2, <1>4, <1>6, <2>1, <2>2 DEF Quiet, Plain, PinsRead
<1>9. Talking'
  BY <1>2, <1>3, <1>4, <1>6, <1>8, Answered
<1> QED
  BY <1>7, <1>9

\* The firmware takes the voltage.
LEMMA FwVoltageStep == ASSUME Types, Talking, FwVoltage PROVE Types' /\ Talking'
<1>1. Has("volt") /\ Reply(Ack, <<>>, "main") /\ UNCHANGED <<numPins, hconfig, i, written>>
  BY DEF FwVoltage
<1> HIDE DEF Op, Byte, Types
<1>2. /\ port = "open" /\ failed = FALSE /\ toBoard = <<>> /\ toHost = <<>> /\ taken = produced /\ call.name # "Write"
      /\ \E k \in 0..3, n \in Nat, t \in Seq(Op) : todo = Reads(k, n) \o t /\ RecordAsked(buf, k, n, t)
  BY <1>1, NowAsked
<1>3. PICK k \in 0..3, n \in Nat, t \in Seq(Op) : todo = Reads(k, n) \o t /\ RecordAsked(buf, k, n, t)
  BY <1>2
<1>4. object = NOP /\ k = 1 /\ n = 0 /\ t = <<>>
  BY <1>1, <1>3 DEF RecordAsked, Has
<1>5. Types'
  BY <1>1, Kept, ReplyTypes
<1>6. Quiet(<<>>)'
  <2>1. pc' = "main" /\ buf' = <<>> /\ UNCHANGED <<object, call>>
    BY <1>1, ReplyKeeps
  <2>2. pc' = ModePc' /\ object' # MONITOR
    BY <1>4, <2>1 DEF ModePc, NOP, MONITOR
  <2> QED
    BY <1>2, <2>1, <2>2, QuietIdle
<1>7. Talking'
  BY <1>1, <1>2, <1>3, <1>4, <1>6, Kept, Acknowledgements, Answered
<1> QED
  BY <1>5, <1>7

\* The firmware makes a speed test or a transfer test.
LEMMA FwTestStep == ASSUME Types, Talking, FwTest PROVE Types' /\ Talking'
<1>1. /\ \/ Has("speed") /\ Reply(<<>>, [x \in 1..Unpack32(buf) |-> 255], "main")
         \/ Has("xfer") /\ Reply(<<>>, buf, "main")
      /\ UNCHANGED <<numPins, hconfig, i, written>>
  BY DEF FwTest
<1>2. PICK p \in {"speed", "xfer"} : Has(p)
  BY <1>1
<1>3. MaxCount \in 1..255 /\ 255 \in Byte
  BY LinkAssumption DEF Byte
<1> HIDE DEF Op, Byte, Types
<1>4. /\ port = "open" /\ failed = FALSE /\ toBoard = <<>> /\ toHost = <<>> /\ taken = produced /\ call.name # "Write"
      /\ buf \in Seq(Byte)
      /\ \E k \in 0..3, n \in Nat, t \in Seq(Op) : todo = Reads(k, n) \o t /\ RecordAsked(buf, k, n, t)
  BY <1>2, NowAsked
<1>5. PICK k \in 0..3, n \in Nat, t \in Seq(Op) : todo = Reads(k, n) \o t /\ RecordAsked(buf, k, n, t)
  BY <1>4
<1>6. /\ object = NOP /\ k = 0 /\ t = <<>>
      /\ p = "speed" => n \in 1..MaxCount /\ buf = Pack32(n)
      /\ p = "xfer" => n = 2 /\ Len(buf) = 2
  BY <1>2, <1>5 DEF RecordAsked, Has, XferSize
<1>7. PICK d \in Seq(Byte) : Reply(<<>>, d, "main") /\ Len(d) = n
  <2>1. CASE p = "speed"
    <3>1. Unpack32(buf) = n
      BY <1>3, <1>6, <2>1 DEF Unpack32, Pack32
    <3>2. [x \in 1..n |-> 255] \in Seq(Byte) /\ Len([x \in 1..n |-> 255]) = n
      BY <1>3
    <3>3. Reply(<<>>, [x \in 1..Unpack32(buf) |-> 255], "main")
      BY <1>1, <1>2, <2>1 DEF Has
    <3> QED
      BY <3>1, <3>2, <3>3
  <2>2. CASE p = "xfer"
    <3>1. Reply(<<>>, buf, "main")
      BY <1>1, <1>2, <2>2 DEF Has
    <3> QED
      BY <1>4, <1>6, <2>2, <3>1
  <2> QED
    BY <2>1, <2>2
<1>8. Types'
  BY <1>1, <1>7, Kept, ReplyTypes
<1>9. Quiet(<<>>)'
  <2>1. pc' = "main" /\ buf' = <<>> /\ UNCHANGED <<object, call>>
    BY <1>7, ReplyKeeps
  <2>2. pc' = ModePc' /\ object' # MONITOR
    BY <1>6, <2>1 DEF ModePc, NOP, MONITOR
  <2> QED
    BY <1>4, <2>1, <2>2, QuietIdle
<1>10. Talking'
  BY <1>4, <1>5, <1>6, <1>7, <1>9, Kept, Acknowledgements, Answered
<1> QED
  BY <1>8, <1>10

\* GPIO mode answers an action.
LEMMA FwGpioStep == ASSUME Types, Talking, FwGpio PROVE Types' /\ Talking'
<1>1. /\ Has("gpio") /\ UNCHANGED <<numPins, hconfig, i, written>>
      /\ \/ buf[1] \in {HIGH, LOW} /\ Reply(Ack, <<>>, "gpio")
         \/ buf[1] = READ /\ \E b \in {0, 1} : Reply(Ack, <<b>>, "gpio")
         \/ buf[1] = EXIT /\ Reply(Ack, <<>>, "main")
         \/ buf[1] \notin {EXIT, READ, HIGH, LOW}
  BY DEF FwGpio, PinReply
<1>2. 0 \in Byte /\ 1 \in Byte
  BY DEF Byte
<1> HIDE DEF Op, Byte, Types
<1>3. /\ port = "open" /\ failed = FALSE /\ toBoard = <<>> /\ toHost = <<>> /\ taken = produced /\ call.name # "Write"
      /\ \E k \in 0..3, n \in Nat, t \in Seq(Op) : todo = Reads(k, n) \o t /\ RecordAsked(buf, k, n, t)
  BY <1>1, NowAsked
<1>4. PICK k \in 0..3, n \in Nat, t \in Seq(Op) : todo = Reads(k, n) \o t /\ RecordAsked(buf, k, n, t)
  BY <1>3
<1>5. /\ object = GPIO /\ k = 1
      /\ \/ buf \in {<<HIGH, 0>>, <<LOW, 0>>} /\ n = 0 /\ t = <<>>
         \/ buf = <<READ, 0>> /\ n = 1 /\ t = <<>>
         \/ buf = <<EXIT, 0>> /\ n = 0 /\ t = Do("close")
  BY <1>1, <1>4 DEF RecordAsked, Has
<1>6. CASE buf \in {<<HIGH, 0>>, <<LOW, 0>>, <<READ, 0>>}
  <2>1. PICK d \in Seq(Byte) : Reply(Ack, d, "gpio") /\ Len(d) = n /\ t = <<>>
    <3>1. CASE buf \in {<<HIGH, 0>>, <<LOW, 0>>}
      <4>1. Reply(Ack, <<>>, "gpio") /\ n = 0 /\ t = <<>>
        BY <1>1, <1>5, <3>1 DEF HIGH, LOW, READ, EXIT
      <4> QED
        BY <4>1, Kept
    <3>2. CASE buf = <<READ, 0>>
      <4>1. (\E b \in {0, 1} : Reply(Ack, <<b>>, "gpio")) /\ n = 1 /\ t = <<>>
        BY <1>1, <1>5, <3>2 DEF HIGH, LOW, READ, EXIT
      <4>2. \A b \in {0, 1} : <<b>> \in Seq(Byte) /\ Len(<<b>>) = 1
        BY <1>2
      <4> QED
        BY <4>1, <4>2
    <3> QED
      BY <1>6, <3>1, <3>2
  <2>2. Types'
    BY <1>1, <2>1, Kept, ReplyTypes
  <2>3. Quiet(<<>>)'
    <3>1. pc' = "gpio" /\ buf' = <<>> /\ UNCHANGED <<object, call>>
      BY <2>1, ReplyKeeps
    <3>2. pc' = ModePc'
      BY <1>5, <3>1, Modes DEF ModePc, NOP, GPIO
    <3>3. object' # MONITOR
      BY <1>5, <3>1 DEF GPIO, MONITOR
    <3> QED
      BY <1>3, <3>1, <3>2, <3>3, QuietIdle
  <2>4. Talking'
    BY <1>3, <1>4, <1>5, <2>1, <2>3, Kept, Acknowledgements, Answered
  <2> QED
    BY <2>2, <2>4
<1>7. CASE buf = <<EXIT, 0>>
  <2>1. Reply(Ack, <<>>, "main") /\ n = 0 /\ t = Do("close")
    BY <1>1, <1>5, <1>7 DEF HIGH, LOW, READ, EXIT
  <2>2. Types'
    BY <1>1, <2>1, Kept, ReplyTypes
  <2>3. Quiet(t)'
    BY <2>1, ReplyKeeps DEF Quiet
  <2>4. Talking'
    BY <1>3, <1>4, <1>5, <2>1, <2>3, Kept, Acknowledgements, Answered
  <2> QED
    BY <2>2, <2>4
<1> QED
  BY <1>5, <1>6, <1>7

\* Monitor mode answers a number of blocks.
LEMMA FwMonitorStep == ASSUME Types, Talking, FwMonitor PROVE Types' /\ Talking'
<1>1. /\ Has("monitor") /\ UNCHANGED <<numPins, hconfig, i, written>>
      /\ Unpack32(buf) = 0 => Reply(Ack, <<>>, "main")
      /\ Unpack32(buf) # 0 => \E d \in Bytes(Unpack32(buf) * BlockSize) : Reply(<<>>, d, "monitor")
  BY DEF FwMonitor, Blocks
<1>2. MaxCount \in 1..255 /\ Samples \subseteq Byte
  BY LinkAssumption DEF Byte
<1> HIDE DEF Op, Byte, Types
<1>3. /\ port = "open" /\ failed = FALSE /\ toBoard = <<>> /\ toHost = <<>> /\ taken = produced /\ call.name # "Write"
      /\ \E k \in 0..3, n \in Nat, t \in Seq(Op) : todo = Reads(k, n) \o t /\ RecordAsked(buf, k, n, t)
  BY <1>1, NowAsked
<1>4. PICK k \in 0..3, n \in Nat, t \in Seq(Op) : todo = Reads(k, n) \o t /\ RecordAsked(buf, k, n, t)
  BY <1>3
<1>5. /\ object = MONITOR /\ hostPins = numPins
      /\ \/ \E c \in 1..MaxCount : buf = Pack32(c) /\ k = 0 /\ n = c * (hostPins \div PinsPerPort) /\ t = <<>>
         \/ buf = Pack32(0) /\ k = 1 /\ n = 0 /\ t = WriteBytes(<<SCANBUS>>) \o (Reads(1, 1) \o Do("close"))
  BY <1>1, <1>4 DEF RecordAsked, Has
<1>6. CASE \E c \in 1..MaxCount : buf = Pack32(c) /\ k = 0 /\ n = c * (hostPins \div PinsPerPort) /\ t = <<>>
  <2>1. PICK c \in 1..MaxCount : buf = Pack32(c) /\ k = 0 /\ n = c * (hostPins \div PinsPerPort) /\ t = <<>>
    BY <1>6
  <2>2. Unpack32(buf) = c /\ c # 0
    BY <1>2, <2>1 DEF Unpack32, Pack32
  <2>3. PICK d \in Bytes(c * BlockSize) : Reply(<<>>, d, "monitor")
    BY <1>1, <2>2
  <2>4. c * BlockSize = n
    <3>1. numPins \div 8 = 2 * (numPins \div 16)
      BY Kept, PinsOfChips
    <3>2. BlockSize = hostPins \div PinsPerPort
      BY <1>5, <3>1 DEF BlockSize, PinsPerDevice, PinsPerPort
    <3> QED
      BY <2>1, <3>2
  <2>5. d \in Seq(Byte) /\ Len(d) = n
    BY <1>2, <2>3, <2>4 DEF Bytes
  <2>6. Types'
    BY <1>1, <2>3, <2>5, Kept, ReplyTypes
  <2>7. Quiet(<<>>)'
    <3>1. pc' = "monitor" /\ buf' = <<>> /\ UNCHANGED <<object, hostPins, call>>
      BY <2>3, ReplyKeeps
    <3>2. pc' = ModePc'
      BY <1>5, <3>1, Modes DEF ModePc, NOP, MONITOR
    <3> QED
      BY <1>1, <1>3, <1>5, <3>1, <3>2, QuietIdle
  <2>8. Talking'
    BY <1>3, <1>4, <2>1, <2>3, <2>5, <2>7, Kept, Acknowledgements, Answered
  <2> QED
    BY <2>6, <2>8
<1>7. CASE buf = Pack32(0) /\ k = 1 /\ n = 0 /\ t = WriteBytes(<<SCANBUS>>) \o (Reads(1, 1) \o Do("close"))
  <2>1. Unpack32(buf) = 0
    BY <1>7 DEF Unpack32, Pack32
  <2>2. Reply(Ack, <<>>, "main")
    BY <1>1, <2>1
  <2>3. Types'
    BY <1>1, <2>2, Kept, ReplyTypes
  <2>4. Quiet(t)'
    <3>1. pc' = "main" /\ buf' = <<>> /\ UNCHANGED <<object, call>>
      BY <2>2, ReplyKeeps
    <3>2. ModeAsked(SCANBUS, 1, 1, Do("close"))'
      BY <1>5, <3>1 DEF ModeAsked, Plain, ScanRead
    <3>3. Expects(<<SCANBUS>>, 1, 1, Do("close"))'
      BY <1>3, <3>1, <3>2 DEF Expects
    <3>4. <<SCANBUS>> \in Seq(Byte) /\ 1 \in 0..3 /\ 1 \in Nat /\ Do("close") \in Seq(Op) /\ Want[pc'] > 0
      BY <3>1, ModesAreBytes, DoIs, Sizes, SMTT(60)
    <3> QED
      BY <1>7, <3>1, <3>3, <3>4, QuietRecord
  <2>5. Talking'
    BY <1>3, <1>4, <1>7, <2>2, <2>4, Kept, Acknowledgements, Answered
  <2> QED
    BY <2>3, <2>5
<1> QED
  BY <1>5, <1>6, <1>7

\* Acknowledgements before an answer are part of it.
LEMMA ReadsJoin ==
  ASSUME NEW a \in Nat, NEW k \in Nat, NEW n \in Nat
  PROVE  Reads(a, 0) \o Reads(k, n) = Reads(a + k, n)
<1>1. /\ Reads(a, 0) \in Seq(Op) /\ Len(Reads(a, 0)) = a + 0
      /\ \A x \in 1..a + 0 : Reads(a, 0)[x] = IF x <= a THEN AckOp ELSE ByteOp
  <2>1. 0 \in Nat
    OBVIOUS
  <2> QED
    BY <2>1, ReadsAre, Zenon
<1>2. /\ Reads(k, n) \in Seq(Op) /\ Len(Reads(k, n)) = k + n
      /\ \A x \in 1..k + n : Reads(k, n)[x] = IF x <= k THEN AckOp ELSE ByteOp
  BY ReadsAre, Zenon
<1>3. /\ Reads(a + k, n) \in Seq(Op) /\ Len(Reads(a + k, n)) = (a + k) + n
      /\ \A x \in 1..(a + k) + n : Reads(a + k, n)[x] = IF x <= a + k THEN AckOp ELSE ByteOp
  <2>1. a + k \in Nat
    OBVIOUS
  <2> QED
    BY <2>1, ReadsAre, Zenon
<1> HIDE DEF Reads, Op, AckOp, ByteOp
<1>4. /\ Reads(a, 0) \o Reads(k, n) \in Seq(Op) /\ Len(Reads(a, 0) \o Reads(k, n)) = Len(Reads(a, 0)) + Len(Reads(k, n))
      /\ \A x \in 1..Len(Reads(a, 0)) + Len(Reads(k, n)) :
           (Reads(a, 0) \o Reads(k, n))[x] = IF x <= Len(Reads(a, 0)) THEN Reads(a, 0)[x] ELSE Reads(k, n)[x - Len(Reads(a, 0))]
  BY <1>1, <1>2, ConcatProperties, Zenon
<1>5. Len(Reads(a, 0) \o Reads(k, n)) = (a + k) + n
  BY <1>1, <1>2, <1>4, SMTT(60)
<1>6. \A x \in 1..(a + k) + n : (Reads(a, 0) \o Reads(k, n))[x] = Reads(a + k, n)[x]
  BY <1>1, <1>2, <1>3, <1>4, SMTT(60)
<1> QED
  BY <1>3, <1>4, <1>5, <1>6, SeqEqual

\* The data of a write, byte by byte.
LEMMA AckedIs ==
  ASSUME NEW s \in Seq(Byte)
  PROVE  /\ BytesAcked(s) \in Seq(Op) /\ Len(BytesAcked(s)) = 2 * Len(s)
         /\ \A x \in 1..2 * Len(s) : BytesAcked(s)[x] = IF x % 2 = 1 THEN SendOp(s[(x + 1) \div 2]) ELSE AckOp
<1> DEFINE L == Len(s)
           f == [x \in 1..2 * L |-> IF x % 2 = 1 THEN SendOp(s[(x + 1) \div 2]) ELSE AckOp]
<1>1. BytesAcked(s) = f
  BY DEF BytesAcked, SendOp, AckOp
<1>2. L \in Nat
  BY LenProperties
<1>3. \A x \in 1..2 * L : f[x] \in Op
  <2> SUFFICES ASSUME NEW x \in 1..2 * L PROVE f[x] \in Op
    OBVIOUS
  <2>1. CASE x % 2 = 1
    <3>1. (x + 1) \div 2 \in 1..L
      <4> HIDE DEF L
      <4> QED
        BY <1>2, <2>1
    <3>2. s[(x + 1) \div 2] \in Byte
      BY <3>1, ElementOfSeq
    <3> HIDE DEF Op, Byte, SendOp, AckOp
    <3>3. SendOp(s[(x + 1) \div 2]) \in Op
      BY <3>2, SendIsOp
    <3> QED
      BY <2>1, <3>3
  <2>2. CASE x % 2 # 1
    <3> HIDE DEF Op, Byte, SendOp, AckOp
    <3> QED
      BY <2>2, ReadIsOne
  <2> QED
    BY <2>1, <2>2
<1> HIDE DEF Op, Byte, SendOp, AckOp
<1>4. f \in Seq(Op) /\ Len(f) = 2 * L
  BY <1>2, <1>3
<1> QED
  BY <1>1, <1>4

\* A write of nothing.
LEMMA AckedNone == BytesAcked(<<>>) = <<>>
<1>1. <<>> \in Seq(Byte) /\ Len(<<>>) = 0
  BY EmptySeq
<1>2. BytesAcked(<<>>) \in Seq(Op) /\ Len(BytesAcked(<<>>)) = 2 * Len(<<>>)
  BY <1>1, AckedIs, Zenon
<1> QED
  BY <1>1, <1>2, EmptySeq

\* A write of something: its first byte, its acknowledgement and the rest.
LEMMA AckedFirst ==
  ASSUME NEW s \in Seq(Byte), s # <<>>
  PROVE  BytesAcked(s) = WriteBytes(<<s[1]>>) \o (Reads(1, 0) \o BytesAcked(Tail(s)))
<1> HIDE DEF Op, Byte
<1> DEFINE a == WriteBytes(<<s[1]>>)
           b == Reads(1, 0)
           c == BytesAcked(Tail(s))
           f == BytesAcked(s)
<1>1. /\ Len(s) \in Nat \ {0} /\ s[1] \in Byte /\ Tail(s) \in Seq(Byte) /\ Len(Tail(s)) = Len(s) - 1
      /\ \A x \in 1..Len(s) - 1 : Tail(s)[x] = s[x + 1]
  OBVIOUS
<1>2. a \in Seq(Op) /\ Len(a) = 1 /\ a[1] = SendOp(s[1])
  <2>1. <<s[1]>> \in Seq(Byte) /\ Len(<<s[1]>>) = 1 /\ <<s[1]>>[1] = s[1]
    BY <1>1
  <2>2. a \in Seq(Op) /\ Len(a) = Len(<<s[1]>>) /\ \A x \in 1..Len(<<s[1]>>) : a[x] = SendOp(<<s[1]>>[x])
    BY <2>1, Sends, Zenon
  <2> HIDE DEF a, SendOp
  <2> QED
    BY <2>1, <2>2
<1>3. b \in Seq(Op) /\ Len(b) = 1 /\ b[1] = AckOp
  <2>1. 1 \in Nat /\ 0 \in Nat
    OBVIOUS
  <2>2. b \in Seq(Op) /\ Len(b) = 1 + 0 /\ \A x \in 1..1 + 0 : b[x] = IF x <= 1 THEN AckOp ELSE ByteOp
    BY <2>1, ReadsAre, Zenon
  <2> HIDE DEF b, AckOp, ByteOp
  <2> QED
    BY <2>2
<1>4. /\ c \in Seq(Op) /\ Len(c) = 2 * Len(Tail(s))
      /\ \A x \in 1..2 * Len(Tail(s)) : c[x] = IF x % 2 = 1 THEN SendOp(Tail(s)[(x + 1) \div 2]) ELSE AckOp
  BY <1>1, AckedIs, Zenon
<1>5. /\ f \in Seq(Op) /\ Len(f) = 2 * Len(s)
      /\ \A x \in 1..2 * Len(s) : f[x] = IF x % 2 = 1 THEN SendOp(s[(x + 1) \div 2]) ELSE AckOp
  BY AckedIs, Zenon
<1> HIDE DEF a, b, c, f, SendOp, AckOp
<1>6. /\ b \o c \in Seq(Op) /\ Len(b \o c) = Len(b) + Len(c)
      /\ \A x \in 1..Len(b) + Len(c) : (b \o c)[x] = IF x <= Len(b) THEN b[x] ELSE c[x - Len(b)]
  BY <1>3, <1>4, ConcatProperties, Zenon
<1>7. /\ a \o (b \o c) \in Seq(Op) /\ Len(a \o (b \o c)) = Len(a) + Len(b \o c)
      /\ \A x \in 1..Len(a) + Len(b \o c) : (a \o (b \o c))[x] = IF x <= Len(a) THEN a[x] ELSE (b \o c)[x - Len(a)]
  BY <1>2, <1>6, ConcatProperties, Zenon
<1>8. Len(b \o c) = 1 + 2 * (Len(s) - 1) /\ Len(a \o (b \o c)) = 2 * Len(s)
  BY <1>1, <1>2, <1>3, <1>4, <1>6, <1>7
<1>9. \A x \in 1..2 * Len(s) : f[x] = (a \o (b \o c))[x]
  <2> SUFFICES ASSUME NEW x \in 1..2 * Len(s) PROVE f[x] = (a \o (b \o c))[x]
    OBVIOUS
  <2>1. CASE x = 1
    BY <1>1, <1>2, <1>5, <1>7, <1>8, <2>1
  <2>2. CASE x = 2
    BY <1>1, <1>2, <1>3, <1>5, <1>6, <1>7, <1>8, <2>2
  <2>3. CASE x > 2
    <3>1. (a \o (b \o c))[x] = c[x - 2]
      BY <1>1, <1>2, <1>3, <1>6, <1>7, <1>8, <2>3
    <3>2. x - 2 \in 1..2 * Len(Tail(s))
      BY <1>1, <2>3
    <3>3. (x - 2) % 2 = x % 2 /\ (x - 2 + 1) \div 2 = ((x + 1) \div 2) - 1
      BY <1>1, <2>3
    <3>4. x % 2 = 1 => Tail(s)[(x - 2 + 1) \div 2] = s[(x + 1) \div 2]
      <4> SUFFICES ASSUME x % 2 = 1 PROVE Tail(s)[(x - 2 + 1) \div 2] = s[(x + 1) \div 2]
        OBVIOUS
      <4>1. (x + 1) \div 2 - 1 \in 1..Len(s) - 1
        BY <1>1, <2>3
      <4>2. (x + 1) \div 2 - 1 + 1 = (x + 1) \div 2
        BY <1>1
      <4> QED
        BY <1>1, <3>3, <4>1, <4>2
    <3>5. c[x - 2] = IF (x - 2) % 2 = 1 THEN SendOp(Tail(s)[(x - 2 + 1) \div 2]) ELSE AckOp
      BY <1>4, <3>2
    <3>6. f[x] = IF x % 2 = 1 THEN SendOp(s[(x + 1) \div 2]) ELSE AckOp
      BY <1>5
    <3> QED
      BY <3>1, <3>3, <3>4, <3>5, <3>6
  <2>4. x = 1 \/ x = 2 \/ x > 2
    BY <1>1
  <2> QED
    BY <2>1, <2>2, <2>3, <2>4, Zenon
<1>10. f = a \o (b \o c)
  BY <1>5, <1>7, <1>8, <1>9, SeqEqual
<1> QED
  BY <1>10 DEF f, a, b, c

\* The rest of the data from byte m on.
LEMMA AckedRest ==
  ASSUME NEW d \in Seq(Byte), NEW m \in 0..Len(d) - 1
  PROVE  /\ d[m + 1] \in Byte /\ SubSeq(d, m + 2, Len(d)) \in Seq(Byte)
         /\ BytesAcked(SubSeq(d, m + 1, Len(d)))
              = WriteBytes(<<d[m + 1]>>) \o (Reads(1, 0) \o BytesAcked(SubSeq(d, m + 2, Len(d))))
<1> HIDE DEF Byte
<1> DEFINE s == SubSeq(d, m + 1, Len(d))
           u == SubSeq(d, m + 2, Len(d))
<1>1. Len(d) \in Nat /\ m \in Nat /\ d[m + 1] \in Byte
  BY LenProperties, ElementOfSeq
<1>2. /\ s \in Seq(Byte) /\ Len(s) = Len(d) - m /\ s[1] = d[m + 1] /\ s # <<>>
      /\ \A x \in 1..Len(d) - m : s[x] = d[x + m]
  BY <1>1, SMTT(60)
<1>3. u \in Seq(Byte) /\ Len(u) = Len(d) - m - 1 /\ \A x \in 1..Len(d) - m - 1 : u[x] = d[x + m + 1]
  BY <1>1
<1> HIDE DEF s, u
<1>4. Tail(s) = u
  <2>1. Tail(s) \in Seq(Byte) /\ Len(Tail(s)) = Len(s) - 1 /\ \A x \in 1..Len(s) - 1 : Tail(s)[x] = s[x + 1]
    BY <1>2
  <2>2. \A x \in 1..Len(d) - m - 1 : Tail(s)[x] = u[x]
    BY <1>1, <1>2, <1>3, <2>1
  <2>3. Len(Tail(s)) = Len(u) /\ Len(u) = Len(d) - m - 1
    BY <1>1, <1>2, <1>3, <2>1
  <2> QED
    BY <1>3, <2>1, <2>2, <2>3, SeqEqual
<1>5. BytesAcked(s) = WriteBytes(<<s[1]>>) \o (Reads(1, 0) \o BytesAcked(Tail(s)))
  BY <1>2, AckedFirst
<1>6. BytesAcked(s) = WriteBytes(<<d[m + 1]>>) \o (Reads(1, 0) \o BytesAcked(u))
  BY <1>2, <1>4, <1>5
<1> QED
  BY <1>1, <1>3, <1>6 DEF s, u

\* What the library has asked of parallel mode.
ConfAsked(k, n, t) ==
    \/ call.name # "Write" /\ n \in Count /\ buf = Pack(READ, n) /\ k = 2 /\ t = <<>>
    \/ call.name # "Write" /\ buf = Pack(COMMAND, 0) /\ k = 3 /\ n = 0 /\ t = <<>>
    \/ call.name # "Write" /\ buf = Pack(EXIT, 0) /\ k = 1 /\ n = 0 /\ t = Do("close")
    \/ /\ call.name = "Write" /\ Len(call.data) \in Count /\ n = 0 /\ k = 2
       /\ buf = Pack(WRITE, Len(call.data)) /\ t = BytesAcked(call.data) /\ written = <<>>

\* The library has sent a record to parallel mode.
LEMMA NowConfigured ==
  ASSUME Types, Talking, Has("conf")
  PROVE  /\ port = "open" /\ failed = FALSE /\ toBoard = <<>> /\ toHost = <<>> /\ taken = produced
         /\ object = PARALLEL
         /\ \E k \in 0..3, n \in Nat, t \in Seq(Op) :
              todo = Reads(k, n) \o t /\ ConfAsked(k, n, t)
<1>1. pc = "conf" /\ Len(buf) = Want[pc]
  BY DEF Has
<1> HIDE DEF Op, Byte, Types
<1>2. /\ port = "open" /\ failed = FALSE /\ toBoard = <<>> /\ toHost = <<>> /\ taken = produced
      /\ \E k \in 0..3, n \in Nat, t \in Seq(Op) : todo = Reads(k, n) \o t /\ Expects(buf, k, n, t)
  BY <1>1, NowServing
<1>3. PICK k \in 0..3, n \in Nat, t \in Seq(Op) : todo = Reads(k, n) \o t /\ Expects(buf, k, n, t)
  BY <1>2
<1>4. /\ object = PARALLEL
      /\ ConfAsked(k, n, t)
  BY <1>1, <1>3 DEF Expects, RecordAsked, WriteAsked, ConfAsked
<1> QED
  BY <1>2, <1>3, <1>4

\* The configuration the library was given.
LEMMA ConfigIs ==
  ASSUME Types
  PROVE  config.size \in {1, 2} /\ config.pins \in 1..128 /\ MaxCount \in 1..255
BY LinkAssumption DEF Types

\* A read of whole words is as long as it was asked for.
LEMMA WholeIs ==
  ASSUME NEW c \in Nat, NEW size \in {1, 2}
  PROVE  WholeWords(c, size) \in Nat /\ c <= WholeWords(c, size) /\ (c % size = 0 => WholeWords(c, size) = c)
<1>1. CASE size = 1
  BY <1>1 DEF WholeWords
<1>2. CASE size = 2
  BY <1>2 DEF WholeWords
<1> QED
  BY <1>1, <1>2

\* Parallel mode rejects a configuration.
LEMMA FwRejectStep == ASSUME Types, Talking, FwReject PROVE Types' /\ Talking'
<1>1. /\ Has("conf") /\ buf[1] # EXIT /\ ~(buf[4] <= numPins) /\ Reply(Nack \o Text, <<>>, "main")
      /\ UNCHANGED <<numPins, hconfig, i, written>>
  BY DEF FwReject, IsValidConfig
<1>2. Nack \o Text \in Seq(Byte)
  <2>1. Nack \in Seq(Byte)
    BY DEF Nack, Byte, Newline
  <2> QED
    BY <2>1, Texts, ConcatProperties, ZenonT(60)
<1>3. numPins \in Int /\ config.pins \in Int
  <2>1. numPins \in 1..128
    BY Kept, PinsOfChips
  <2> QED
    BY <2>1, ConfigIs
<1> HIDE DEF Op, Byte, Types
<1>4. /\ port = "open" /\ failed = FALSE /\ toBoard = <<>> /\ toHost = <<>> /\ taken = produced /\ object = PARALLEL
      /\ \E k \in 0..3, n \in Nat, t \in Seq(Op) :
              todo = Reads(k, n) \o t /\ ConfAsked(k, n, t)
  BY <1>1, NowConfigured
<1>5. PICK k \in 0..3, n \in Nat, t \in Seq(Op) :
              todo = Reads(k, n) \o t /\ ConfAsked(k, n, t)
  BY <1>4
<1>6. k \in {2, 3} /\ buf[4] = config.pins
  BY <1>1, <1>5 DEF ConfAsked, Pack, READ, WRITE, COMMAND, EXIT
<1>7. \E u \in Seq(Op) : todo = Reads(1, 0) \o u
  <2>1. k - 1 \in Nat /\ 1 + (k - 1) = k /\ 1 \in Nat /\ 0 \in Nat
    BY <1>6
  <2>2. Reads(1, 0) \o Reads(k - 1, n) = Reads(1 + (k - 1), n)
    BY <2>1, ReadsJoin, Zenon
  <2>3. Reads(1, 0) \in Seq(Op) /\ Reads(k - 1, n) \in Seq(Op)
    BY <2>1, ReadsAre, Zenon
  <2>4. (Reads(1, 0) \o Reads(k - 1, n)) \o t = Reads(1, 0) \o (Reads(k - 1, n) \o t)
    BY <2>3, ConcatAssociative, SMTT(60)
  <2>5. Reads(k - 1, n) \o t \in Seq(Op)
    BY <2>3, ConcatProperties, Zenon
  <2>6. todo = Reads(1, 0) \o (Reads(k - 1, n) \o t)
    BY <1>5, <2>1, <2>2, <2>4
  <2> QED
    BY <2>5, <2>6
<1>8. Types'
  BY <1>1, <1>2, Kept, ReplyTypes
<1>9. Talking'
  <2>1. /\ port' = "open" /\ failed' = FALSE /\ object' = PARALLEL /\ config' = config /\ numPins' = numPins
        /\ toBoard' = <<>> /\ pc' = "main" /\ buf' = <<>> /\ todo' = todo
    BY <1>1, <1>4, ReplyKeeps
  <2>2. toHost' = Nack \o Text
    <3>1. toHost' = toHost \o (Nack \o Text) \o <<>>
      BY <1>1, <1>4 DEF Reply
    <3> QED
      BY <1>2, <1>4, <3>1, ConcatEmptySeq
  <2>3. config'.pins > numPins'
    BY <1>1, <1>3, <1>6, <2>1
  <2> QED
    BY <1>7, <2>1, <2>2, <2>3 DEF Talking, Rejected, Listens
<1> QED
  BY <1>8, <1>9

\* Parallel mode is left.
LEMMA FwExitParallelStep == ASSUME Types, Talking, FwExitParallel PROVE Types' /\ Talking'
<1>1. Has("conf") /\ buf[1] = EXIT /\ Reply(Ack, <<>>, "main") /\ UNCHANGED <<numPins, hconfig, i, written>>
  BY DEF FwExitParallel
<1> HIDE DEF Op, Byte, Types
<1>2. /\ port = "open" /\ failed = FALSE /\ toBoard = <<>> /\ toHost = <<>> /\ taken = produced
      /\ \E k \in 0..3, n \in Nat, t \in Seq(Op) :
              todo = Reads(k, n) \o t /\ ConfAsked(k, n, t)
  BY <1>1, NowConfigured
<1>3. PICK k \in 0..3, n \in Nat, t \in Seq(Op) : todo = Reads(k, n) \o t /\ ConfAsked(k, n, t)
  BY <1>2
<1>4. k = 1 /\ n = 0 /\ t = Do("close")
  BY <1>1, <1>3 DEF ConfAsked, Pack, READ, WRITE, COMMAND, EXIT
<1>5. Types'
  BY <1>1, Kept, ReplyTypes
<1>6. Quiet(t)'
  BY <1>1, <1>4, ReplyKeeps DEF Quiet
<1>7. Talking'
  BY <1>1, <1>2, <1>3, <1>4, <1>6, Kept, Acknowledgements, Answered
<1> QED
  BY <1>5, <1>7

\* One byte of the data.
LEMMA OneByte ==
  ASSUME NEW d \in Seq(Byte), NEW m \in 0..Len(d) - 1
  PROVE  SubSeq(d, m + 1, m + 1) = <<d[m + 1]>> /\ <<d[m + 1]>> \in Seq(Byte)
<1> HIDE DEF Byte
<1>1. Len(d) \in Nat /\ d[m + 1] \in Byte
  BY LenProperties, ElementOfSeq
<1>2. /\ SubSeq(d, m + 1, m + 1) \in Seq(Byte) /\ Len(SubSeq(d, m + 1, m + 1)) = 1
      /\ SubSeq(d, m + 1, m + 1)[1] = d[m + 1]
  BY <1>1
<1>3. <<d[m + 1]>> \in Seq(Byte) /\ Len(<<d[m + 1]>>) = 1 /\ <<d[m + 1]>>[1] = d[m + 1]
  BY <1>1
<1>4. \A x \in 1..1 : SubSeq(d, m + 1, m + 1)[x] = <<d[m + 1]>>[x]
  BY <1>2, <1>3
<1> QED
  BY <1>2, <1>3, <1>4, SeqEqual

\* None of the bytes of a sequence, and all of them.
LEMMA AllOf ==
  ASSUME NEW d \in Seq(Byte)
  PROVE  SubSeq(d, 1, 0) = <<>> /\ SubSeq(d, 1, Len(d)) = d
<1> HIDE DEF Byte
<1>1. Len(d) \in Nat
  BY LenProperties
<1>2. SubSeq(d, 1, 0) \in Seq(Byte) /\ Len(SubSeq(d, 1, 0)) = 0
  BY <1>1
<1>3. /\ SubSeq(d, 1, Len(d)) \in Seq(Byte) /\ Len(SubSeq(d, 1, Len(d))) = Len(d)
      /\ \A x \in 1..Len(d) : SubSeq(d, 1, Len(d))[x] = d[x]
  BY <1>1
<1>4. SubSeq(d, 1, Len(d)) = d
  BY <1>3, SeqEqual
<1> QED
  BY <1>2, <1>4, EmptySeq

\* The data of a write up to j, and from there.
LEMMA DataSplit ==
  ASSUME NEW d \in Seq(Byte), NEW j \in 0..Len(d), NEW m \in j..Len(d)
  PROVE  SubSeq(d, 1, j) \o SubSeq(d, j + 1, m) = SubSeq(d, 1, m)
<1> HIDE DEF Byte
<1>1. Len(d) \in Nat /\ j \in Nat /\ m \in Nat /\ j <= m /\ m <= Len(d)
  BY LenProperties
<1> DEFINE a == SubSeq(d, 1, j)
           b == SubSeq(d, j + 1, m)
           c == SubSeq(d, 1, m)
<1>2. a \in Seq(Byte) /\ Len(a) = j /\ \A x \in 1..j : a[x] = d[x]
  BY <1>1
<1>3. b \in Seq(Byte) /\ Len(b) = m - j /\ \A x \in 1..m - j : b[x] = d[x + j]
  BY <1>1
<1>4. c \in Seq(Byte) /\ Len(c) = m /\ \A x \in 1..m : c[x] = d[x]
  BY <1>1
<1> HIDE DEF a, b, c
<1>5. /\ a \o b \in Seq(Byte) /\ Len(a \o b) = Len(a) + Len(b)
      /\ \A x \in 1..Len(a) + Len(b) : (a \o b)[x] = IF x <= Len(a) THEN a[x] ELSE b[x - Len(a)]
  <2>1. a \in Seq(Byte) /\ b \in Seq(Byte)
    BY <1>2, <1>3
  <2> QED
    BY <2>1, ConcatProperties, Zenon
<1>6. Len(a \o b) = Len(c)
  BY <1>1, <1>2, <1>3, <1>4, <1>5
<1>7. \A x \in 1..Len(c) : (a \o b)[x] = c[x]
  <2> SUFFICES ASSUME NEW x \in 1..Len(c) PROVE (a \o b)[x] = c[x]
    OBVIOUS
  <2>1. x \in 1..m /\ x \in 1..Len(a) + Len(b)
    BY <1>1, <1>2, <1>3, <1>4
  <2>2. CASE x <= j
    BY <1>2, <1>4, <1>5, <2>1, <2>2
  <2>3. CASE ~(x <= j)
    <3>1. x - j \in 1..m - j /\ x - j + j = x
      BY <1>1, <2>1, <2>3
    <3>2. (a \o b)[x] = b[x - j]
      BY <1>2, <1>5, <2>1, <2>3
    <3> QED
      BY <1>3, <1>4, <2>1, <3>1, <3>2
  <2> QED
    BY <2>2, <2>3
<1>8. a \o b = c
  BY <1>4, <1>5, <1>6, <1>7, SeqEqual
<1> QED
  BY <1>8 DEF a, b, c

\* The firmware waits for byte j + 1 of the data of a write.
LEMMA QuietData ==
  ASSUME NEW d \in Seq(Byte), NEW j \in 0..Len(d) - 1,
         call'.name = "Write", call'.data = d, object' = PARALLEL, Len(d) \in Count',
         hconfig' = [count |-> Len(d), size |-> config'.size], i' = j, j % config'.size = 0,
         written' = SubSeq(d, 1, j), pc' = "data1", buf' = <<>>
  PROVE  Quiet(BytesAcked(SubSeq(d, j + 1, Len(d))))'
<1> DEFINE u == BytesAcked(SubSeq(d, j + 2, Len(d)))
<1>1. /\ SubSeq(d, j + 2, Len(d)) \in Seq(Byte)
      /\ BytesAcked(SubSeq(d, j + 1, Len(d))) = WriteBytes(<<d[j + 1]>>) \o (Reads(1, 0) \o u)
  BY AckedRest
<1>2. u \in Seq(Op)
  BY <1>1, AckedIs, Zenon
<1>3. SubSeq(d, j + 1, j + 1) = <<d[j + 1]>> /\ <<d[j + 1]>> \in Seq(Byte)
  BY OneByte
<1> HIDE DEF Op, Byte
<1>4. (j + 1) + 1 = j + 2
  OBVIOUS
<1>5. WriteAsked(<<d[j + 1]>>, 1, 0, u)'
  BY <1>3, <1>4 DEF WriteAsked, u
<1> HIDE DEF u
<1>6. Expects(<<d[j + 1]>>, 1, 0, u)'
  BY <1>5 DEF Expects
<1>7. 1 \in 0..3 /\ 0 \in Nat /\ Want[pc'] > 0
  BY Sizes
<1>8. Quiet(WriteBytes(<<d[j + 1]>>) \o (Reads(1, 0) \o u))'
  BY <1>2, <1>3, <1>6, <1>7, QuietRecord
<1> QED
  BY <1>1, <1>8

\* The firmware has all the data of a write.
LEMMA QuietWritten ==
  ASSUME pc' = "conf", buf' = <<>>, object' = PARALLEL, call'.name = "Write" => written' = call'.data
  PROVE  Quiet(<<>>)'
<1>1. object' # MONITOR /\ object' # NOP
  BY DEF PARALLEL, MONITOR, NOP
<1>2. pc' = ModePc'
  BY <1>1, Modes DEF ModePc
<1> QED
  BY <1>1, <1>2 DEF Quiet

\* Parallel mode answers a record.
LEMMA FwActionStep == ASSUME Types, Talking, FwAction PROVE Types' /\ Talking'
<1>0. call.data \in Seq(Byte)
  BY DEF Types
<1>1. /\ Has("conf") /\ buf[1] # EXIT /\ hconfig' = [count |-> buf[2], size |-> buf[3]] /\ i' = 0
      /\ \/ buf[1] = READ /\ \E d \in Bytes(WholeWords(buf[2], buf[3])) : Reply(Ack \o Ack, d, "conf")
         \/ buf[1] = WRITE /\ Reply(Ack \o Ack, <<>>, IF buf[2] > 0 THEN "data1" ELSE "conf")
         \/ buf[1] = COMMAND /\ Reply(Ack \o Ack \o Ack, <<>>, "conf")
         \/ buf[1] \notin {READ, WRITE, COMMAND}
      /\ UNCHANGED <<numPins, written>>
  BY DEF FwAction
<1>2. Samples \subseteq Byte
  BY LinkAssumption DEF Byte
<1>3. config.size \in {1, 2} /\ config.pins \in 1..128 /\ MaxCount \in 1..255
  BY ConfigIs
<1> HIDE DEF Op, Byte, Types
<1>4. /\ port = "open" /\ failed = FALSE /\ toBoard = <<>> /\ toHost = <<>> /\ taken = produced /\ object = PARALLEL
      /\ \E k \in 0..3, n \in Nat, t \in Seq(Op) : todo = Reads(k, n) \o t /\ ConfAsked(k, n, t)
  BY <1>1, NowConfigured
<1>5. PICK k \in 0..3, n \in Nat, t \in Seq(Op) : todo = Reads(k, n) \o t /\ ConfAsked(k, n, t)
  BY <1>4
<1>6. Acks(2) = Ack \o Ack /\ Acks(3) = Ack \o Ack \o Ack /\ Acks(2) \in Seq(Byte) /\ Acks(3) \in Seq(Byte)
  BY Acknowledgements
<1>7. \A c \in Count : c \in 0..255 /\ c \in Nat /\ c % config.size = 0 /\ WholeWords(c, config.size) = c
  <2> SUFFICES ASSUME NEW c \in Count PROVE c \in 0..255 /\ c \in Nat /\ c % config.size = 0 /\ WholeWords(c, config.size) = c
    OBVIOUS
  <2>1. c \in 0..255 /\ c \in Nat /\ c % config.size = 0
    BY <1>3 DEF Count
  <2> QED
    BY <1>3, <2>1, WholeIs
<1>8. CASE call.name # "Write" /\ n \in Count /\ buf = Pack(READ, n) /\ k = 2 /\ t = <<>>
  <2>1. buf[1] = READ /\ buf[2] = n /\ buf[3] = config.size
    BY <1>8 DEF Pack
  <2>2. PICK d \in Bytes(WholeWords(n, config.size)) : Reply(Ack \o Ack, d, "conf")
    BY <1>1, <2>1 DEF READ, WRITE, COMMAND
  <2>3. d \in Seq(Byte) /\ Len(d) = n
    BY <1>2, <1>7, <1>8, <2>2 DEF Bytes
  <2>4. Types'
    <3>1. hconfig' = [count |-> n, size |-> config.size] /\ n \in 0..255 /\ WholeWords(n, config.size) = n /\ n \in Nat
      BY <1>1, <1>7, <1>8, <2>1
    <3>2. hconfig' \in [count : 0..255, size : {1, 2}] /\ i' \in 0..WholeWords(hconfig'.count, hconfig'.size)
      BY <1>1, <1>3, <3>1, SMTT(60)
    <3> QED
      BY <1>1, <1>6, <2>2, <2>3, <3>2, Kept, ReplyTypes
  <2>5. Quiet(<<>>)'
    <3>1. pc' = "conf" /\ buf' = <<>> /\ UNCHANGED <<object, call>>
      BY <2>2, ReplyKeeps
    <3> QED
      BY <1>4, <1>8, <3>1, QuietWritten
  <2>6. Talking'
    BY <1>4, <1>5, <1>6, <1>8, <2>2, <2>3, <2>5, Kept, Answered
  <2> QED
    BY <2>4, <2>6
<1>9. CASE call.name # "Write" /\ buf = Pack(COMMAND, 0) /\ k = 3 /\ n = 0 /\ t = <<>>
  <2>1. buf[1] = COMMAND /\ buf[2] = 0 /\ buf[3] = config.size
    BY <1>9 DEF Pack
  <2>2. Reply(Ack \o Ack \o Ack, <<>>, "conf")
    BY <1>1, <2>1 DEF READ, WRITE, COMMAND
  <2>3. Types'
    <3>1. WholeWords(0, config.size) \in Nat
      BY <1>3, WholeIs
    <3>2. hconfig' = [count |-> 0, size |-> config.size]
      BY <1>1, <2>1
    <3>3. hconfig' \in [count : 0..255, size : {1, 2}] /\ i' \in 0..WholeWords(hconfig'.count, hconfig'.size)
      BY <1>1, <1>3, <3>1, <3>2
    <3> QED
      BY <1>1, <1>6, <2>2, <3>3, Kept, ReplyTypes, ZenonT(60)
  <2>4. Quiet(<<>>)'
    <3>1. pc' = "conf" /\ buf' = <<>> /\ UNCHANGED <<object, call>>
      BY <2>2, ReplyKeeps
    <3> QED
      BY <1>4, <1>9, <3>1, QuietWritten
  <2>5. Talking'
    BY <1>4, <1>5, <1>6, <1>9, <2>2, <2>4, Kept, Answered
  <2> QED
    BY <2>3, <2>5
<1>10. CASE /\ call.name = "Write" /\ Len(call.data) \in Count /\ n = 0 /\ k = 2
            /\ buf = Pack(WRITE, Len(call.data)) /\ t = BytesAcked(call.data) /\ written = <<>>
  <2>d. PICK d \in Seq(Byte) : d = call.data
    BY <1>0
  <2>1. buf[1] = WRITE /\ buf[2] = Len(d) /\ buf[3] = config.size
    BY <1>10, <2>d DEF Pack
  <2>2. PICK next \in {"data1", "conf"} :
          Reply(Ack \o Ack, <<>>, next) /\ next = IF Len(d) > 0 THEN "data1" ELSE "conf"
    <3>1. Reply(Ack \o Ack, <<>>, IF Len(d) > 0 THEN "data1" ELSE "conf")
      BY <1>1, <2>1, SMTT(60) DEF READ, WRITE, COMMAND
    <3> QED
      BY <3>1
  <2>3. Len(d) \in Count /\ Len(d) \in 0..255 /\ Len(d) \in Nat /\ WholeWords(Len(d), config.size) = Len(d) /\ d \in Seq(Byte)
    BY <1>0, <1>7, <1>10, <2>d
  <2>4. hconfig' = [count |-> Len(d), size |-> config.size]
    BY <1>1, <2>1
  <2>5. Types'
    <3>0. PICK c : c = Len(d)
      BY SMTT(60)
    <3>1. hconfig' = [count |-> c, size |-> config.size] /\ c \in 0..255 /\ WholeWords(c, config.size) = c /\ c \in Nat
      BY <2>3, <2>4, <3>0, Zenon
    <3>2. hconfig' \in [count : 0..255, size : {1, 2}] /\ i' \in 0..WholeWords(hconfig'.count, hconfig'.size)
      BY <1>1, <1>3, <3>1, SMTT(60)
    <3> QED
      BY <1>1, <1>6, <2>2, <3>2, Kept, ReplyTypes, ZenonT(60)
  <2>6. /\ pc' = next /\ buf' = <<>> /\ UNCHANGED <<object, call, config>>
        /\ call'.name = "Write" /\ call'.data = d /\ Count' = Count /\ written' = <<>>
    <3>1. pc' = next /\ buf' = <<>> /\ UNCHANGED <<object, call, config>>
      BY <2>2, ReplyKeeps
    <3> QED
      BY <1>1, <1>10, <2>d, <3>1 DEF Count
  <2>7. Quiet(t)'
    <3>1. CASE Len(d) > 0
      <4>1. 0 \in 0..Len(d) - 1 /\ 0 % config'.size = 0 /\ object' = PARALLEL /\ pc' = "data1" /\ 0 + 1 = 1
        <5>1. config'.size = config.size
          BY <2>6
        <5>2. 0 % config.size = 0
          BY <1>3
        <5>3. 0 \in 0..Len(d) - 1 /\ 0 + 1 = 1
          <6>1. Len(d) \in Nat
            BY LenProperties
          <6> QED
            BY <3>1, <6>1
        <5> QED
          BY <1>4, <2>2, <2>6, <3>1, <5>1, <5>2, <5>3
      <4>2. SubSeq(d, 1, 0) = <<>> /\ SubSeq(d, 1, Len(d)) = d
        BY AllOf, SMTT(60)
      <4>3. Quiet(BytesAcked(SubSeq(d, 0 + 1, Len(d))))'
        <5>1. /\ Len(d) \in Count' /\ hconfig' = [count |-> Len(d), size |-> config'.size] /\ i' = 0
              /\ written' = SubSeq(d, 1, 0)
          BY <1>1, <2>3, <2>4, <2>6, <4>2, Zenon
        <5> QED
          BY <2>3, <2>6, <4>1, <5>1, QuietData, ZenonT(60)
      <4>4. t = BytesAcked(d)
        BY <1>10, <2>d
      <4> QED
        BY <4>1, <4>2, <4>3, <4>4
    <3>2. CASE ~(Len(d) > 0)
      <4>1. d = <<>> /\ next = "conf"
        <5>1. Len(d) = 0
          <6>1. Len(d) \in Nat
            BY LenProperties
          <6> QED
            BY <3>2, <6>1
        <5> QED
          BY <2>2, <3>2, <5>1, EmptySeq
      <4>2. t = <<>>
        BY <1>10, <2>d, <4>1, AckedNone
      <4>3. Quiet(<<>>)'
        BY <1>4, <2>6, <4>1, QuietWritten
      <4> QED
        BY <4>2, <4>3
    <3> QED
      BY <3>1, <3>2
  <2>8. Talking'
    BY <1>4, <1>5, <1>6, <1>10, <2>2, <2>7, Kept, Answered, Zenon
  <2> QED
    BY <2>5, <2>8
<1>11. ~(buf = Pack(EXIT, 0))
  BY <1>1 DEF Pack
<1> QED
  BY <1>5, <1>8, <1>9, <1>10, <1>11 DEF ConfAsked

\* The library has sent a byte of the data of a write.
LEMMA NowWriting ==
  ASSUME Types, Talking, NEW p \in {"data1", "data2"}, Has(p)
  PROVE  /\ port = "open" /\ failed = FALSE /\ toBoard = <<>> /\ toHost = <<>> /\ taken = produced
         /\ call.name = "Write" /\ object = PARALLEL
         /\ hconfig = [count |-> Len(call.data), size |-> config.size] /\ config.size \in {1, 2}
         /\ \E d \in Seq(Byte), j \in Nat, m \in Nat, t \in Seq(Op) :
              /\ d = call.data /\ j = i /\ j \in 0..Len(d) - 1 /\ Len(d) \in Count /\ Len(d) \in 0..255
              /\ j % config.size = 0 /\ Len(d) % config.size = 0
              /\ written = SubSeq(d, 1, j) /\ todo = Reads(1, 0) \o t
              /\ m = IF p = "data1" THEN j + 1 ELSE j + 2
              /\ p = "data2" => config.size = 2
              /\ buf = SubSeq(d, j + 1, m) /\ t = BytesAcked(SubSeq(d, m + 1, Len(d)))
<1>1. pc = p /\ Len(buf) = Want[pc] /\ call.data \in Seq(Byte)
  BY DEF Has, Types
<1> HIDE DEF Op, Byte, Types
<1>2. /\ port = "open" /\ failed = FALSE /\ toBoard = <<>> /\ toHost = <<>> /\ taken = produced
      /\ \E k \in 0..3, n \in Nat, t \in Seq(Op) : todo = Reads(k, n) \o t /\ Expects(buf, k, n, t)
  BY <1>1, NowServing
<1>3. PICK k \in 0..3, n \in Nat, t \in Seq(Op) : todo = Reads(k, n) \o t /\ Expects(buf, k, n, t)
  BY <1>2
<1>4. WriteAsked(buf, k, n, t)
  BY <1>1, <1>3 DEF Expects, RecordAsked
<1>5. PICK d \in Seq(Byte) : d = call.data
  BY <1>1
<1>6. /\ call.name = "Write" /\ object = PARALLEL /\ Len(d) \in Count /\ n = 0 /\ k = 1
      /\ hconfig = [count |-> Len(d), size |-> config.size]
      /\ i % config.size = 0 /\ i \in 0..Len(d) - 1 /\ written = SubSeq(d, 1, i)
      /\ p = "data2" => config.size = 2
      /\ p = "data1" => buf = SubSeq(d, i + 1, i + 1) /\ t = BytesAcked(SubSeq(d, (i + 1) + 1, Len(d)))
      /\ p = "data2" => buf = SubSeq(d, i + 1, i + 2) /\ t = BytesAcked(SubSeq(d, (i + 2) + 1, Len(d)))
  BY <1>1, <1>4, <1>5 DEF WriteAsked
<1>7. config.size \in {1, 2} /\ MaxCount \in 1..255
  BY ConfigIs
<1>8. Len(d) \in 0..255 /\ Len(d) % config.size = 0
  <2>1. \A c \in Count : c \in 0..255 /\ c % config.size = 0
    BY <1>7, SMTT(60) DEF Count
  <2> QED
    BY <1>6, <2>1
<1>9. PICK j \in Nat : j = i
  BY <1>6
<1>10. PICK m \in Nat : m = IF p = "data1" THEN j + 1 ELSE j + 2
  OBVIOUS
<1>11. buf = SubSeq(d, j + 1, m) /\ t = BytesAcked(SubSeq(d, m + 1, Len(d)))
  <2>1. CASE p = "data1"
    BY <1>6, <1>9, <1>10, <2>1
  <2>2. CASE p = "data2"
    BY <1>6, <1>9, <1>10, <2>2, SMTT(60)
  <2> QED
    BY <2>1, <2>2
<1>12. /\ d = call.data /\ j = i /\ j \in 0..Len(d) - 1 /\ Len(d) \in Count /\ Len(d) \in 0..255
       /\ j % config.size = 0 /\ Len(d) % config.size = 0
       /\ written = SubSeq(d, 1, j) /\ todo = Reads(1, 0) \o t
       /\ m = IF p = "data1" THEN j + 1 ELSE j + 2
       /\ p = "data2" => config.size = 2
  BY <1>3, <1>5, <1>6, <1>8, <1>9, <1>10
<1>13. hconfig = [count |-> Len(call.data), size |-> config.size]
  BY <1>5, <1>6
<1> QED
  BY <1>2, <1>6, <1>7, <1>11, <1>12, <1>13, ZenonT(60)

\* An even position before an even length leaves room for a word.
LEMMA EvenBelow ==
  ASSUME NEW c \in 0..255, NEW j \in 0..c - 1, j % 2 = 0, c % 2 = 0
  PROVE  j \in 0..c - 2
OBVIOUS

\* Two bytes of the data.
LEMMA TwoBytes ==
  ASSUME NEW d \in Seq(Byte), NEW j \in 0..Len(d) - 2
  PROVE  SubSeq(d, j + 1, j + 1) \o <<d[j + 2]>> = SubSeq(d, j + 1, j + 2)
<1> HIDE DEF Byte
<1>1. Len(d) \in Nat /\ j \in 0..Len(d) - 1 /\ j + 1 \in 0..Len(d) - 1 /\ (j + 1) + 1 = j + 2
  <2>1. Len(d) \in Nat
    BY LenProperties
  <2> QED
    BY <2>1
<1>2. SubSeq(d, j + 1, j + 1) = <<d[j + 1]>> /\ <<d[j + 1]>> \in Seq(Byte)
  BY <1>1, OneByte
<1>3. <<d[(j + 1) + 1]>> \in Seq(Byte)
  BY <1>1, OneByte
<1>4. d[j + 1] \in Byte /\ d[j + 2] \in Byte
  BY <1>1, ElementOfSeq
<1>5. /\ <<d[j + 1]>> \o <<d[j + 2]>> \in Seq(Byte) /\ Len(<<d[j + 1]>> \o <<d[j + 2]>>) = 2
      /\ (<<d[j + 1]>> \o <<d[j + 2]>>)[1] = d[j + 1] /\ (<<d[j + 1]>> \o <<d[j + 2]>>)[2] = d[j + 2]
  BY <1>4
<1>6. /\ SubSeq(d, j + 1, j + 2) \in Seq(Byte) /\ Len(SubSeq(d, j + 1, j + 2)) = 2
      /\ SubSeq(d, j + 1, j + 2)[1] = d[j + 1] /\ SubSeq(d, j + 1, j + 2)[2] = d[j + 2]
  BY <1>1
<1>7. \A x \in 1..2 : (<<d[j + 1]>> \o <<d[j + 2]>>)[x] = SubSeq(d, j + 1, j + 2)[x]
  BY <1>5, <1>6
<1>8. <<d[j + 1]>> \o <<d[j + 2]>> = SubSeq(d, j + 1, j + 2)
  BY <1>5, <1>6, <1>7, SeqEqual
<1> QED
  BY <1>2, <1>8

\* The firmware takes the first of the two bytes of a word.
LEMMA FwFirstByteStep == ASSUME Types, Talking, FwFirstByte PROVE Types' /\ Talking'
<1>0. buf \in Seq(Byte)
  BY Sequenced
<1>1. /\ Has("data1") /\ hconfig.size = 2 /\ toHost' = (IF port = "open" THEN toHost \o Ack ELSE toHost) /\ pc' = "data2"
      /\ UNCHANGED <<port, object, config, hostPins, call, todo, taken, failed, toBoard, buf, numPins, hconfig, i,
                     produced, written>>
  BY DEF FwFirstByte, FirstByteReply, hostVars
<1> HIDE DEF Op, Byte, Types
<1>p. PICK p \in {"data1", "data2"} : p = "data1" /\ Has(p)
  BY <1>1, SMTT(60)
<1>2. /\ port = "open" /\ failed = FALSE /\ toBoard = <<>> /\ toHost = <<>> /\ taken = produced
      /\ call.name = "Write" /\ object = PARALLEL
      /\ hconfig = [count |-> Len(call.data), size |-> config.size] /\ config.size \in {1, 2}
      /\ \E d \in Seq(Byte), j \in Nat, m \in Nat, t \in Seq(Op) :
           /\ d = call.data /\ j = i /\ j \in 0..Len(d) - 1 /\ Len(d) \in Count /\ Len(d) \in 0..255
           /\ j % config.size = 0 /\ Len(d) % config.size = 0
           /\ written = SubSeq(d, 1, j) /\ todo = Reads(1, 0) \o t
           /\ m = IF p = "data1" THEN j + 1 ELSE j + 2
           /\ p = "data2" => config.size = 2
           /\ buf = SubSeq(d, j + 1, m) /\ t = BytesAcked(SubSeq(d, m + 1, Len(d)))
  BY <1>p, NowWriting, ZenonT(60)
<1>3. PICK d \in Seq(Byte), j \in Nat, m \in Nat, t \in Seq(Op) :
           /\ d = call.data /\ j = i /\ j \in 0..Len(d) - 1 /\ Len(d) \in Count /\ Len(d) \in 0..255
           /\ j % config.size = 0 /\ Len(d) % config.size = 0
           /\ written = SubSeq(d, 1, j) /\ todo = Reads(1, 0) \o t
           /\ m = IF p = "data1" THEN j + 1 ELSE j + 2
           /\ p = "data2" => config.size = 2
           /\ buf = SubSeq(d, j + 1, m) /\ t = BytesAcked(SubSeq(d, m + 1, Len(d)))
  BY <1>2, ZenonT(60)
<1>4. /\ config.size = 2 /\ m = j + 1 /\ j \in 0..Len(d) - 2 /\ j + 1 \in 0..Len(d) - 1
      /\ (j + 1) + 1 = j + 2 /\ (j + 1) + 2 = j + 3 /\ (j + 2) + 1 = j + 3
  <2>1. config.size = 2
    BY <1>1, <1>2, ZenonT(60)
  <2>2. j % 2 = 0 /\ Len(d) % 2 = 0 /\ Len(d) \in 0..255 /\ j \in 0..Len(d) - 1
    <3>1. PICK z : z = config.size
      BY SMTT(60)
    <3>2. j % config.size = 0 /\ Len(d) % config.size = 0 /\ Len(d) \in 0..255 /\ j \in 0..Len(d) - 1
      BY <1>3, ZenonT(60)
    <3>3. j % z = 0 /\ Len(d) % z = 0
      BY <3>1, <3>2, ZenonT(60)
    <3> QED
      BY <2>1, <3>1, <3>2, <3>3, ZenonT(60)
  <2>3. PICK c \in 0..255 : c = Len(d)
    BY <2>2, ZenonT(60)
  <2>4. m = j + 1
    BY <1>p, <1>3
  <2>5. j \in 0..c - 2
    <3>1. j % 2 = 0 /\ c % 2 = 0 /\ j \in 0..c - 1
      BY <2>2, <2>3
    <3> QED
      BY <3>1, EvenBelow, ZenonT(60)
  <2> QED
    BY <2>1, <2>3, <2>4, <2>5, SMTT(60)
<1> DEFINE u == BytesAcked(SubSeq(d, j + 3, Len(d)))
<1>5. /\ d[j + 2] \in Byte /\ SubSeq(d, j + 3, Len(d)) \in Seq(Byte)
      /\ t = WriteBytes(<<d[j + 2]>>) \o (Reads(1, 0) \o u)
  <2>1. /\ d[(j + 1) + 1] \in Byte /\ SubSeq(d, (j + 1) + 2, Len(d)) \in Seq(Byte)
        /\ BytesAcked(SubSeq(d, (j + 1) + 1, Len(d)))
             = WriteBytes(<<d[(j + 1) + 1]>>) \o (Reads(1, 0) \o BytesAcked(SubSeq(d, (j + 1) + 2, Len(d))))
    BY <1>4, AckedRest
  <2>2. t = BytesAcked(SubSeq(d, j + 2, Len(d)))
    BY <1>3, <1>4
  <2> QED
    BY <1>4, <2>1, <2>2
<1>6. u \in Seq(Op) /\ <<d[j + 2]>> \in Seq(Byte)
  <2>1. u \in Seq(Op)
    BY <1>5, AckedIs, Zenon
  <2>2. <<d[j + 2]>> \in Seq(Byte)
    BY <1>5
  <2> QED
    BY <2>1, <2>2
<1>7. buf \o <<d[j + 2]>> = SubSeq(d, j + 1, j + 2)
  <2>1. SubSeq(d, j + 1, j + 1) \o <<d[j + 2]>> = SubSeq(d, j + 1, j + 2)
    BY <1>4, TwoBytes, ZenonT(60)
  <2>2. buf = SubSeq(d, j + 1, j + 1)
    BY <1>3, <1>4, ZenonT(60)
  <2> QED
    BY <2>1, <2>2
<1>8. Quiet(t)'
  <2>1. WriteAsked(SubSeq(d, j + 1, j + 2), 1, 0, u)'
    <3>1. /\ call'.name = "Write" /\ object' = PARALLEL /\ call'.data = d /\ Len(d) \in Count' /\ pc' = "data2"
          /\ hconfig' = [count |-> Len(d), size |-> config'.size] /\ i' = j /\ j % config'.size = 0
          /\ written' = SubSeq(d, 1, j) /\ config'.size = 2
      BY <1>1, <1>2, <1>3, <1>4, Zenon DEF Count
    <3> QED
      BY <1>3, <1>4, <3>1, SMTT(60) DEF WriteAsked, u
  <2> HIDE DEF u
  <2>2. PICK r : r = SubSeq(d, j + 1, j + 2)
    OBVIOUS
  <2>3. Expects(r, 1, 0, u)'
    BY <2>1, <2>2 DEF Expects
  <2>4. PICK q : q = buf
    OBVIOUS
  <2>5. Expects(q \o <<d[j + 2]>>, 1, 0, u)'
    BY <1>7, <2>2, <2>3, <2>4
  <2>6. 1 \in 0..3 /\ 0 \in Nat
    OBVIOUS
  <2>7. Asks(q, t)'
    BY <1>5, <1>6, <2>5, <2>6, AsksNow
  <2>8. Asks(buf, t)'
    BY <1>1, <2>4, <2>7
  <2>9. Len(buf') < Want[pc']
    <3>1. Len(buf') = 1
      BY <1>1, Sizes DEF Has
    <3>2. Want[pc'] = 2
      BY <1>1, Sizes
    <3> QED
      BY <3>1, <3>2
  <2> QED
    BY <2>8, <2>9, QuietAsks
<1>9. toHost' = Acks(1) \o <<>> /\ toHost' \in Seq(Byte)
  <2>1. toHost' = <<>> \o Ack
    BY <1>1, <1>2, Zenon
  <2> QED
    BY <2>1, Kept, Acknowledgements, ConcatEmptySeq, SMTT(60)
<1>10. Talking'
  <2>1. /\ port' = "open" /\ failed' = FALSE /\ toBoard' = <<>> /\ todo' = Reads(1, Len(<<>>)) \o t
        /\ produced' = taken' \o <<>> /\ 1 \in 0..3 /\ <<>> \in Seq(Byte)
    <3>1. produced' = taken' \o <<>>
      <4>1. produced \o <<>> = produced
        BY Kept, ConcatEmptySeq, SMTT(60)
      <4> QED
        BY <1>1, <1>2, <4>1, Zenon
    <3>2. todo' = Reads(1, Len(<<>>)) \o t
      BY <1>1, <1>3, Kept, ZenonT(60)
    <3>3. port' = "open" /\ failed' = FALSE /\ toBoard' = <<>> /\ 1 \in 0..3 /\ <<>> \in Seq(Byte)
      <4>1. port' = "open" /\ failed' = FALSE /\ toBoard' = <<>>
        BY <1>1, <1>2, Zenon
      <4> QED
        BY <4>1, Kept
    <3> QED
      BY <3>1, <3>2, <3>3
  <2> QED
    BY <1>8, <1>9, <2>1, HearsNext, Zenon
<1>11. Types'
  <2>1. Len(buf') <= Want[pc'] /\ pc' \in DOMAIN Want
    <3>1. Len(buf') = 1
      BY <1>1, Sizes DEF Has
    <3>2. Want[pc'] = 2
      BY <1>1, Sizes
    <3> QED
      BY <1>1, <3>1, <3>2, Kept
  <2> QED
    BY <1>1, <1>9, <2>1 DEF Types
<1> QED
  BY <1>10, <1>11

\* The end of the word of z bytes at byte j of L.
Ends(j, z, L) ==
  /\ j + z \in j..L /\ (j + z) % z = 0 /\ j \in 0..L /\ j + z \in Nat
  /\ j + z < L => j + z \in 0..L - 1
  /\ ~(j + z < L) => j + z = L

\* A word that begins within the data ends within it.
LEMMA WordEnd ==
  ASSUME NEW j \in Nat, NEW L \in 0..255, NEW z \in {1, 2}, j \in 0..L - 1, j % z = 0, L % z = 0
  PROVE  Ends(j, z, L)
<1>1. CASE z = 1
  BY <1>1, SMTT(60) DEF Ends
<1>2. CASE z = 2
  BY <1>2, SMTT(60) DEF Ends
<1> QED
  BY <1>1, <1>2

\* The firmware takes the last byte of a word and strobes it.
LEMMA FwWordStep == ASSUME Types, Talking, FwWord PROVE Types' /\ Talking'
<1>1. /\ Has(Record) /\ written' = written \o buf /\ i' = i + hconfig.size
      /\ Reply(Ack, <<>>, IF i' < hconfig.count THEN "data1" ELSE "conf")
      /\ UNCHANGED <<numPins, hconfig>>
  BY DEF FwWord, More, Strobed
<1> HIDE DEF Op, Byte, Types
<1>p. PICK p \in {"data1", "data2"} : p = Record /\ Has(p) /\ (p = "data1" <=> hconfig.size = 1)
  BY <1>1, SMTT(60) DEF Record
<1>2. /\ port = "open" /\ failed = FALSE /\ toBoard = <<>> /\ toHost = <<>> /\ taken = produced
      /\ call.name = "Write" /\ object = PARALLEL
      /\ hconfig = [count |-> Len(call.data), size |-> config.size] /\ config.size \in {1, 2}
      /\ \E d \in Seq(Byte), j \in Nat, m \in Nat, t \in Seq(Op) :
           /\ d = call.data /\ j = i /\ j \in 0..Len(d) - 1 /\ Len(d) \in Count /\ Len(d) \in 0..255
           /\ j % config.size = 0 /\ Len(d) % config.size = 0
           /\ written = SubSeq(d, 1, j) /\ todo = Reads(1, 0) \o t
           /\ m = IF p = "data1" THEN j + 1 ELSE j + 2
           /\ p = "data2" => config.size = 2
           /\ buf = SubSeq(d, j + 1, m) /\ t = BytesAcked(SubSeq(d, m + 1, Len(d)))
  BY <1>p, NowWriting, ZenonT(60)
<1>3. PICK d \in Seq(Byte), j \in Nat, m \in Nat, t \in Seq(Op) :
           /\ d = call.data /\ j = i /\ j \in 0..Len(d) - 1 /\ Len(d) \in Count /\ Len(d) \in 0..255
           /\ j % config.size = 0 /\ Len(d) % config.size = 0
           /\ written = SubSeq(d, 1, j) /\ todo = Reads(1, 0) \o t
           /\ m = IF p = "data1" THEN j + 1 ELSE j + 2
           /\ p = "data2" => config.size = 2
           /\ buf = SubSeq(d, j + 1, m) /\ t = BytesAcked(SubSeq(d, m + 1, Len(d)))
  BY <1>2, ZenonT(60)
<1>a. config.size \in {1, 2} /\ hconfig = [count |-> Len(call.data), size |-> config.size]
  BY <1>2, Zenon
<1>b. d = call.data /\ j = i /\ j \in 0..Len(d) - 1 /\ Len(d) \in Count /\ Len(d) \in 0..255
  BY <1>3, Zenon
<1>c. j % config.size = 0 /\ Len(d) % config.size = 0
  BY <1>3, Zenon
<1>d. m = (IF p = "data1" THEN j + 1 ELSE j + 2) /\ (p = "data2" => config.size = 2)
  BY <1>3, Zenon
<1>e. written = SubSeq(d, 1, j) /\ buf = SubSeq(d, j + 1, m)
  BY <1>3, Zenon
<1>4. PICK z \in {1, 2}, L \in 0..255 : z = config.size /\ L = Len(d)
  BY <1>a, <1>b, Zenon
<1>5. m = j + z /\ hconfig.size = z /\ hconfig.count = L
  <2>1. hconfig.size = z /\ hconfig.count = L
    BY <1>a, <1>b, <1>4, Zenon
  <2>2. p = "data1" <=> z = 1
    BY <1>p, <2>1
  <2> QED
    BY <1>d, <2>1, <2>2, SMTT(60)
<1>6. /\ m \in j..L /\ m % z = 0 /\ j \in 0..L /\ m \in Nat
      /\ m < L => m \in 0..L - 1
      /\ ~(m < L) => m = L
  <2>1. j % z = 0 /\ L % z = 0 /\ j \in 0..L - 1
    BY <1>b, <1>c, <1>4, Zenon
  <2>2. Ends(j, z, L)
    BY <2>1, WordEnd, ZenonT(60)
  <2>3. m = j + z
    BY <1>5
  <2> QED
    BY <2>2, <2>3, Zenon DEF Ends
<1>7. i' = m /\ written' = SubSeq(d, 1, m)
  <2>1. SubSeq(d, 1, j) \o SubSeq(d, j + 1, m) = SubSeq(d, 1, m)
    BY <1>4, <1>6, DataSplit, ZenonT(60)
  <2> QED
    BY <1>1, <1>b, <1>e, <1>5, <2>1, Zenon
<1>8. PICK next \in {"data1", "conf"} : Reply(Ack, <<>>, next) /\ next = IF m < L THEN "data1" ELSE "conf"
  <2>1. Reply(Ack, <<>>, IF m < L THEN "data1" ELSE "conf")
    BY <1>1, <1>5, <1>7
  <2> QED
    BY <2>1
<1>9. /\ pc' = next /\ buf' = <<>> /\ UNCHANGED <<object, call, config>>
      /\ call'.name = "Write" /\ call'.data = d /\ Len(d) \in Count'
      /\ hconfig' = [count |-> Len(d), size |-> config'.size] /\ object' = PARALLEL
  <2>1. pc' = next /\ buf' = <<>> /\ UNCHANGED <<object, call, config>>
    BY <1>8, ReplyKeeps
  <2> QED
    BY <1>1, <1>2, <1>b, <2>1, Zenon DEF Count
<1>10. SubSeq(d, 1, m) \in Seq(Byte) /\ m % config'.size = 0
  <2>1. SubSeq(d, 1, m) \in Seq(Byte)
    <3>1. m \in 0..L
      BY <1>6
    <3>2. \A x \in 0..Len(d) : SubSeq(d, 1, x) \in Seq(Byte)
      BY SMTT(60)
    <3> QED
      BY <1>4, <3>1, <3>2, Zenon
  <2>2. config'.size = z
    BY <1>4, <1>9
  <2> QED
    BY <1>6, <2>1, <2>2
<1>11. Types'
  <2>1. i' \in 0..WholeWords(L, z)
    <3>1. L \in Nat /\ L % z = 0
      <4>1. L % z = 0
        BY <1>c, <1>4, Zenon
      <4>2. L \in Nat
        OBVIOUS
      <4> QED
        BY <4>1, <4>2
    <3>2. WholeWords(L, z) = L
      BY <3>1, WholeIs
    <3> QED
      BY <1>6, <1>7, <3>2
  <2>2. hconfig'.count = L /\ hconfig'.size = z /\ hconfig' \in [count : 0..255, size : {1, 2}]
    <3>1. hconfig' = hconfig
      BY <1>1
    <3> QED
      BY <1>5, <3>1, Kept
  <2>3. i' \in 0..WholeWords(hconfig'.count, hconfig'.size)
    BY <2>1, <2>2
  <2>4. written' \in Seq(Byte) /\ numPins' \in PinCounts \union {BoardPins} /\ next \in DOMAIN Want
    BY <1>1, <1>7, <1>10, Kept, Sizes, ZenonT(60)
  <2> QED
    BY <1>8, <2>2, <2>3, <2>4, Kept, ReplyTypes, Zenon
<1>12. Quiet(t)'
  <2>1. CASE m < L
    <3>1. m \in 0..Len(d) - 1 /\ pc' = "data1"
      <4>1. m \in 0..L - 1
        BY <1>6, <2>1
      <4> QED
        BY <1>4, <1>8, <1>9, <2>1, <4>1
    <3>2. Quiet(BytesAcked(SubSeq(d, m + 1, Len(d))))'
      BY <1>7, <1>9, <1>10, <3>1, QuietData
    <3> QED
      BY <1>3, <3>2, Zenon
  <2>2. CASE ~(m < L)
    <3>1. m = L /\ pc' = "conf"
      <4>1. m = L
        BY <1>6, <2>2, Zenon
      <4>2. next = "conf" /\ pc' = next
        BY <1>8, <1>9, <2>2, ZenonT(60)
      <4> QED
        BY <4>1, <4>2, Zenon
    <3>2. written' = d
      BY <1>4, <1>7, <3>1, AllOf, SMTT(60)
    <3>3. t = <<>>
      <4>1. SubSeq(d, m + 1, Len(d)) = <<>>
        <5>1. SubSeq(d, L + 1, L) \in Seq(Byte) /\ Len(SubSeq(d, L + 1, L)) = 0
          BY <1>4, SMTT(60)
        <5>2. SubSeq(d, L + 1, L) = <<>>
          BY <5>1, EmptySeq
        <5> QED
          BY <1>4, <3>1, <5>2, Zenon
      <4> QED
        BY <1>3, <4>1, AckedNone, ZenonT(60)
    <3>4. Quiet(<<>>)'
      BY <1>9, <3>1, <3>2, QuietWritten
    <3> QED
      BY <3>3, <3>4
  <2> QED
    BY <2>1, <2>2
<1>13. Talking'
  <2>1. todo = Reads(1, Len(<<>>)) \o t /\ 1 \in 0..3
    <3>1. Len(<<>>) = 0
      BY Kept, SMTT(60)
    <3>2. todo = Reads(1, 0) \o t
      BY <1>3, Zenon
    <3>3. 1 \in 0..3
      OBVIOUS
    <3> QED
      BY <3>1, <3>2, <3>3, Zenon
  <2>2. Ack = Acks(1) /\ <<>> \in Seq(Byte)
    BY Kept, Acknowledgements
  <2> QED
    BY <1>2, <1>8, <1>12, <2>1, <2>2, Answered, Zenon
<1> QED
  BY <1>11, <1>13

-----------------------------------------------------------------------------
(* The calls of a program keep the conversation.                           *)

\* A call whose first record the firmware expects.
LEMMA CallAsks ==
  ASSUME port' = "open", failed' = FALSE, toHost' = <<>>, toBoard' = <<>>, buf' = <<>>, taken' = <<>>, produced' = <<>>,
         NEW s \in Seq(Byte), NEW k \in 0..3, NEW n \in Nat, NEW t \in Seq(Op),
         todo' = WriteBytes(s) \o (Reads(k, n) \o t), Expects(s, k, n, t)'
  PROVE  Talking'
<1> HIDE DEF Op, Byte
<1>1. <<>> \o s = s /\ <<>> \o <<>> = <<>>
  BY ConcatEmptySeq, EmptySeq
<1>2. Asks(<<>>, WriteBytes(s) \o (Reads(k, n) \o t))'
  BY <1>1, AsksNow
<1>3. PICK q : q = <<>>
  OBVIOUS
<1>4. PICK u : u = WriteBytes(s) \o (Reads(k, n) \o t)
  OBVIOUS
<1>5. Asks(q, u)'
  BY <1>2, <1>3, <1>4
<1>6. buf' \o toBoard' = q /\ todo' = u
  BY <1>1, <1>3, <1>4
<1>7. Asks(buf \o toBoard, todo)'
  BY <1>5, <1>6
<1> QED
  BY <1>7, StillAsking

\* What a call leaves, between two calls.
LEMMA CallFrom ==
  ASSUME Types, Talking, Idle, NEW name, NEW data \in Seq(Byte), NEW script \in Seq(Op), Call(name, data, script),
         UNCHANGED <<port, failed>>
  PROVE  /\ port' = "open" /\ failed' = FALSE /\ toHost' = <<>> /\ toBoard' = <<>> /\ buf' = <<>>
         /\ taken' = <<>> /\ produced' = <<>> /\ written' = <<>> /\ todo' = script
         /\ call' = [name |-> name, data |-> data] /\ call'.name = name /\ call'.data = data
         /\ pc = ModePc /\ (object = MONITOR => hostPins = numPins)
         /\ UNCHANGED <<pc, numPins, hconfig, i>>
<1>1. /\ toBoard = <<>> /\ toHost = <<>> /\ buf = <<>> /\ pc = ModePc /\ failed = FALSE
      /\ object = MONITOR => hostPins = numPins
  BY NowIdle
<1>2. port = "open"
  BY DEF Idle
<1> QED
  BY <1>1, <1>2 DEF Call

\* The types after a call.
LEMMA CallTypes ==
  ASSUME Types, Talking, Idle, NEW name, NEW data \in Seq(Byte), NEW script \in Seq(Op), Call(name, data, script),
         UNCHANGED <<port, failed, hostPins>>,
         object' \in {NOP, PARALLEL, GPIO, MONITOR, SPEEDTEST, XFER}, config' \in Configs
  PROVE  Types'
<1> HIDE DEF Op, Byte
<1>1. /\ port' = "open" /\ toHost' = <<>> /\ toBoard' = <<>> /\ buf' = <<>>
      /\ taken' = <<>> /\ produced' = <<>> /\ written' = <<>> /\ todo' = script
      /\ call' = [name |-> name, data |-> data] /\ UNCHANGED <<pc, numPins, hconfig, i>>
  BY CallFrom
<1>2. <<>> \in Seq(Byte) /\ Len(<<>>) = 0
  BY EmptySeq
<1>3. pc \in DOMAIN Want /\ numPins \in PinCounts \union {BoardPins} /\ hostPins \in {0, BoardPins} \union PinCounts
      /\ hconfig \in [count : 0..255, size : {1, 2}] /\ i \in 0..WholeWords(hconfig.count, hconfig.size)
  BY DEF Types
<1>4. Len(buf') <= Want[pc']
  <2>1. Want[pc] \in Nat
    BY <1>3, Sizes
  <2> QED
    BY <1>1, <1>2, <2>1
<1>5. call'.data \in Seq(Byte)
  BY <1>1
<1> QED
  BY <1>1, <1>2, <1>3, <1>4, <1>5 DEF Types

\* ReadAck and ReadBytes are reads.
LEMMA AckScript ==
  /\ ReadAck = Reads(1, 0) /\ ReadAck \in Seq(Op)
  /\ \A n \in Nat : ReadBytes(n) = Reads(0, n) /\ ReadBytes(n) \in Seq(Op)
<1>1. ReadAck = Reads(1, 0)
  BY DEF ReadAck, Do, Reads, AckOp
<1>2. \A n \in Nat : ReadBytes(n) = Reads(0, n)
  BY DEF ReadBytes, Reads, ByteOp
<1>3. Reads(1, 0) \in Seq(Op) /\ \A n \in Nat : Reads(0, n) \in Seq(Op)
  BY ReadsAre
<1> QED
  BY <1>1, <1>2, <1>3

\* Scripts are joined one after another.
LEMMA OpsJoin ==
  ASSUME NEW a \in Seq(Op), NEW b \in Seq(Op), NEW c \in Seq(Op)
  PROVE  a \o b \o c = a \o (b \o c)
<1> HIDE DEF Op
<1> QED
  BY ConcatAssociative

\* Two scripts make a script.
LEMMA OpsJoined ==
  ASSUME NEW a \in Seq(Op), NEW b \in Seq(Op)
  PROVE  a \o b \in Seq(Op)
<1> HIDE DEF Op
<1> QED
  BY ConcatProperties, Zenon

\* SetMode, and what a call does after it.
LEMMA SetModeThen ==
  ASSUME NEW m \in Byte, NEW t \in Seq(Op)
  PROVE  /\ SetMode(m) \o t = WriteBytes(<<m>>) \o (Reads(1, 0) \o t) /\ SetMode(m) \o t \in Seq(Op)
         /\ SetMode(m) \o Do("info") = WriteBytes(<<m>>) \o (Reads(1, 0) \o Do("info"))
         /\ \A n \in Nat : SetMode(m) \o ReadBytes(n) \o t = WriteBytes(<<m>>) \o (Reads(1, n) \o t)
<1> HIDE DEF Op, Byte
<1>1. <<m>> \in Seq(Byte) /\ ReadAck \in Seq(Op) /\ ReadAck = Reads(1, 0) /\ 1 \in Nat /\ 0 \in Nat
  BY AckScript
<1>2. \A u \in Seq(Op) : WriteBytes(<<m>>) \o ReadAck \o u = WriteBytes(<<m>>) \o (Reads(1, 0) \o u)
                         /\ WriteBytes(<<m>>) \o ReadAck \o u \in Seq(Op)
  <2>1. WriteBytes(<<m>>) \in Seq(Op)
    BY <1>1, Sends
  <2>2. PICK w \in Seq(Op) : w = WriteBytes(<<m>>)
    BY <2>1
  <2>3. PICK r \in Seq(Op) : r = ReadAck
    BY <1>1
  <2>4. w \o r \in Seq(Op)
    BY OpsJoined
  <2>5. ASSUME NEW u \in Seq(Op)
        PROVE  w \o r \o u = w \o (r \o u) /\ w \o r \o u \in Seq(Op)
    <3>1. w \o r \o u = w \o (r \o u)
      BY OpsJoin, ZenonT(60)
    <3>2. w \o r \o u \in Seq(Op)
      BY <2>4, OpsJoined
    <3> QED
      BY <3>1, <3>2
  <2> QED
    BY <1>1, <2>2, <2>3, <2>5
<1>3. \A u \in Seq(Op) : SetMode(m) \o u = WriteBytes(<<m>>) \o (Reads(1, 0) \o u) /\ SetMode(m) \o u \in Seq(Op)
  BY <1>2 DEF SetMode
<1>4. Do("info") \in Seq(Op)
  BY DoIs
<1>5. ASSUME NEW n \in Nat
      PROVE  SetMode(m) \o ReadBytes(n) \o t = WriteBytes(<<m>>) \o (Reads(1, n) \o t)
  <2>1. ReadBytes(n) = Reads(0, n) /\ Reads(0, n) \in Seq(Op) /\ Reads(1, 0) \in Seq(Op) /\ Reads(1, n) \in Seq(Op)
    BY <1>1, AckScript, ReadsAre
  <2>2. Reads(1, 0) \o Reads(0, n) = Reads(1 + 0, n)
    BY <1>1, ReadsJoin, Zenon
  <2>3. SetMode(m) \o Reads(0, n) = WriteBytes(<<m>>) \o Reads(1, n)
    <3>1. 1 + 0 = 1
      OBVIOUS
    <3> QED
      BY <1>3, <2>1, <2>2, <3>1, ZenonT(60)
  <2>4. WriteBytes(<<m>>) \in Seq(Op)
    BY <1>1, Sends
  <2>5. WriteBytes(<<m>>) \o Reads(1, n) \o t = WriteBytes(<<m>>) \o (Reads(1, n) \o t)
    BY <2>1, <2>4, OpsJoin, ZenonT(60)
  <2> QED
    BY <2>1, <2>3, <2>5
<1> QED
  BY <1>3, <1>4, <1>5

\* PinCount, and what a call does after it.
LEMMA PinCountThen ==
  ASSUME NEW c \in PinCounts \union {0}, NEW t \in Seq(Op)
  PROVE  /\ PinCount(c) \o t =
              IF c = 0 THEN WriteBytes(<<GETPINCOUNT>>) \o (Reads(1, 1) \o (Do("pins") \o t))
              ELSE WriteBytes(<<SETPINCOUNT>>)
                     \o (Reads(1, 0) \o (WriteBytes(<<c>>) \o (Reads(0, 1) \o (Do("pins") \o t))))
         /\ PinCount(c) \o t \in Seq(Op) /\ PinCount(c) \in Seq(Op)
<1>1. c \in Byte
  <2>1. CASE c = 0
    BY <2>1 DEF Byte
  <2>2. CASE c # 0
    <3>1. c \in 1..128
      BY <2>2, PinsOfChips
    <3> QED
      BY <3>1 DEF Byte
  <2> QED
    BY <2>1, <2>2
<1> HIDE DEF Op, Byte
<1> DEFINE p == Do("pins")
           w == WriteBytes(<<c>>)
           b == ReadBytes(1)
<1>p. p \in Seq(Op)
  BY DoIs
<1>w. w \in Seq(Op)
  <2>1. <<c>> \in Seq(Byte)
    BY <1>1
  <2> QED
    BY <2>1, Sends
<1>b. b \in Seq(Op)
  BY AckScript
<1>r. b = Reads(0, 1)
  BY AckScript
<1>g. SetMode(GETPINCOUNT) \in Seq(Op)
  BY ModesAreBytes, ModeScript
<1>s. SetMode(SETPINCOUNT) \in Seq(Op)
  BY ModesAreBytes, ModeScript
<1>m. GETPINCOUNT \in Byte /\ SETPINCOUNT \in Byte
  BY ModesAreBytes
<1> HIDE DEF p, w, b
<1>3. p \o t \in Seq(Op) /\ b \o (p \o t) \in Seq(Op) /\ w \o (b \o (p \o t)) \in Seq(Op)
  <2>1. p \o t \in Seq(Op)
    BY <1>p, OpsJoined
  <2>2. b \o (p \o t) \in Seq(Op)
    BY <1>b, <2>1, OpsJoined
  <2>3. w \o (b \o (p \o t)) \in Seq(Op)
    BY <1>w, <2>2, OpsJoined
  <2> QED
    BY <2>1, <2>2, <2>3
<1>4. CASE c = 0
  <2>1. PinCount(c) = SetMode(GETPINCOUNT) \o b \o p
    BY <1>4 DEF PinCount, b, p
  <2>2. PICK g \in Seq(Op) : g = SetMode(GETPINCOUNT) \o b
    BY <1>g, <1>b, OpsJoined
  <2>3. g \o p \in Seq(Op)
    BY <1>p, OpsJoined
  <2>4. g \o p \o t = g \o (p \o t)
    BY <1>p, OpsJoin, ZenonT(60)
  <2>5. SetMode(GETPINCOUNT) \o b \o (p \o t) = WriteBytes(<<GETPINCOUNT>>) \o (Reads(1, 1) \o (p \o t))
    <3>1. PICK u \in Seq(Op) : u = p \o t
      BY <1>3
    <3>2. \A n \in Nat : SetMode(GETPINCOUNT) \o ReadBytes(n) \o u = WriteBytes(<<GETPINCOUNT>>) \o (Reads(1, n) \o u)
      BY <1>m, SetModeThen, ZenonT(60)
    <3>3. SetMode(GETPINCOUNT) \o ReadBytes(1) \o u = WriteBytes(<<GETPINCOUNT>>) \o (Reads(1, 1) \o u)
      BY <3>2
    <3> QED
      BY <3>1, <3>3 DEF b
  <2>6. g \o p \o t \in Seq(Op)
    BY <2>3, OpsJoined
  <2> QED
    BY <1>4, <2>1, <2>2, <2>3, <2>4, <2>5, <2>6 DEF p
<1>5. CASE c # 0
  <2> DEFINE s == SetMode(SETPINCOUNT)
  <2>1. PinCount(c) = s \o w \o b \o p
    BY <1>5 DEF PinCount, b, p, w
  <2>0. s \in Seq(Op)
    BY <1>s
  <2>2. s \o (w \o (b \o (p \o t))) = WriteBytes(<<SETPINCOUNT>>) \o (Reads(1, 0) \o (w \o (b \o (p \o t))))
        /\ s \o (w \o (b \o (p \o t))) \in Seq(Op)
    BY <1>m, <1>3, SetModeThen
  <2> HIDE DEF s
  <2>3. PICK x \in Seq(Op) : x = s \o w
    BY <1>w, <2>0, OpsJoined
  <2>4. PICK y \in Seq(Op) : y = x \o b
    BY <1>b, <2>3, OpsJoined
  <2>5. y \o p \in Seq(Op)
    BY <1>p, OpsJoined
  <2>6. y \o p \o t = y \o (p \o t)
    BY <1>p, OpsJoin, ZenonT(60)
  <2>7. x \o b \o (p \o t) = x \o (b \o (p \o t))
    BY <1>b, <1>3, OpsJoin, ZenonT(60)
  <2>8. s \o w \o (b \o (p \o t)) = s \o (w \o (b \o (p \o t)))
    BY <1>w, <2>0, <1>3, OpsJoin, ZenonT(60)
  <2>9. PinCount(c) = y \o p
    BY <2>1, <2>3, <2>4
  <2>10. PinCount(c) \o t = s \o (w \o (b \o (p \o t)))
    BY <2>3, <2>4, <2>6, <2>7, <2>8, <2>9
  <2>11. PinCount(c) \o t = WriteBytes(<<SETPINCOUNT>>) \o (Reads(1, 0) \o (w \o (Reads(0, 1) \o (p \o t))))
    BY <1>r, <2>2, <2>10
  <2> QED
    BY <1>5, <2>2, <2>5, <2>9, <2>10, <2>11 DEF p, w
<1> QED
  BY <1>4, <1>5

\* A call whose first record the firmware expects keeps types and conversation.
LEMMA CallStep ==
  ASSUME Types, Talking, Idle, NEW name, NEW data \in Seq(Byte), NEW script \in Seq(Op), Call(name, data, script),
         UNCHANGED <<port, failed, hostPins>>,
         object' \in {NOP, PARALLEL, GPIO, MONITOR, SPEEDTEST, XFER}, config' \in Configs,
         NEW s \in Seq(Byte), NEW k \in 0..3, NEW n \in Nat, NEW t \in Seq(Op),
         script = WriteBytes(s) \o (Reads(k, n) \o t), Expects(s, k, n, t)'
  PROVE  Types' /\ Talking'
<1> HIDE DEF Op, Byte, Types, Talking, Expects
<1>1. Types'
  BY CallTypes
<1>2. /\ port' = "open" /\ failed' = FALSE /\ toHost' = <<>> /\ toBoard' = <<>> /\ buf' = <<>>
      /\ taken' = <<>> /\ produced' = <<>> /\ todo' = script
  BY CallFrom
<1>3. todo' = WriteBytes(s) \o (Reads(k, n) \o t)
  BY <1>2
<1>4. Talking'
  BY <1>2, <1>3, CallAsks
<1> QED
  BY <1>1, <1>4

\* A call of a plain Gumbi starts with a mode.
LEMMA ModeCall ==
  ASSUME Types, Talking, Idle, object = NOP, NEW name, name # "Write", NEW script, Call(name, <<>>, script),
         UNCHANGED <<port, failed, hostPins>>,
         object' \in {NOP, PARALLEL, GPIO, MONITOR, SPEEDTEST, XFER}, config' \in Configs,
         NEW m \in Byte, NEW k \in 0..3, NEW n \in Nat, NEW t \in Seq(Op),
         script = WriteBytes(<<m>>) \o (Reads(k, n) \o t), ModeAsked(m, k, n, t)'
  PROVE  Types' /\ Talking'
<1> HIDE DEF Op, Byte, Types, Talking, ModeAsked
<1>1. <<m>> \in Seq(Byte) /\ Len(<<m>>) = 1 /\ <<m>>[1] = m /\ <<>> \in Seq(Byte)
  BY EmptySeq
<1>2. script \in Seq(Op)
  <2>1. WriteBytes(<<m>>) \in Seq(Op)
    BY <1>1, Sends
  <2>2. Reads(k, n) \in Seq(Op)
    <3>1. k \in Nat
      OBVIOUS
    <3> QED
      BY <3>1, ReadsAre
  <2>3. Reads(k, n) \o t \in Seq(Op)
    BY <2>2, OpsJoined
  <2> QED
    BY <2>1, <2>3, OpsJoined
<1>3. pc' = "main" /\ call'.name # "Write"
  <2>1. call'.name = name /\ pc = ModePc /\ pc' = pc
    BY <1>1, <1>2, CallFrom
  <2> QED
    BY <2>1 DEF ModePc
<1>4. Expects(<<m>>, k, n, t)'
  BY <1>1, <1>3 DEF Expects
<1> QED
  BY <1>1, <1>2, <1>4, CallStep

\* A call of an object in a mode starts with a record of it.
LEMMA RecordCall ==
  ASSUME Types, Talking, Idle, NEW name, name # "Write", NEW data \in Seq(Byte), NEW script, Call(name, data, script),
         UNCHANGED <<port, failed, hostPins>>,
         object' \in {NOP, PARALLEL, GPIO, MONITOR, SPEEDTEST, XFER}, config' \in Configs,
         NEW r \in Seq(Byte), NEW k \in 0..3, NEW n \in Nat, NEW t \in Seq(Op),
         script = WriteBytes(r) \o (Reads(k, n) \o t), RecordAsked(r, k, n, t)'
  PROVE  Types' /\ Talking'
<1> HIDE DEF Op, Byte, Types, Talking, RecordAsked
<1>2. script \in Seq(Op)
  <2>1. WriteBytes(r) \in Seq(Op)
    BY Sends
  <2>2. Reads(k, n) \in Seq(Op)
    <3>1. k \in Nat
      OBVIOUS
    <3> QED
      BY <3>1, ReadsAre
  <2>3. Reads(k, n) \o t \in Seq(Op)
    BY <2>2, OpsJoined
  <2> QED
    BY <2>1, <2>3, OpsJoined
<1>3. call'.name # "Write"
  BY <1>2, CallFrom
<1>4. Expects(r, k, n, t)'
  BY <1>3 DEF Expects
<1> QED
  BY <1>2, <1>4, CallStep

\* The calls of a plain Gumbi, as the mode, what it answers and what follows.
LEMMA BaseScripts ==
  /\ SetVoltage(0) = WriteBytes(<<VOLTAGE>>) \o (Reads(1, 0) \o (WriteBytes(<<0>>) \o (Reads(1, 0) \o <<>>)))
  /\ Info = WriteBytes(<<INFO>>) \o (Reads(1, 0) \o Do("info"))
  /\ ID = WriteBytes(<<GID>>) \o (Reads(1, 0) \o Do("text"))
  /\ Ping = WriteBytes(<<PING>>) \o (Reads(2, 0) \o <<>>)
  /\ Scan = WriteBytes(<<SCANBUS>>) \o (Reads(1, 1) \o <<>>)
  /\ WriteBytes(<<0>>) \o (Reads(1, 0) \o <<>>) \in Seq(Op)
<1> HIDE DEF Op, Byte
<1>b. VOLTAGE \in Byte /\ INFO \in Byte /\ GID \in Byte /\ PING \in Byte /\ SCANBUS \in Byte /\ 0 \in Byte
  BY ModesAreBytes DEF NOP
<1>e. <<>> \in Seq(Op)
  BY EmptySeq
<1>a. Reads(1, 0) \in Seq(Op) /\ ReadAck = Reads(1, 0) /\ 0 \in Nat /\ 1 \in Nat
  BY AckScript
<1>r. PICK r \in Seq(Op) : r = Reads(1, 0)
  BY <1>a
<1>1. SetVoltage(0) = WriteBytes(<<VOLTAGE>>) \o (Reads(1, 0) \o (WriteBytes(<<0>>) \o (Reads(1, 0) \o <<>>)))
      /\ WriteBytes(<<0>>) \o (Reads(1, 0) \o <<>>) \in Seq(Op)
  <2>1. PICK m \in Seq(Op) : m = SetMode(VOLTAGE)
    BY <1>b, ModeScript
  <2>2. <<0>> \in Seq(Byte)
    BY <1>b
  <2>3. PICK w \in Seq(Op) : w = WriteBytes(<<0>>)
    BY <2>2, Sends
  <2>4. m \o w \o r = m \o (w \o r)
    BY OpsJoin, ZenonT(60)
  <2>5. PICK t \in Seq(Op) : t = w \o r
    BY OpsJoined
  <2>6. SetMode(VOLTAGE) \o t = WriteBytes(<<VOLTAGE>>) \o (Reads(1, 0) \o t)
    BY <1>b, SetModeThen
  <2>7. r \o <<>> = r
    BY ConcatEmptySeq
  <2> QED
    BY <1>a, <1>r, <2>1, <2>3, <2>4, <2>5, <2>6, <2>7 DEF SetVoltage
<1>2. Info = WriteBytes(<<INFO>>) \o (Reads(1, 0) \o Do("info"))
  <2>1. SetMode(INFO) \o Do("info") = WriteBytes(<<INFO>>) \o (Reads(1, 0) \o Do("info"))
    BY <1>b, <1>e, SetModeThen
  <2> QED
    BY <2>1 DEF Info
<1>3. ID = WriteBytes(<<GID>>) \o (Reads(1, 0) \o Do("text"))
  <2>1. PICK t \in Seq(Op) : t = Do("text")
    BY DoIs
  <2>2. SetMode(GID) \o t = WriteBytes(<<GID>>) \o (Reads(1, 0) \o t)
    BY <1>b, SetModeThen
  <2> QED
    BY <2>1, <2>2 DEF ID
<1>4. Ping = WriteBytes(<<PING>>) \o (Reads(2, 0) \o <<>>)
  <2>1. SetMode(PING) \o r = WriteBytes(<<PING>>) \o (Reads(1, 0) \o r)
    BY <1>b, SetModeThen
  <2>2. Reads(1, 0) \o Reads(1, 0) = Reads(1 + 1, 0)
    BY <1>a, ReadsJoin, Zenon
  <2>3. 1 + 1 = 2 /\ 2 \in Nat
    OBVIOUS
  <2>4. Reads(2, 0) \in Seq(Op)
    BY <1>a, <2>3, ReadsAre
  <2>5. Reads(2, 0) \o <<>> = Reads(2, 0)
    BY <2>4, ConcatEmptySeq
  <2> QED
    BY <1>a, <1>r, <2>1, <2>2, <2>3, <2>5 DEF Ping
<1>5. Scan = WriteBytes(<<SCANBUS>>) \o (Reads(1, 1) \o <<>>)
  <2>1. SetMode(SCANBUS) \o ReadBytes(1) \o <<>> = WriteBytes(<<SCANBUS>>) \o (Reads(1, 1) \o <<>>)
    BY <1>a, <1>b, <1>e, SetModeThen, ZenonT(60)
  <2>2. SetMode(SCANBUS) \in Seq(Op)
    BY <1>b, ModeScript
  <2>3. ReadBytes(1) \in Seq(Op)
    BY <1>a, AckScript
  <2>4. SetMode(SCANBUS) \o ReadBytes(1) \in Seq(Op)
    BY <2>2, <2>3, OpsJoined
  <2>5. SetMode(SCANBUS) \o ReadBytes(1) \o <<>> = SetMode(SCANBUS) \o ReadBytes(1)
    BY <2>4, ConcatEmptySeq
  <2> QED
    BY <2>1, <2>5 DEF Scan
<1> QED
  BY <1>1, <1>2, <1>3, <1>4, <1>5

\* PinCount, of a plain Gumbi or of the constructor of Monitor.
LEMMA PinCountCall ==
  ASSUME Types, Talking, Idle, object = NOP, NEW name, name # "Write", NEW c \in PinCounts \union {0},
         NEW t \in Seq(Op), NEW script, script = PinCount(c) \o t, Call(name, <<>>, script),
         UNCHANGED <<port, failed, hostPins>>, object' \in {NOP, MONITOR}, config' \in Configs, PinsRead' = Do("pins") \o t
  PROVE  Types' /\ Talking'
<1> HIDE DEF Op, Byte, Types, Talking
<1>b. GETPINCOUNT \in Byte /\ SETPINCOUNT \in Byte
  BY ModesAreBytes
<1>1. object' \in {NOP, PARALLEL, GPIO, MONITOR, SPEEDTEST, XFER} /\ Plain'
  BY DEF Plain
<1>2. PICK p \in Seq(Op) : p = Do("pins") \o t
  BY DoIs
<1>3. CASE c = 0
  <2>1. script = WriteBytes(<<GETPINCOUNT>>) \o (Reads(1, 1) \o p)
    BY <1>2, <1>3, PinCountThen
  <2>2. ModeAsked(GETPINCOUNT, 1, 1, p)'
    BY <1>1, <1>2 DEF ModeAsked
  <2>3. 1 \in 0..3 /\ 1 \in Nat
    OBVIOUS
  <2> QED
    BY <1>1, <1>b, <2>1, <2>2, <2>3, ModeCall
<1>4. CASE c # 0
  <2>0. c \in PinCounts /\ c \in Byte
    <3>1. c \in PinCounts
      BY <1>4
    <3>2. c \in 1..128
      BY <3>1, PinsOfChips
    <3> QED
      BY <3>1, <3>2 DEF Byte
  <2>1. script = WriteBytes(<<SETPINCOUNT>>) \o (Reads(1, 0) \o (WriteBytes(<<c>>) \o (Reads(0, 1) \o p)))
    BY <1>2, <1>4, PinCountThen
  <2>3. 1 \in 0..3 /\ 1 \in Nat /\ 0 \in Nat
    OBVIOUS
  <2>4. PICK u \in Seq(Op) : u = WriteBytes(<<c>>) \o (Reads(0, 1) \o p)
    <3>1. <<c>> \in Seq(Byte)
      BY <2>0
    <3>2. WriteBytes(<<c>>) \in Seq(Op)
      BY <3>1, Sends
    <3>3. Reads(0, 1) \in Seq(Op)
      BY <2>3, ReadsAre
    <3>4. Reads(0, 1) \o p \in Seq(Op)
      BY <3>3, OpsJoined
    <3> QED
      BY <3>2, <3>4, OpsJoined
  <2>2. ModeAsked(SETPINCOUNT, 1, 0, u)'
    BY <1>1, <1>2, <2>0, <2>4 DEF ModeAsked
  <2>5. script = WriteBytes(<<SETPINCOUNT>>) \o (Reads(1, 0) \o u)
    BY <2>1, <2>4
  <2> QED
    BY <1>1, <1>b, <2>2, <2>3, <2>5, ModeCall
<1> QED
  BY <1>3, <1>4

\* A program calls a method of a plain Gumbi.
LEMMA BaseCallStep == ASSUME Types, Talking, BaseCall PROVE Types' /\ Talking'
<1> HIDE DEF Op, Byte, Types, Talking
<1>0. Idle /\ object = NOP /\ UNCHANGED <<port, object, config, hostPins, failed>>
  BY DEF BaseCall
<1>1. /\ UNCHANGED <<port, failed, hostPins>> /\ object' = NOP /\ object' \in {NOP, MONITOR} /\ config' \in Configs
      /\ object' \in {NOP, PARALLEL, GPIO, MONITOR, SPEEDTEST, XFER} /\ Plain'
  BY <1>0 DEF Plain, Types
<1>p. PinsRead' = Do("pins") \o <<>> /\ ScanRead' = <<>>
  BY <1>1 DEF PinsRead, ScanRead, NOP, MONITOR
<1>b. /\ VOLTAGE \in Byte /\ INFO \in Byte /\ GID \in Byte /\ PING \in Byte /\ SCANBUS \in Byte
      /\ 1 \in 0..3 /\ 2 \in 0..3 /\ 0 \in Nat /\ 1 \in Nat /\ <<>> \in Seq(Op)
  BY ModesAreBytes, EmptySeq
<1>2. CASE \E n \in PinCounts \union {0} : Call("PinCount", <<>>, PinCount(n))
  <2>1. PICK n \in PinCounts \union {0} : Call("PinCount", <<>>, PinCount(n))
    BY <1>2
  <2>2. PinCount(n) \o <<>> = PinCount(n)
    <3>1. PinCount(n) \in Seq(Op)
      BY <1>b, PinCountThen
    <3> QED
      BY <3>1, ConcatEmptySeq
  <2>3. "PinCount" # "Write"
    OBVIOUS
  <2>4. PICK script : script = PinCount(n)
    OBVIOUS
  <2>5. Call("PinCount", <<>>, script) /\ script = PinCount(n) \o <<>>
    BY <2>1, <2>2, <2>4
  <2> QED
    BY <1>0, <1>1, <1>p, <1>b, <2>3, <2>5, PinCountCall
<1>3. CASE Call("SetVoltage", <<>>, SetVoltage(0))
  <2>1. PICK t \in Seq(Op) : t = WriteBytes(<<0>>) \o (Reads(1, 0) \o <<>>)
    BY BaseScripts
  <2>2. SetVoltage(0) = WriteBytes(<<VOLTAGE>>) \o (Reads(1, 0) \o t)
    BY <2>1, BaseScripts
  <2>3. ModeAsked(VOLTAGE, 1, 0, t)'
    BY <1>1, <2>1 DEF ModeAsked
  <2>4. "SetVoltage" # "Write"
    OBVIOUS
  <2>5. PICK script : script = SetVoltage(0)
    OBVIOUS
  <2>6. Call("SetVoltage", <<>>, script) /\ script = WriteBytes(<<VOLTAGE>>) \o (Reads(1, 0) \o t)
    BY <1>3, <2>2, <2>5
  <2> QED
    BY <1>0, <1>1, <1>b, <2>3, <2>4, <2>6, ModeCall
<1>4. CASE Call("Info", <<>>, Info)
  <2>1. PICK t \in Seq(Op) : t = Do("info")
    BY DoIs
  <2>2. Info = WriteBytes(<<INFO>>) \o (Reads(1, 0) \o t)
    BY <2>1, BaseScripts
  <2>3. ModeAsked(INFO, 1, 0, t)'
    BY <1>1, <2>1 DEF ModeAsked
  <2>4. "Info" # "Write"
    OBVIOUS
  <2>5. PICK script : script = Info
    OBVIOUS
  <2>6. Call("Info", <<>>, script) /\ script = WriteBytes(<<INFO>>) \o (Reads(1, 0) \o t)
    BY <1>4, <2>2, <2>5
  <2> QED
    BY <1>0, <1>1, <1>b, <2>3, <2>4, <2>6, ModeCall
<1>5. CASE Call("ID", <<>>, ID)
  <2>1. PICK t \in Seq(Op) : t = Do("text")
    BY DoIs
  <2>2. ID = WriteBytes(<<GID>>) \o (Reads(1, 0) \o t)
    BY <2>1, BaseScripts
  <2>3. ModeAsked(GID, 1, 0, t)'
    BY <1>1, <2>1 DEF ModeAsked
  <2>4. "ID" # "Write"
    OBVIOUS
  <2>5. PICK script : script = ID
    OBVIOUS
  <2>6. Call("ID", <<>>, script) /\ script = WriteBytes(<<GID>>) \o (Reads(1, 0) \o t)
    BY <1>5, <2>2, <2>5
  <2> QED
    BY <1>0, <1>1, <1>b, <2>3, <2>4, <2>6, ModeCall
<1>6. CASE Call("Ping", <<>>, Ping)
  <2>3. ModeAsked(PING, 2, 0, <<>>)'
    BY <1>1 DEF ModeAsked
  <2>4. "Ping" # "Write"
    OBVIOUS
  <2>5. PICK script : script = Ping
    OBVIOUS
  <2>6. Call("Ping", <<>>, script) /\ script = WriteBytes(<<PING>>) \o (Reads(2, 0) \o <<>>)
    BY <1>6, <2>5, BaseScripts
  <2> QED
    BY <1>0, <1>1, <1>b, <2>3, <2>4, <2>6, ModeCall
<1>7. CASE Call("Scan", <<>>, Scan)
  <2>3. ModeAsked(SCANBUS, 1, 1, <<>>)'
    BY <1>1, <1>p DEF ModeAsked
  <2>4. "Scan" # "Write"
    OBVIOUS
  <2>5. PICK script : script = Scan
    OBVIOUS
  <2>6. Call("Scan", <<>>, script) /\ script = WriteBytes(<<SCANBUS>>) \o (Reads(1, 1) \o <<>>)
    BY <1>7, <2>5, BaseScripts
  <2> QED
    BY <1>0, <1>1, <1>b, <2>3, <2>4, <2>6, ModeCall
<1> QED
  BY <1>2, <1>3, <1>4, <1>5, <1>6, <1>7 DEF BaseCall

\* A program creates an object.
LEMMA CreateStep == ASSUME Types, Talking, Create PROVE Types' /\ Talking'
<1> HIDE DEF Op, Byte, Types, Talking
<1>0. Idle /\ object = NOP /\ UNCHANGED <<port, failed, hostPins>> /\ "Create" # "Write"
  BY DEF Create
<1>b. 1 \in 0..3 /\ 0 \in Nat /\ 1 \in Nat /\ <<>> \in Seq(Op) /\ MONITOR \in Byte
  BY ModesAreBytes, EmptySeq
<1>1. ASSUME object' \in {GPIO, SPEEDTEST, XFER, PARALLEL}, config' \in Configs, Call("Create", <<>>, SetMode(object'))
      PROVE  Types' /\ Talking'
  <2>1. PICK m \in Byte : m = object'
    BY <1>1, ModesAreBytes
  <2>2. PICK script : script = SetMode(m)
    OBVIOUS
  <2>3. script = WriteBytes(<<m>>) \o (Reads(1, 0) \o <<>>)
    BY <2>2, ModeScript
  <2>4. Call("Create", <<>>, script)
    BY <1>1, <2>1, <2>2
  <2>5. m \in {GPIO, SPEEDTEST, XFER, PARALLEL} /\ m # MONITOR /\ m = object'
    BY <1>1, <2>1 DEF GPIO, SPEEDTEST, XFER, PARALLEL, MONITOR
  <2>6. ModeAsked(m, 1, 0, <<>>)'
    BY <2>5 DEF ModeAsked
  <2>7. object' \in {NOP, PARALLEL, GPIO, MONITOR, SPEEDTEST, XFER}
    BY <2>5
  <2> QED
    BY <1>0, <1>1, <1>b, <2>3, <2>4, <2>6, <2>7, ModeCall
<1>2. config \in Configs
  BY DEF Types
<1>3. CASE object' \in {GPIO, SPEEDTEST, XFER} /\ Call("Create", <<>>, SetMode(object')) /\ UNCHANGED config
  BY <1>1, <1>2, <1>3
<1>4. CASE object' = PARALLEL /\ config' \in Configs /\ Call("Create", <<>>, SetMode(PARALLEL))
  BY <1>1, <1>4
<1>5. CASE /\ object' = MONITOR
           /\ \E n \in PinCounts \union {0} : Call("Create", <<>>, PinCount(n) \o SetMode(MONITOR))
           /\ UNCHANGED config
  <2>1. PICK n \in PinCounts \union {0} : Call("Create", <<>>, PinCount(n) \o SetMode(MONITOR))
    BY <1>5
  <2>2. PICK t \in Seq(Op) : t = SetMode(MONITOR)
    BY <1>b, ModeScript
  <2>3. PICK script : script = PinCount(n) \o t
    OBVIOUS
  <2>4. Call("Create", <<>>, script)
    BY <2>1, <2>2, <2>3
  <2>5. PinsRead' = Do("pins") \o t /\ object' \in {NOP, MONITOR} /\ config' \in Configs
    BY <1>2, <1>5, <2>2 DEF PinsRead
  <2> QED
    BY <1>0, <2>3, <2>4, <2>5, PinCountCall
<1> QED
  BY <1>3, <1>4, <1>5 DEF Create

\* The modes of the objects.
LEMMA ModeIs ==
  /\ object = GPIO => ModePc = "gpio"
  /\ object = PARALLEL => ModePc = "conf"
  /\ object = MONITOR => ModePc = "monitor"
  /\ object = SPEEDTEST => ModePc = "speed"
  /\ object = XFER => ModePc = "xfer"
BY Modes DEF ModePc, NOP, GPIO, PARALLEL, MONITOR, SPEEDTEST, XFER

\* A record and its answer, nothing more.
LEMMA RecordOnly ==
  ASSUME NEW r \in Seq(Byte), NEW k \in Nat, NEW n \in Nat
  PROVE  /\ WriteBytes(r) \o Reads(k, n) = WriteBytes(r) \o (Reads(k, n) \o <<>>)
         /\ WriteBytes(r) \o Reads(k, 0) \o Reads(0, n) = WriteBytes(r) \o (Reads(k, n) \o <<>>)
         /\ WriteBytes(r) \o Reads(k, 0) \o Do("close") = WriteBytes(r) \o (Reads(k, 0) \o Do("close"))
<1> HIDE DEF Op, Byte
<1>0. 0 \in Nat /\ k + 0 = k
  OBVIOUS
<1>1. PICK w \in Seq(Op) : w = WriteBytes(r)
  BY Sends
<1>2. PICK x \in Seq(Op) : x = Reads(k, n)
  BY ReadsAre
<1>3. PICK y \in Seq(Op) : y = Reads(k, 0)
  BY <1>0, ReadsAre
<1>4. PICK z \in Seq(Op) : z = Reads(0, n)
  BY <1>0, ReadsAre
<1>5. x \o <<>> = x
  BY ConcatEmptySeq
<1>6. y \o z = x
  <2>1. Reads(k, 0) \o Reads(0, n) = Reads(k + 0, n)
    BY <1>0, ReadsJoin, Zenon
  <2> QED
    BY <1>0, <1>2, <1>3, <1>4, <2>1
<1>7. w \o y \o z = w \o (y \o z)
  BY OpsJoin, ZenonT(60)
<1>8. PICK c \in Seq(Op) : c = Do("close")
  BY DoIs
<1>9. w \o y \o c = w \o (y \o c)
  BY OpsJoin, ZenonT(60)
<1> QED
  BY <1>1, <1>2, <1>3, <1>4, <1>5, <1>6, <1>7, <1>8, <1>9

\* A program uses a GPIO object.
LEMMA GpioCallStep == ASSUME Types, Talking, GpioCall PROVE Types' /\ Talking'
<1> HIDE DEF Op, Byte, Types, Talking
<1>0. Idle /\ object = GPIO /\ UNCHANGED <<port, object, config, hostPins, failed>>
  BY DEF GpioCall
<1>1. /\ UNCHANGED <<port, failed, hostPins>> /\ object' = GPIO /\ config' \in Configs
      /\ object' \in {NOP, PARALLEL, GPIO, MONITOR, SPEEDTEST, XFER}
  BY <1>0 DEF Types
<1>b. 1 \in 0..3 /\ 0 \in Nat /\ 1 \in Nat /\ <<>> \in Seq(Op) /\ <<>> \in Seq(Byte)
  BY EmptySeq
<1>p. pc = "gpio"
  BY <1>0, ModeIs, NowIdle
<1>2. ASSUME NEW cmd \in {HIGH, LOW, READ}
      PROVE  <<cmd, 0>> \in Seq(Byte) /\ SendCommand(cmd) = WriteBytes(<<cmd, 0>>) \o Reads(1, 0)
  <2>1. cmd \in Byte /\ 0 \in Byte
    BY DEF Byte, HIGH, LOW, READ
  <2>2. <<cmd, 0>> \in Seq(Byte)
    BY <2>1
  <2>3. SendCommand(cmd) = WriteBytes(<<cmd, 0>>) \o Reads(1, 0)
    BY AckScript DEF SendCommand
  <2> QED
    BY <2>2, <2>3
<1>3. CASE \E cmd \in {HIGH, LOW} : Call("Pin", <<>>, SendCommand(cmd))
  <2>1. PICK cmd \in {HIGH, LOW} : Call("Pin", <<>>, SendCommand(cmd))
    BY <1>3
  <2>2. PICK r \in Seq(Byte) : r = <<cmd, 0>>
    BY <1>2, <2>1
  <2>3. PICK script : script = SendCommand(cmd)
    OBVIOUS
  <2>4. SendCommand(cmd) = WriteBytes(r) \o Reads(1, 0)
    BY <1>2, <2>1, <2>2
  <2>5. script = WriteBytes(r) \o (Reads(1, 0) \o <<>>) /\ Call("Pin", <<>>, script)
    BY <1>b, <2>1, <2>3, <2>4, RecordOnly
  <2>6. pc' = "gpio"
    BY <1>p, <2>1 DEF Call
  <2>7. RecordAsked(r, 1, 0, <<>>)'
    BY <1>1, <2>1, <2>2, <2>6 DEF RecordAsked
  <2>8. "Pin" # "Write"
    OBVIOUS
  <2> QED
    BY <1>0, <1>1, <1>b, <2>5, <2>7, <2>8, RecordCall
<1>4. CASE Call("ReadPin", <<>>, SendCommand(READ) \o ReadBytes(1))
  <2>1. READ \in {HIGH, LOW, READ}
    OBVIOUS
  <2>2. PICK r \in Seq(Byte) : r = <<READ, 0>>
    BY <1>2, <2>1
  <2>3. PICK script : script = SendCommand(READ) \o ReadBytes(1)
    OBVIOUS
  <2>4. SendCommand(READ) = WriteBytes(r) \o Reads(1, 0)
    BY <1>2, <2>1, <2>2
  <2>5. ReadBytes(1) = Reads(0, 1)
    BY <1>b, AckScript
  <2>6. script = WriteBytes(r) \o (Reads(1, 1) \o <<>>) /\ Call("ReadPin", <<>>, script)
    BY <1>b, <1>4, <2>3, <2>4, <2>5, RecordOnly, ZenonT(60)
  <2>7. pc' = "gpio"
    BY <1>p, <1>4 DEF Call
  <2>8. RecordAsked(r, 1, 1, <<>>)'
    BY <1>1, <2>2, <2>7 DEF RecordAsked
  <2>9. "ReadPin" # "Write"
    OBVIOUS
  <2> QED
    BY <1>0, <1>1, <1>b, <2>6, <2>8, <2>9, RecordCall
<1> QED
  BY <1>3, <1>4 DEF GpioCall

\* A 4-byte number of at most MaxCount is bytes.
LEMMA Pack32Is == ASSUME NEW n \in 0..MaxCount PROVE Pack32(n) \in Seq(Byte) /\ Len(Pack32(n)) = 2
<1>1. n \in 0..255
  BY LinkAssumption
<1>2. n % 256 \in Byte /\ n \div 256 \in Byte
  BY <1>1 DEF Byte
<1> HIDE DEF Byte
<1> QED
  BY <1>2 DEF Pack32

\* A program uses a Monitor object.
LEMMA SniffStep == ASSUME Types, Talking, Sniff PROVE Types' /\ Talking'
<1> HIDE DEF Op, Byte, Types, Talking
<1>0. Idle /\ object = MONITOR /\ UNCHANGED <<port, object, config, hostPins, failed>>
  BY DEF Sniff
<1>1. /\ UNCHANGED <<port, failed, hostPins>> /\ object' = MONITOR /\ config' \in Configs
      /\ object' \in {NOP, PARALLEL, GPIO, MONITOR, SPEEDTEST, XFER}
  BY <1>0 DEF Types
<1>b. 0 \in 0..3 /\ 0 \in Nat /\ <<>> \in Seq(Op) /\ <<>> \in Seq(Byte)
  BY EmptySeq
<1>p. pc = "monitor" /\ hostPins = numPins
  BY <1>0, ModeIs, NowIdle
<1>2. PICK n \in 1..MaxCount : Call("Sniff", <<>>, WriteBytes(Pack32(n)) \o ReadBytes(n * (hostPins \div PinsPerPort)))
  BY DEF Sniff
<1>3. PICK r \in Seq(Byte) : r = Pack32(n)
  <2>1. n \in 0..MaxCount
    BY LinkAssumption
  <2> QED
    BY <2>1, Pack32Is
<1>4. PICK m \in Nat : m = n * (hostPins \div PinsPerPort)
  <2>1. numPins \in PinCounts \union {BoardPins}
    BY DEF Types
  <2>2. numPins \div 8 \in Nat
    BY <2>1, PinsOfChips
  <2>3. PICK x \in Nat : x = hostPins \div PinsPerPort
    BY <1>p, <2>2 DEF PinsPerPort
  <2>4. n \in Nat
    BY LinkAssumption
  <2>5. n * x \in Nat
    BY <2>4
  <2> QED
    BY <2>3, <2>5
<1>5. PICK script : script = WriteBytes(r) \o Reads(0, m)
  OBVIOUS
<1>6. Call("Sniff", <<>>, script)
  BY <1>2, <1>3, <1>4, <1>5, AckScript
<1>7. script = WriteBytes(r) \o (Reads(0, m) \o <<>>)
  BY <1>b, <1>5, RecordOnly
<1>8. pc' = "monitor" /\ UNCHANGED numPins
  BY <1>p, <1>2 DEF Call
<1>9. RecordAsked(r, 0, m, <<>>)'
  <2>1. m = n * (hostPins' \div PinsPerPort) /\ hostPins' = numPins'
    BY <1>p, <1>1, <1>4, <1>8
  <2> QED
    BY <1>1, <1>3, <1>8, <2>1 DEF RecordAsked
<1>10. "Sniff" # "Write"
  OBVIOUS
<1> QED
  BY <1>0, <1>1, <1>b, <1>6, <1>7, <1>9, <1>10, RecordCall

\* A program makes a speed test or a transfer test.
LEMMA GoStep == ASSUME Types, Talking, Go PROVE Types' /\ Talking'
<1> HIDE DEF Op, Byte, Types, Talking
<1>0. Idle /\ object' = NOP /\ UNCHANGED <<port, config, hostPins, failed>>
  BY DEF Go
<1>1. /\ UNCHANGED <<port, failed, hostPins>> /\ config' \in Configs
      /\ object' \in {NOP, PARALLEL, GPIO, MONITOR, SPEEDTEST, XFER}
  BY <1>0 DEF Types
<1>b. 0 \in 0..3 /\ 0 \in Nat /\ <<>> \in Seq(Op) /\ <<>> \in Seq(Byte) /\ "Go" # "Write"
  BY EmptySeq
<1>2. CASE object = SPEEDTEST /\ \E n \in 1..MaxCount : Call("Go", <<>>, WriteBytes(Pack32(n)) \o ReadBytes(n))
  <2>1. PICK n \in 1..MaxCount : Call("Go", <<>>, WriteBytes(Pack32(n)) \o ReadBytes(n))
    BY <1>2
  <2>2. n \in 0..MaxCount /\ n \in Nat
    BY LinkAssumption
  <2>3. PICK r \in Seq(Byte) : r = Pack32(n)
    BY <2>2, Pack32Is
  <2>4. PICK script : script = WriteBytes(r) \o Reads(0, n)
    OBVIOUS
  <2>5. Call("Go", <<>>, script)
    BY <2>1, <2>2, <2>3, <2>4, AckScript
  <2>6. script = WriteBytes(r) \o (Reads(0, n) \o <<>>)
    BY <1>b, <2>2, <2>4, RecordOnly
  <2>7. pc' = "speed"
    BY <1>0, <1>2, <2>1, ModeIs, NowIdle DEF Call
  <2>8. RecordAsked(r, 0, n, <<>>)'
    BY <1>0, <2>3, <2>7 DEF RecordAsked
  <2> QED
    BY <1>0, <1>1, <1>b, <2>2, <2>5, <2>6, <2>8, RecordCall
<1>3. CASE object = XFER /\ \E d \in Bytes(XferSize) : Call("Go", d, WriteBytes(d) \o ReadBytes(XferSize))
  <2>1. PICK d \in Bytes(XferSize) : Call("Go", d, WriteBytes(d) \o ReadBytes(XferSize))
    BY <1>3
  <2>2. XferSize \in Nat /\ XferSize = 2
    BY DEF XferSize
  <2>3. d \in Seq(Byte) /\ Len(d) = XferSize
    <3>1. Samples \subseteq Byte
      BY LinkAssumption DEF Byte
    <3>2. PICK m \in Nat : m = XferSize
      BY <2>2
    <3>3. d \in [1..m -> Samples]
      BY <2>1, <3>2 DEF Bytes
    <3>4. d \in [1..m -> Byte]
      BY <3>1, <3>3
    <3>5. d \in Seq(Byte) /\ Len(d) = m
      BY <3>4
    <3> QED
      BY <3>2, <3>5
  <2>4. PICK script : script = WriteBytes(d) \o Reads(0, XferSize)
    OBVIOUS
  <2>5. Call("Go", d, script)
    BY <2>1, <2>2, <2>4, AckScript
  <2>6. script = WriteBytes(d) \o (Reads(0, XferSize) \o <<>>)
    BY <1>b, <2>2, <2>3, <2>4, RecordOnly
  <2>7. pc' = "xfer"
    BY <1>0, <1>3, <2>1, ModeIs, NowIdle DEF Call
  <2>8. RecordAsked(d, 0, XferSize, <<>>)'
    BY <1>0, <2>3, <2>7 DEF RecordAsked
  <2> QED
    BY <1>0, <1>1, <1>b, <2>2, <2>3, <2>5, <2>6, <2>8, RecordCall
<1> QED
  BY <1>2, <1>3 DEF Go

\* The records of a Parallel object, and their scripts.
LEMMA PackIs ==
  ASSUME Types, NEW a \in {READ, WRITE, COMMAND, EXIT}, NEW c \in 0..255
  PROVE  Pack(a, c) \in Seq(Byte)
<1> HIDE DEF Types
<1>1. a \in Byte /\ c \in Byte /\ config.size \in Byte /\ config.pins \in Byte
  BY ConfigIs DEF Byte, READ, WRITE, COMMAND, EXIT
<1> HIDE DEF Byte
<1> QED
  BY <1>1 DEF Pack

\* The scripts of a Parallel object: two or three acknowledgements and the rest.
LEMMA ParallelScripts ==
  ASSUME NEW r \in Seq(Byte), NEW n \in Nat, NEW t \in Seq(Op)
  PROVE  /\ WriteBytes(r) \o ReadAck \o ReadAck \o ReadBytes(n) = WriteBytes(r) \o (Reads(2, n) \o <<>>)
         /\ WriteBytes(r) \o ReadAck \o ReadAck \o ReadAck = WriteBytes(r) \o (Reads(3, 0) \o <<>>)
         /\ WriteBytes(r) \o ReadAck \o ReadAck \o t = WriteBytes(r) \o (Reads(2, 0) \o t)
<1> HIDE DEF Op, Byte
<1>n. 0 \in Nat /\ 1 \in Nat /\ 2 \in Nat /\ 3 \in Nat /\ 1 + 1 = 2 /\ 2 + 0 = 2 /\ 2 + 1 = 3
  OBVIOUS
<1>1. PICK w \in Seq(Op) : w = WriteBytes(r)
  BY Sends
<1>2. PICK a \in Seq(Op) : a = ReadAck
  BY AckScript
<1>3. PICK b \in Seq(Op) : b = Reads(2, 0)
  BY <1>n, ReadsAre
<1>4. a \o a = b
  <2>1. Reads(1, 0) \o Reads(1, 0) = Reads(1 + 1, 0)
    BY <1>n, ReadsJoin, ZenonT(60)
  <2> QED
    BY <1>2, <1>3, <2>1, <1>n, AckScript
<1>5. w \o a \o a = w \o b
  <2>1. w \o a \o a = w \o (a \o a)
    BY OpsJoin, ZenonT(60)
  <2> QED
    BY <1>4, <2>1
<1>6. ASSUME NEW u \in Seq(Op)
      PROVE  w \o a \o a \o u = w \o (b \o u)
  <2>1. w \o b \o u = w \o (b \o u)
    BY OpsJoin, ZenonT(60)
  <2> QED
    BY <1>5, <2>1
<1>7. WriteBytes(r) \o ReadAck \o ReadAck \o ReadBytes(n) = WriteBytes(r) \o (Reads(2, n) \o <<>>)
  <2>1. PICK u \in Seq(Op) : u = ReadBytes(n)
    BY AckScript
  <2>2. Reads(2, 0) \o Reads(0, n) = Reads(2 + 0, n)
    BY <1>n, ReadsJoin, ZenonT(60)
  <2>3. b \o u = Reads(2, n)
    BY <1>3, <1>n, <2>1, <2>2, AckScript
  <2>4. Reads(2, n) \in Seq(Op)
    BY <1>n, ReadsAre
  <2>5. Reads(2, n) \o <<>> = Reads(2, n)
    BY <2>4, ConcatEmptySeq
  <2>6. w \o a \o a \o u = w \o (b \o u)
    BY <1>6
  <2> QED
    BY <1>1, <1>2, <2>1, <2>3, <2>5, <2>6
<1>8. WriteBytes(r) \o ReadAck \o ReadAck \o ReadAck = WriteBytes(r) \o (Reads(3, 0) \o <<>>)
  <2>1. Reads(2, 0) \o Reads(1, 0) = Reads(2 + 1, 0)
    BY <1>n, ReadsJoin, ZenonT(60)
  <2>2. b \o a = Reads(3, 0)
    BY <1>2, <1>3, <1>n, <2>1, AckScript
  <2>3. Reads(3, 0) \in Seq(Op)
    BY <1>n, ReadsAre
  <2>4. Reads(3, 0) \o <<>> = Reads(3, 0)
    BY <2>3, ConcatEmptySeq
  <2>5. w \o a \o a \o a = w \o (b \o a)
    BY <1>6
  <2> QED
    BY <1>1, <1>2, <2>2, <2>4, <2>5
<1>9. WriteBytes(r) \o ReadAck \o ReadAck \o t = WriteBytes(r) \o (Reads(2, 0) \o t)
  BY <1>1, <1>2, <1>3, <1>6
<1> QED
  BY <1>7, <1>8, <1>9

\* A program uses a Parallel object.
LEMMA ParallelCallStep == ASSUME Types, Talking, ParallelCall PROVE Types' /\ Talking'
<1> HIDE DEF Op, Byte, Types, Talking
<1>0. Idle /\ object = PARALLEL /\ UNCHANGED <<port, object, config, hostPins, failed>>
  BY DEF ParallelCall
<1>1. /\ UNCHANGED <<port, failed, hostPins>> /\ object' = PARALLEL /\ config' \in Configs
      /\ object' \in {NOP, PARALLEL, GPIO, MONITOR, SPEEDTEST, XFER}
  BY <1>0 DEF Types
<1>b. 2 \in 0..3 /\ 3 \in 0..3 /\ 0 \in Nat /\ <<>> \in Seq(Op) /\ <<>> \in Seq(Byte) /\ 0 \in 0..255
  BY EmptySeq
<1>p. pc = "conf"
  BY <1>0, ModeIs, NowIdle
<1>c. Count \subseteq 0..255 /\ Count' = Count /\ Count \subseteq Nat
  BY <1>0, LinkAssumption DEF Count
<1>2. CASE \E n \in Count :
             Call("Read", <<>>, WriteBytes(Pack(READ, n)) \o ReadAck \o ReadAck \o ReadBytes(n))
  <2>1. PICK n \in Count : Call("Read", <<>>, WriteBytes(Pack(READ, n)) \o ReadAck \o ReadAck \o ReadBytes(n))
    BY <1>2
  <2>2. PICK r \in Seq(Byte) : r = Pack(READ, n)
    <3>1. n \in 0..255
      BY <1>c
    <3> QED
      BY <3>1, PackIs
  <2>3. PICK script : script = WriteBytes(r) \o ReadAck \o ReadAck \o ReadBytes(n)
    OBVIOUS
  <2>4. Call("Read", <<>>, script)
    BY <2>1, <2>2, <2>3
  <2>5. n \in Nat
    BY <1>c
  <2>6. script = WriteBytes(r) \o (Reads(2, n) \o <<>>)
    BY <1>b, <2>3, <2>5, ParallelScripts
  <2>7. pc' = "conf"
    BY <1>p, <2>1 DEF Call
  <2>8. r = Pack(READ, n)' /\ n \in Count'
    BY <1>0, <1>c, <2>2 DEF Pack
  <2>9. RecordAsked(r, 2, n, <<>>)'
    BY <1>1, <2>7, <2>8 DEF RecordAsked
  <2>10. "Read" # "Write"
    OBVIOUS
  <2> QED
    BY <1>0, <1>1, <1>b, <2>4, <2>5, <2>6, <2>9, <2>10, RecordCall
<1>3. CASE \E n \in Count : \E d \in Bytes(n) : Call("Write", d, WriteScript(d))
  <2>0. PICK n \in Count : \E d \in Bytes(n) : Call("Write", d, WriteScript(d))
    BY <1>3
  <2>1. PICK d \in Bytes(n) : Call("Write", d, WriteScript(d))
    BY <2>0
  <2>2. n \in Nat /\ n \in 0..255
    BY <1>c
  <2>3. d \in Seq(Byte) /\ Len(d) = n
    <3>1. Samples \subseteq Byte
      BY LinkAssumption DEF Byte
    <3>2. d \in [1..n -> Byte]
      BY <2>1, <3>1 DEF Bytes
    <3> QED
      BY <2>2, <3>2
  <2>4. PICK r \in Seq(Byte) : r = Pack(WRITE, n)
    BY <2>2, PackIs
  <2>5. PICK t \in Seq(Op) : t = BytesAcked(d)
    BY <2>3, AckedIs
  <2>6. PICK script : script = WriteBytes(r) \o ReadAck \o ReadAck \o t
    OBVIOUS
  <2>7. script = WriteBytes(r) \o (Reads(2, 0) \o t)
    BY <1>b, <2>6, ParallelScripts
  <2>8. Call("Write", d, script)
    BY <2>1, <2>3, <2>4, <2>5, <2>6 DEF WriteScript
  <2>9. script \in Seq(Op)
    <3>1. PICK w \in Seq(Op) : w = WriteBytes(r)
      BY Sends
    <3>2. 2 \in Nat
      OBVIOUS
    <3>3. PICK x \in Seq(Op) : x = Reads(2, 0)
      BY <1>b, <3>2, ReadsAre
    <3>4. x \o t \in Seq(Op)
      BY OpsJoined
    <3>5. w \o (x \o t) \in Seq(Op)
      BY <3>4, OpsJoined
    <3> QED
      BY <2>7, <3>1, <3>3, <3>5
  <2>10. call' = [name |-> "Write", data |-> d] /\ written' = <<>> /\ pc' = "conf"
    BY <1>p, <2>8 DEF Call
  <2>11. call'.name = "Write" /\ call'.data = d
    BY <2>10
  <2>12. r = Pack(WRITE, n)' /\ n \in Count'
    BY <1>0, <1>c, <2>4 DEF Pack
  <2>13. Expects(r, 2, 0, t)'
    <3>1. WriteAsked(r, 2, 0, t)'
      BY <1>1, <2>3, <2>5, <2>10, <2>11, <2>12 DEF WriteAsked
    <3> QED
      BY <3>1 DEF Expects
  <2> QED
    BY <1>0, <1>1, <1>b, <2>3, <2>7, <2>8, <2>9, <2>13, CallStep
<1>4. CASE Call("ExecuteCommands", <<>>, WriteBytes(Pack(COMMAND, 0)) \o ReadAck \o ReadAck \o ReadAck)
  <2>2. PICK r \in Seq(Byte) : r = Pack(COMMAND, 0)
    BY <1>b, PackIs
  <2>3. PICK script : script = WriteBytes(r) \o ReadAck \o ReadAck \o ReadAck
    OBVIOUS
  <2>4. Call("ExecuteCommands", <<>>, script)
    BY <1>4, <2>2, <2>3
  <2>6. script = WriteBytes(r) \o (Reads(3, 0) \o <<>>)
    BY <1>b, <2>3, ParallelScripts
  <2>7. pc' = "conf"
    BY <1>p, <1>4 DEF Call
  <2>8. r = Pack(COMMAND, 0)'
    BY <1>0, <2>2 DEF Pack
  <2>9. RecordAsked(r, 3, 0, <<>>)'
    BY <1>1, <2>7, <2>8 DEF RecordAsked
  <2>10. "ExecuteCommands" # "Write"
    OBVIOUS
  <2> QED
    BY <1>0, <1>1, <1>b, <2>4, <2>6, <2>9, <2>10, RecordCall
<1> QED
  BY <1>2, <1>3, <1>4 DEF ParallelCall

\* Two streams, the board and the port, when nothing is under way.
LEMMA OnlyClose ==
  ASSUME port' = "open", failed' = FALSE, toBoard' = <<>>, toHost' = <<>>, taken' = <<>>, produced' = <<>>,
         todo' = Do("close"), pc' = "main", buf' = <<>>
  PROVE  Talking'
<1> HIDE DEF Op, Byte
<1>1. PICK t \in Seq(Op) : t = Do("close")
  BY DoIs
<1>2. Quiet(t)'
  BY <1>1 DEF Quiet
<1>3. <<>> \in Seq(Byte) /\ Len(<<>>) = 0 /\ 0 \in 0..3
  BY EmptySeq
<1>4. Acks(0) \o <<>> = <<>> /\ <<>> \o <<>> = <<>> /\ Reads(0, 0) \o t = t
  BY <1>3, AcksNone, ReadNone, ConcatEmptySeq
<1>5. toHost' = Acks(0) \o <<>> /\ produced' = taken' \o <<>> /\ todo' = Reads(0, Len(<<>>)) \o t
  BY <1>1, <1>3, <1>4
<1> QED
  BY <1>2, <1>3, <1>5, HearsNext

\* The _exit of each class, and the Close after it.
LEMMA MonitorExit ==
  ASSUME NEW r \in Seq(Byte)
  PROVE  /\ WriteBytes(r) \o ReadAck \o SetMode(SCANBUS) \o ReadBytes(1) \o Do("close")
              = WriteBytes(r) \o (Reads(1, 0) \o (WriteBytes(<<SCANBUS>>) \o (Reads(1, 1) \o Do("close"))))
         /\ WriteBytes(<<SCANBUS>>) \o (Reads(1, 1) \o Do("close")) \in Seq(Op)
<1> HIDE DEF Op, Byte
<1>n. 0 \in Nat /\ 1 \in Nat /\ SCANBUS \in Byte
  BY ModesAreBytes
<1>1. PICK w \in Seq(Op) : w = WriteBytes(r)
  BY Sends
<1>2. PICK a \in Seq(Op) : a = ReadAck
  BY AckScript
<1>3. PICK m \in Seq(Op) : m = SetMode(SCANBUS)
  BY <1>n, ModeScript
<1>4. PICK b \in Seq(Op) : b = ReadBytes(1)
  BY <1>n, AckScript
<1>5. PICK c \in Seq(Op) : c = Do("close")
  BY DoIs
<1>6. PICK x \in Seq(Op) : x = m \o b \o c
  <2>1. m \o b \in Seq(Op)
    BY OpsJoined
  <2> QED
    BY <2>1, OpsJoined
<1>7. w \o a \o m \o b \o c = w \o (a \o x)
  <2>5. w \o a \o x = w \o (a \o x)
    BY OpsJoin, ZenonT(60)
  <2>1. PICK y \in Seq(Op) : y = w \o a
    BY OpsJoined
  <2>2. y \o m \o b = y \o (m \o b)
    BY OpsJoin, ZenonT(60)
  <2>3. PICK z \in Seq(Op) : z = m \o b
    BY OpsJoined
  <2>4. y \o z \o c = y \o (z \o c)
    BY OpsJoin, ZenonT(60)
  <2> QED
    BY <1>6, <2>1, <2>2, <2>3, <2>4, <2>5
<1>8. x = WriteBytes(<<SCANBUS>>) \o (Reads(1, 1) \o c)
  <2>1. \A n \in Nat : SetMode(SCANBUS) \o ReadBytes(n) \o c = WriteBytes(<<SCANBUS>>) \o (Reads(1, n) \o c)
    BY <1>n, SetModeThen, ZenonT(60)
  <2> QED
    BY <1>n, <1>3, <1>4, <1>6, <2>1
<1> QED
  BY <1>1, <1>2, <1>3, <1>4, <1>5, <1>6, <1>7, <1>8, AckScript

\* A program closes its object.
LEMMA CloseStep == ASSUME Types, Talking, Habits = {}, Close PROVE Types' /\ Talking'
<1> HIDE DEF Op, Byte, Types, Talking
<1>0. Idle /\ UNCHANGED <<port, object, config, hostPins>> /\ object \notin {SPEEDTEST, XFER} /\ failed' = FALSE
  BY DEF Close, Idle
<1>i. failed = FALSE /\ pc = ModePc /\ (object = MONITOR => hostPins = numPins)
  BY <1>0, NowIdle
<1>1. /\ UNCHANGED <<port, failed, hostPins>> /\ object' = object /\ config' \in Configs
      /\ object' \in {NOP, PARALLEL, GPIO, MONITOR, SPEEDTEST, XFER}
  BY <1>0, <1>i DEF Types
<1>b. 1 \in 0..3 /\ 0 \in Nat /\ 1 \in Nat /\ <<>> \in Seq(Byte) /\ "Close" # "Write" /\ 0 \in 0..255
  BY EmptySeq
<1>c. Call("Close", <<>>, ExitScript \o Do("close"))
  BY DEF Close
<1>k. PICK c \in Seq(Op) : c = Do("close")
  BY DoIs
<1>m. object \in {NOP, PARALLEL, GPIO, MONITOR}
  BY <1>0, <1>1
<1>2. CASE object = NOP
  <2>1. ExitScript = <<>>
    BY <1>2 DEF ExitScript, NOP, PARALLEL, GPIO, MONITOR
  <2>2. ExitScript \o Do("close") = Do("close")
    BY <1>k, <2>1, ConcatEmptySeq
  <2>3. PICK script \in Seq(Op) : script = Do("close")
    BY <1>k
  <2>4. Call("Close", <<>>, script)
    BY <1>c, <2>2, <2>3
  <2>5. Types'
    BY <1>0, <1>1, <1>b, <2>4, CallTypes
  <2>6. /\ port' = "open" /\ failed' = FALSE /\ toHost' = <<>> /\ toBoard' = <<>> /\ buf' = <<>>
        /\ taken' = <<>> /\ produced' = <<>> /\ todo' = script /\ pc' = ModePc
    BY <1>0, <1>1, <1>b, <2>4, CallFrom
  <2>7. pc' = "main"
    BY <1>2, <2>6 DEF ModePc
  <2>8. Talking'
    BY <2>3, <2>6, <2>7, OnlyClose
  <2> QED
    BY <2>5, <2>8
<1>3. CASE object = GPIO
  <2>1. PICK r \in Seq(Byte) : r = <<EXIT, 0>>
    <3>1. EXIT \in Byte /\ 0 \in Byte
      BY DEF Byte, EXIT
    <3>2. \A e, z \in Byte : <<e, z>> \in Seq(Byte)
      OBVIOUS
    <3> QED
      BY <3>1, <3>2
  <2>2. ExitScript = WriteBytes(r) \o Reads(1, 0)
    <3>1. ExitScript = GpioExit
      BY <1>3 DEF ExitScript, NOP, PARALLEL, GPIO, MONITOR
    <3> QED
      BY <2>1, <3>1, AckScript DEF GpioExit, SendCommand
  <2>3. PICK script : script = ExitScript \o Do("close")
    OBVIOUS
  <2>4. script = WriteBytes(r) \o (Reads(1, 0) \o c)
    <3>1. WriteBytes(r) \o Reads(1, 0) \o Do("close") = WriteBytes(r) \o (Reads(1, 0) \o Do("close"))
      BY <1>b, RecordOnly
    <3> QED
      BY <1>k, <2>2, <2>3, <3>1
  <2>5. Call("Close", <<>>, script)
    BY <1>c, <2>3
  <2>6. pc' = "gpio"
    BY <1>3, <1>i, <1>c, ModeIs DEF Call
  <2>7. RecordAsked(r, 1, 0, c)'
    BY <1>1, <1>3, <1>k, <2>1, <2>6 DEF RecordAsked
  <2> QED
    BY <1>0, <1>1, <1>b, <2>4, <2>5, <2>7, RecordCall
<1>4. CASE object = PARALLEL
  <2>1. PICK r \in Seq(Byte) : r = Pack(EXIT, 0)
    BY <1>b, PackIs
  <2>2. ExitScript = WriteBytes(r) \o Reads(1, 0)
    <3>1. ExitScript = WriteBytes(Pack(EXIT, 0)) \o ReadAck
      BY <1>4 DEF ExitScript, NOP, PARALLEL, GPIO, MONITOR
    <3> QED
      BY <2>1, <3>1, AckScript
  <2>3. PICK script : script = ExitScript \o Do("close")
    OBVIOUS
  <2>4. script = WriteBytes(r) \o (Reads(1, 0) \o c)
    <3>1. WriteBytes(r) \o Reads(1, 0) \o Do("close") = WriteBytes(r) \o (Reads(1, 0) \o Do("close"))
      BY <1>b, RecordOnly
    <3> QED
      BY <1>k, <2>2, <2>3, <3>1
  <2>5. Call("Close", <<>>, script)
    BY <1>c, <2>3
  <2>6. pc' = "conf"
    BY <1>4, <1>i, <1>c, ModeIs DEF Call
  <2>7. r = Pack(EXIT, 0)'
    BY <1>0, <2>1 DEF Pack
  <2>8. RecordAsked(r, 1, 0, c)'
    BY <1>1, <1>4, <1>k, <2>6, <2>7 DEF RecordAsked
  <2> QED
    BY <1>0, <1>1, <1>b, <2>4, <2>5, <2>8, RecordCall
<1>5. CASE object = MONITOR
  <2>1. PICK r \in Seq(Byte) : r = Pack32(0)
    <3>1. 0 \in 0..MaxCount
      BY LinkAssumption
    <3> QED
      BY <3>1, Pack32Is
  <2>2. PICK t \in Seq(Op) : t = WriteBytes(<<SCANBUS>>) \o (Reads(1, 1) \o Do("close"))
    BY MonitorExit, <2>1
  <2>3. PICK script : script = ExitScript \o Do("close")
    OBVIOUS
  <2>4. script = WriteBytes(r) \o (Reads(1, 0) \o t)
    <3>1. ExitScript = WriteBytes(Pack32(0)) \o ReadAck \o SetMode(SCANBUS) \o ReadBytes(1)
      BY <1>5 DEF ExitScript, NOP, PARALLEL, GPIO, MONITOR
    <3> QED
      BY <2>1, <2>2, <2>3, <3>1, MonitorExit
  <2>5. Call("Close", <<>>, script)
    BY <1>c, <2>3
  <2>6. pc' = "monitor" /\ UNCHANGED numPins
    BY <1>5, <1>i, <1>c, ModeIs DEF Call
  <2>7. RecordAsked(r, 1, 0, t)'
    <3>1. hostPins' = numPins'
      BY <1>1, <1>5, <1>i, <2>6
    <3> QED
      BY <1>1, <1>5, <2>1, <2>2, <2>6, <3>1 DEF RecordAsked
  <2> QED
    BY <1>0, <1>1, <1>b, <2>4, <2>5, <2>7, RecordCall
<1> QED
  BY <1>m, <1>2, <1>3, <1>4, <1>5

\* A program opens the port.
LEMMA OpenStep == ASSUME Types, Talking, Open PROVE Types' /\ Talking'
<1> HIDE DEF Op, Byte
<1>1. /\ port = "closed" /\ port' = "open" /\ object' = NOP /\ hostPins' = 0
      /\ call' = [name |-> "Open", data |-> <<>>] /\ todo' = <<>>
      /\ taken' = <<>> /\ produced' = <<>> /\ written' = <<>>
      /\ UNCHANGED <<config, failed, toBoard, toHost, pc, buf, numPins, hconfig, i>>
  BY DEF Open, Call
<1>2. failed = FALSE /\ toHost = <<>> /\ pc = "main" /\ buf = <<>> /\ toBoard = <<>>
  BY <1>1 DEF Talking, Closed, Listens
<1>3. call'.name = "Open" /\ call'.data = <<>> /\ <<>> \in Seq(Byte) /\ <<>> \in Seq(Op)
  BY <1>1, EmptySeq
<1>4. Types'
  BY <1>1, <1>2, <1>3 DEF Types
<1>5. Talking'
  <2>1. "Open" # "Write"
    OBVIOUS
  <2>2. call'.name # "Write"
    BY <1>3, <2>1
  <2> HIDE DEF Talking
  <2> QED
    BY <1>1, <1>2, <1>3, <2>2, TextEnds
<1> QED
  BY <1>4, <1>5

\* A program ends.
LEMMA ProcessEndsStep == ASSUME Types, Talking, ProcessEnds PROVE Types' /\ Talking'
<1> HIDE DEF Op, Byte
<1>1. /\ port = "open" /\ (failed \/ (Idle /\ object = NOP))
      /\ port' = "closed" /\ todo' = <<>> /\ failed' = FALSE /\ toHost' = <<>>
      /\ UNCHANGED <<object, config, hostPins, call, taken, toBoard, pc, buf, numPins, hconfig, i, produced, written>>
  BY DEF ProcessEnds, boardVars
<1>2. Types'
  <2>1. <<>> \in Seq(Byte) /\ <<>> \in Seq(Op)
    BY EmptySeq
  <2> QED
    BY <1>1, <2>1 DEF Types
<1>3. Listens("main")
  <2>1. CASE failed
    BY <1>1, <2>1 DEF Talking, Rejected, Closed
  <2>2. CASE Idle /\ object = NOP
    <3> HIDE DEF Types, Talking
    <3> QED
      BY <2>2, NowIdle DEF Listens, ModePc
  <2> QED
    BY <1>1, <2>1, <2>2
<1>4. Closed'
  BY <1>1, <1>3 DEF Closed, Listens
<1> QED
  BY <1>2, <1>4 DEF Talking

\* The conversation is the same after a step that changes nothing.
LEMMA Stutters == ASSUME Types, Talking, UNCHANGED vars PROVE Types' /\ Talking'
<1> HIDE DEF Op, Byte
<1>1. UNCHANGED <<port, object, config, hostPins, call, todo, taken, failed, toBoard, toHost, pc, buf, numPins, hconfig, i,
                  produced, written>>
  BY DEF vars, hostVars, boardVars
<1>2. Types'
  BY <1>1 DEF Types
<1>3. UNCHANGED topic /\ UNCHANGED <<topic, buf, produced>>
  BY <1>1 DEF topic
<1> SUFFICES Talking'
  BY <1>2
<1> HIDE DEF Types
<1>4. CASE port = "open" /\ failed = FALSE /\ Asking
  <2>1. Asks(buf \o toBoard, todo)
    BY <1>4 DEF Asking
  <2>2. PICK q, t : q = buf \o toBoard /\ t = todo
    OBVIOUS
  <2>3. Asks(q, t)'
    BY <1>3, <2>1, <2>2, AsksSame
  <2>4. buf' \o toBoard' = q /\ todo' = t
    BY <1>1, <2>2
  <2>5. Asks(buf \o toBoard, todo)'
    BY <2>3, <2>4
  <2> QED
    BY <1>1, <1>4, <2>5 DEF Asking, Talking
<1>5. CASE port = "open" /\ failed = FALSE /\ Hearing
  <2>1. PICK k \in 0..3, d \in Seq(Byte), t \in Seq(Op) :
          toHost = Acks(k) \o d /\ produced = taken \o d /\ todo = Reads(k, Len(d)) \o t /\ Quiet(t)
    BY <1>5 DEF Hearing
  <2>2. Quiet(t)'
    BY <1>3, <2>1, QuietSame
  <2>3. toBoard' = <<>>
    BY <1>1, <1>5 DEF Hearing
  <2> QED
    BY <1>1, <1>5, <2>1, <2>2, <2>3, HearsNext
<1>6. CASE port = "open" /\ failed = FALSE /\ HearingText
  BY <1>1, <1>6 DEF Talking, HearingText, Listens
<1>7. CASE port = "open" /\ Rejected
  BY <1>1, <1>7 DEF Talking, Rejected, Listens
<1>8. CASE Closed
  BY <1>1, <1>8 DEF Talking, Closed, Listens
<1> QED
  BY <1>2, <1>4, <1>5, <1>6, <1>7, <1>8, Zenon DEF Talking

\* The conversation starts.
LEMMA Starts == ASSUME Init PROVE Types /\ Talking
<1>1. <<>> \in Seq(Byte) /\ <<>> \in Seq(Op) /\ Len(<<>>) = 0
  BY EmptySeq
<1>2. Types
  <2>1. call.data = <<>>
    BY DEF Init
  <2>2. Want["main"] = 1 /\ "main" \in DOMAIN Want
    BY DEF Want
  <2>3. hconfig.count = 0 /\ hconfig.size = 1 /\ WholeWords(0, 1) = 0
    BY DEF Init, WholeWords
  <2>4. hconfig \in [count : 0..255, size : {1, 2}] /\ i \in 0..WholeWords(hconfig.count, hconfig.size)
    BY <2>3 DEF Init
  <2> HIDE DEF Op, Byte, Want, WholeWords
  <2> QED
    BY <1>1, <2>1, <2>2, <2>4 DEF Init, Types
<1>3. Closed
  BY DEF Init, Closed, Listens
<1> QED
  BY <1>2, <1>3 DEF Talking

-----------------------------------------------------------------------------
(* The conversation is kept for ever.                                      *)

\* Programs stop at the first exception, as a Python program that catches none.
ProgramsStopAtErrors == Habits = {}

\* Every step keeps the conversation.
LEMMA NextKeeps ==
  ASSUME ProgramsStopAtErrors, Types, Talking, [Next]_vars
  PROVE  Types' /\ Talking'
<1> HIDE DEF Types, Talking
<1>1. CASE Program
  <2>1. Habits = {}
    BY DEF ProgramsStopAtErrors
  <2> QED
    BY <1>1, <2>1, OpenStep, BaseCallStep, CreateStep, GpioCallStep, SniffStep, GoStep, ParallelCallStep, CloseStep,
       ProcessEndsStep DEF Program
<1>2. CASE Library
  BY <1>2, HostSendStep, HostByteStep, HostLineStep, HostPinsStep, HostCloseStep DEF Library
<1>3. CASE Firmware
  BY <1>3, FwByteStep, FwCommandStep, FwSetPinCountStep, FwVoltageStep, FwTestStep, FwGpioStep, FwMonitorStep,
     FwRejectStep, FwExitParallelStep, FwActionStep, FwFirstByteStep, FwWordStep DEF Firmware
<1>4. CASE UNCHANGED vars
  BY <1>4, Stutters
<1> QED
  BY <1>1, <1>2, <1>3, <1>4 DEF Next

\* At every moment of every session of such programs, what the library still
\* does with the port and what the firmware waits for fit together: the library
\* is sending a record the firmware expects, or reading an answer to one it has
\* sent, or nothing is under way (Talking, over the types of Types).
THEOREM Conversation == ASSUME ProgramsStopAtErrors PROVE Spec => [](Types /\ Talking)
<1> HIDE DEF Types, Talking
<1>1. Init => Types /\ Talking
  BY Starts
<1>2. Types /\ Talking /\ [Next]_vars => (Types /\ Talking)'
  BY NextKeeps
<1> QED
  BY <1>1, <1>2, PTL DEF Spec

-----------------------------------------------------------------------------
(* What it means for the programs and the board.                           *)

\* The types of HostLink.TypeOK follow.
LEMMA TypesHold == ASSUME Types, Talking PROVE TypeOK
<1>1. port \in {"open", "closed"} /\ config \in Configs /\ pc \in DOMAIN Want /\ Len(buf) <= Want[pc]
      /\ numPins \in PinCounts \union {BoardPins} /\ i \in 0..WholeWords(hconfig.count, hconfig.size)
  BY DEF Types
<1>2. object \in {NOP} \union DOMAIN ModeOf
  BY Modes DEF Types
<1>3. hostPins \in 0..BoardPins
  <2>1. hostPins \in {0, BoardPins} \union PinCounts
    BY DEF Types
  <2>2. BoardPins \in 1..128 /\ \A n \in PinCounts : n \in 1..BoardPins
    BY LinkAssumption
  <2> QED
    BY <2>1, <2>2
<1>4. failed \in BOOLEAN
  BY DEF Talking, Rejected, Closed
<1>5. \A s \in {taken, toBoard, toHost, buf, produced, written} : s \in Seq(Byte)
  BY DEF Types
<1>6. \A s \in Seq(Byte) : \A k \in DOMAIN s : s[k] \in 0..255
  <2> HIDE DEF Byte
  <2>1. ASSUME NEW s \in Seq(Byte), NEW k \in DOMAIN s
        PROVE  s[k] \in Byte
    <3>1. DOMAIN s = 1..Len(s) /\ Len(s) \in Nat
      OBVIOUS
    <3>2. k \in 1..Len(s)
      BY <3>1
    <3> QED
      BY <3>1, <3>2
  <2> QED
    BY <2>1 DEF Byte
<1>7. \A s \in {taken, toBoard, toHost, buf, produced, written} : \A k \in DOMAIN s : s[k] \in 0..255
  BY <1>5, <1>6, ZenonT(60)
<1> QED
  BY <1>1, <1>2, <1>3, <1>4, <1>7 DEF TypeOK

\* So do the properties of a program between two calls.
LEMMA SyncHolds ==
  ASSUME Types, Talking
  PROVE  InSync /\ DataDelivered /\ WriteDelivers
<1> HIDE DEF Types, Talking
<1>1. CASE Idle
  <2>1. /\ toBoard = <<>> /\ toHost = <<>> /\ taken = produced /\ buf = <<>> /\ pc = ModePc
        /\ object = MONITOR => hostPins = numPins
        /\ call.name = "Write" => written = call.data
    BY <1>1, NowIdle
  <2>2. pc = IF object = NOP THEN "main" ELSE ModeOf[object]
    BY <2>1 DEF ModePc
  <2> QED
    BY <2>1, <2>2 DEF InSync, DataDelivered, WriteDelivers, Listens
<1>2. CASE ~Idle
  BY <1>2 DEF InSync, DataDelivered, WriteDelivers
<1> QED
  BY <1>1, <1>2

\* And those of a rejection and of a closed port.
LEMMA RejectHolds ==
  ASSUME Types, Talking
  PROVE  RaisedOnReject /\ ClosedBoardListens
BY DEF Talking, Rejected, Closed, RaisedOnReject, ClosedBoardListens, Types

\* The variables keep their types, and a write never counts past its last word
\* (HostLink.TypeOK): i of parallel.c stays within the words of hconfig.
THEOREM Typing == ASSUME ProgramsStopAtErrors PROVE Spec => []TypeOK
<1> HIDE DEF Types, Talking, TypeOK
<1>1. Types /\ Talking => TypeOK
  BY TypesHold
<1> QED
  BY <1>1, Conversation, PTL

\* Between two calls of gumbi.py both streams are empty and the firmware waits
\* for the first byte of a record of the mode the object is in.
THEOREM Synchronised == ASSUME ProgramsStopAtErrors PROVE Spec => []InSync
<1> HIDE DEF Types, Talking, InSync
<1>1. Types /\ Talking => InSync
  BY SyncHolds
<1> QED
  BY <1>1, Conversation, PTL

\* The bytes a call of gumbi.py returns are the bytes the firmware produced for
\* it, all of them and in order.
THEOREM Delivery == ASSUME ProgramsStopAtErrors PROVE Spec => []DataDelivered
<1> HIDE DEF Types, Talking, DataDelivered
<1>1. Types /\ Talking => DataDelivered
  BY SyncHolds
<1> QED
  BY <1>1, Conversation, PTL

\* When Write of gumbi.py returns, every byte it was given has been strobed to
\* the target, in order, for words of one byte and of two.
THEOREM WriteDelivery == ASSUME ProgramsStopAtErrors PROVE Spec => []WriteDelivers
<1> HIDE DEF Types, Talking, WriteDelivers
<1>1. Types /\ Talking => WriteDelivers
  BY SyncHolds
<1> QED
  BY <1>1, Conversation, PTL

\* No call raises an exception but the one whose configuration needs pins the
\* board does not have, and parallel.c has left parallel mode by then.
THEOREM Raising == ASSUME ProgramsStopAtErrors PROVE Spec => []RaisedOnReject
<1> HIDE DEF Types, Talking, RaisedOnReject
<1>1. Types /\ Talking => RaisedOnReject
  BY RejectHolds
<1> QED
  BY <1>1, Conversation, PTL

\* While no program has the port open, the main loop of the firmware waits for a
\* mode.
THEOREM ClosedListens == ASSUME ProgramsStopAtErrors PROVE Spec => []ClosedBoardListens
<1> HIDE DEF Types, Talking, ClosedBoardListens
<1>1. Types /\ Talking => ClosedBoardListens
  BY RejectHolds
<1> QED
  BY <1>1, Conversation, PTL
=============================================================================
