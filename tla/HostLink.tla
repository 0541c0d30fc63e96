------------------------------ MODULE HostLink ------------------------------
(***************************************************************************)
(* The conversation between the Python library (src/python/gumbi) and the  *)
(* firmware (src/avr) over the virtual serial port.                        *)
(*                                                                         *)
(* The port is a pair of byte streams and nothing frames them: the two     *)
(* sides stay in step only as long as each takes exactly the bytes the     *)
(* other sends for it.  A byte is interpreted by the side that reads it,   *)
(* in the state that side is in, whatever the sender meant.                *)
(*                                                                         *)
(* A call of the library is the sequence of serial operations its method   *)
(* makes; the firmware is the handlers of the modes, one step per record   *)
(* it reads.  Streams are written in one step: the other side takes them   *)
(* a byte or a line at a time.                                             *)
(***************************************************************************)
EXTENDS Integers, Sequences, SequencesExt, TLC

CONSTANTS
    BoardPins,      \* the pins a scan of the bus finds
    PinCounts,      \* the counts a program gives to PinCount and Monitor
    Configs,        \* the configurations of the parallel sessions
    MaxCount,       \* the longest read, write or number of blocks
    Samples,        \* the bytes the pins may show and a program may write
    Habits          \* what programs do besides what the documentation asks

PinsPerDevice == 16
PinsPerPort == 8

ASSUME LinkAssumption ==
    /\ BoardPins \in 1..128 /\ BoardPins % PinsPerDevice = 0
    /\ \A n \in PinCounts : n \in 1..BoardPins /\ n % PinsPerDevice = 0
    /\ \A c \in Configs : c.size \in {1, 2} /\ c.pins \in 1..128
    /\ MaxCount \in 1..255 /\ Samples \subseteq 0..255
    /\ Habits \subseteq {"close_after_error"}

VARIABLES
    port,      \* whether a program has the port open
    object,    \* the mode of the object it uses; NOP for a plain Gumbi
    config,    \* the configuration of a Parallel object
    hostPins,  \* num_pins of the object
    call,      \* the method called last, and the data it was given
    todo,      \* the serial operations the call still makes
    taken,     \* the data bytes the call has read
    failed,    \* whether the call raised an exception
    toBoard, toHost,  \* the two streams
    pc,        \* what the firmware reads next
    buf,       \* what it has read of it
    numPins,   \* gconfig.num_pins
    hconfig,   \* the configuration of the parallel action in progress
    i,         \* the bytes of a write received so far
    produced,  \* the data bytes sent since the call began
    written    \* the bytes strobed to the target since the call began

hostVars == <<port, object, config, hostPins, call, todo, taken, failed>>
boardVars == <<pc, buf, numPins, hconfig, i, produced, written>>
vars == <<hostVars, toBoard, toHost, boardVars>>

-----------------------------------------------------------------------------
\* enum modes and enum actions; the members a session needs.
NOP == 0
PARALLEL == 1
PING == 2
INFO == 3
SPEEDTEST == 4
GPIO == 5
GID == 6
XFER == 7
GETPINCOUNT == 8
SETPINCOUNT == 9
SCANBUS == 10
MONITOR == 11
VOLTAGE == 12
EXIT == 0
READ == 1
WRITE == 2
HIGH == 3
LOW == 4
COMMAND == 5

\* Lines of text by their first letter: "A\n", "N\n", any other text.
Newline == 10
Ack == <<65, Newline>>
Nack == <<78, Newline>>
Text == <<63>>
TextLine == <<63, Newline>>

\* A 4-byte number is two bytes here, hconfig its action, its count, its data
\* size and the pins it needs; XFER_TEST_SIZE is 2.
Pack32(n) == <<n % 256, n \div 256>>
Unpack32(bytes) == bytes[1] + 256 * bytes[2]
XferSize == 2
Want == [main |-> 1, pins |-> 1, volt |-> 1, speed |-> 2, xfer |-> XferSize, gpio |-> 2,
         monitor |-> 2, conf |-> 4, data1 |-> 1, data2 |-> 2]

Bytes(n) == [1..n -> Samples]

-----------------------------------------------------------------------------
(* The methods of the library, as the serial operations they make.         *)

Do(op) == <<[op |-> op]>>
WriteBytes(bytes) == [k \in DOMAIN bytes |-> [op |-> "send", byte |-> bytes[k]]]
ReadBytes(n) == [k \in 1..n |-> [op |-> "byte"]]
ReadAck == Do("ack")

SetMode(mode) == WriteBytes(<<mode>>) \o ReadAck
PinCount(n) ==
    (IF n = 0 THEN SetMode(GETPINCOUNT) ELSE SetMode(SETPINCOUNT) \o WriteBytes(<<n>>))
        \o ReadBytes(1) \o Do("pins")
SetVoltage(v) == SetMode(VOLTAGE) \o WriteBytes(<<v>>) \o ReadAck
Info == SetMode(INFO) \o Do("info")
ID == SetMode(GID) \o Do("text")
Ping == SetMode(PING) \o ReadAck
Scan == SetMode(SCANBUS) \o ReadBytes(1)

SendCommand(cmd) == WriteBytes(<<cmd, 0>>) \o ReadAck
Pack(action, count) == <<action, count, config.size, config.pins>>
\* Every byte waits for the ACK of the one before it.
BytesAcked(data) ==
    [k \in 1..2 * Len(data) |->
        IF k % 2 = 1 THEN [op |-> "send", byte |-> data[(k + 1) \div 2]] ELSE [op |-> "ack"]]
WriteScript(data) == WriteBytes(Pack(WRITE, Len(data))) \o ReadAck \o ReadAck \o BytesAcked(data)

\* Mutant of GpioExit: the GPIO class does not override _exit.
GpioExitNone == <<>>
GpioExit == SendCommand(EXIT)

\* The _exit of each class.
ExitScript ==
    CASE object = GPIO -> GpioExit
      [] object = PARALLEL -> WriteBytes(Pack(EXIT, 0)) \o ReadAck
      [] object = MONITOR ->
            WriteBytes(Pack32(0)) \o ReadAck \o SetMode(SCANBUS) \o ReadBytes(1)
      [] OTHER -> <<>>

-----------------------------------------------------------------------------
(* A program: it opens the port, creates objects, calls their methods.     *)

Idle == port = "open" /\ todo = <<>> /\ ~failed

Call(name, data, script) ==
    /\ call' = [name |-> name, data |-> data]
    /\ todo' = script
    /\ taken' = <<>> /\ produced' = <<>> /\ written' = <<>>
    /\ UNCHANGED <<toBoard, toHost, pc, buf, numPins, hconfig, i>>

\* _open, and Reset, which does nothing.
Open ==
    /\ port = "closed"
    /\ port' = "open" /\ object' = NOP /\ hostPins' = 0
    /\ Call("Open", <<>>, <<>>)
    /\ UNCHANGED <<config, failed>>

BaseCall ==
    /\ Idle /\ object = NOP
    /\ \/ \E n \in PinCounts \union {0} : Call("PinCount", <<>>, PinCount(n))
       \/ Call("SetVoltage", <<>>, SetVoltage(0))
       \/ Call("Info", <<>>, Info)
       \/ Call("ID", <<>>, ID)
       \/ Call("Ping", <<>>, Ping)
       \/ Call("Scan", <<>>, Scan)
    /\ UNCHANGED <<port, object, config, hostPins, failed>>

\* The constructors.
Create ==
    /\ Idle /\ object = NOP
    /\ \/ /\ object' \in {GPIO, SPEEDTEST, XFER}
          /\ Call("Create", <<>>, SetMode(object'))
          /\ UNCHANGED config
       \/ /\ object' = PARALLEL /\ config' \in Configs
          /\ Call("Create", <<>>, SetMode(PARALLEL))
       \/ /\ object' = MONITOR
          /\ \E n \in PinCounts \union {0} : Call("Create", <<>>, PinCount(n) \o SetMode(MONITOR))
          /\ UNCHANGED config
    /\ UNCHANGED <<port, hostPins, failed>>

\* PinHigh, PinLow, ReadPin
GpioCall ==
    /\ Idle /\ object = GPIO
    /\ \/ \E cmd \in {HIGH, LOW} : Call("Pin", <<>>, SendCommand(cmd))
       \/ Call("ReadPin", <<>>, SendCommand(READ) \o ReadBytes(1))
    /\ UNCHANGED <<port, object, config, hostPins, failed>>

\* At least one block: a count of 0 is the record by which _exit leaves the
\* monitor, so that Sniff(0) would end the session under an open object.
Sniff ==
    /\ Idle /\ object = MONITOR
    /\ \E n \in 1..MaxCount :
         Call("Sniff", <<>>, WriteBytes(Pack32(n)) \o ReadBytes(n * (hostPins \div PinsPerPort)))
    /\ UNCHANGED <<port, object, config, hostPins, failed>>

\* SpeedTest.Go and TransferTest.Go, once for each object.
Go ==
    /\ Idle
    /\ \/ /\ object = SPEEDTEST
          /\ \E n \in 1..MaxCount : Call("Go", <<>>, WriteBytes(Pack32(n)) \o ReadBytes(n))
       \/ /\ object = XFER
          /\ \E d \in Bytes(XferSize) : Call("Go", d, WriteBytes(d) \o ReadBytes(XferSize))
    /\ object' = NOP
    /\ UNCHANGED <<port, config, hostPins, failed>>

\* Programs read and write whole words (flashbin.py pads the data).
Count == {n \in 0..MaxCount : n % config.size = 0}

ParallelCall ==
    /\ Idle /\ object = PARALLEL
    /\ \/ \E n \in Count :
            Call("Read", <<>>, WriteBytes(Pack(READ, n)) \o ReadAck \o ReadAck \o ReadBytes(n))
       \/ \E n \in Count : \E d \in Bytes(n) : Call("Write", d, WriteScript(d))
       \/ Call("ExecuteCommands", <<>>,
               WriteBytes(Pack(COMMAND, 0)) \o ReadAck \o ReadAck \o ReadAck)
    /\ UNCHANGED <<port, object, config, hostPins, failed>>

Close ==
    /\ port = "open" /\ todo = <<>> /\ (failed => "close_after_error" \in Habits)
    /\ object \notin {SPEEDTEST, XFER}
    /\ Call("Close", <<>>, ExitScript \o Do("close"))
    /\ failed' = FALSE
    /\ UNCHANGED <<port, object, config, hostPins>>

\* The exception ends the program, or it forgets the Close of a plain Gumbi, as
\* gumbictl.py:58 does; the system closes its port.
ProcessEnds ==
    /\ port = "open" /\ (failed \/ (Idle /\ object = NOP))
    /\ port' = "closed" /\ todo' = <<>> /\ failed' = FALSE /\ toHost' = <<>>
    /\ UNCHANGED <<object, config, hostPins, call, taken, toBoard, boardVars>>

-----------------------------------------------------------------------------
(* The serial operations.                                                  *)

Doing(op) == todo # <<>> /\ Head(todo).op = op

HostSend ==
    /\ Doing("send")
    /\ toBoard' = Append(toBoard, Head(todo).byte)
    /\ todo' = Tail(todo)
    /\ UNCHANGED <<port, object, config, hostPins, call, taken, failed, toHost, boardVars>>

\* Mutant of Taken: each byte goes before the ones read so far.
TakenReversed(b) == <<b>> \o taken
Taken(b) == Append(taken, b)

HostByte ==
    /\ Doing("byte") /\ toHost # <<>>
    /\ taken' = Taken(Head(toHost))
    /\ toHost' = Tail(toHost) /\ todo' = Tail(todo)
    /\ UNCHANGED <<port, object, config, hostPins, call, failed, toBoard, boardVars>>

\* The end of the first line.
LineEnd(bytes) == SelectInSeq(bytes, LAMBDA b : b = Newline)

\* readline waits for a newline; ReadAck raises on any line but "A".
HostLine ==
    /\ \E op \in {"ack", "text", "info"} : Doing(op)
    /\ Newline \in ToSet(toHost)
    /\ LET n == LineEnd(toHost)
           isAck == SubSeq(toHost, 1, n) = Ack
       IN  /\ toHost' = SubSeq(toHost, n + 1, Len(toHost))
           /\ failed' = (Doing("ack") /\ ~isAck)
           /\ todo' = IF failed' THEN <<>> ELSE IF Doing("info") /\ ~isAck THEN todo ELSE Tail(todo)
    /\ UNCHANGED <<port, object, config, hostPins, call, taken, toBoard, boardVars>>

HostPins ==
    /\ Doing("pins")
    /\ hostPins' = Last(taken)
    /\ todo' = Tail(todo)
    /\ UNCHANGED <<port, object, config, call, taken, failed, toBoard, toHost, boardVars>>

\* The system discards what a closed port has not read.
HostClose ==
    /\ Doing("close")
    /\ port' = "closed" /\ toHost' = <<>>
    /\ todo' = Tail(todo)
    /\ UNCHANGED <<object, config, hostPins, call, taken, failed, toBoard, boardVars>>

-----------------------------------------------------------------------------
(* The firmware.                                                           *)

\* fgetc
FwByte ==
    /\ toBoard # <<>> /\ Len(buf) < Want[pc]
    /\ buf' = Append(buf, Head(toBoard)) /\ toBoard' = Tail(toBoard)
    /\ UNCHANGED <<hostVars, toHost, pc, numPins, hconfig, i, produced, written>>

Has(record) == pc = record /\ Len(buf) = Want[record]

\* Text, then data, for the host; what is read next.
Reply(text, data, next) ==
    /\ toHost' = IF port = "open" THEN toHost \o text \o data ELSE toHost
    /\ produced' = produced \o data
    /\ pc' = next /\ buf' = <<>>
    /\ UNCHANGED <<hostVars, toBoard>>

ModeOf ==
    [m \in {PARALLEL, GPIO, MONITOR, SPEEDTEST, XFER, SETPINCOUNT, VOLTAGE} |->
        CASE m = PARALLEL -> "conf" [] m = GPIO -> "gpio" [] m = MONITOR -> "monitor"
          [] m = SPEEDTEST -> "speed" [] m = XFER -> "xfer" [] m = SETPINCOUNT -> "pins"
          [] m = VOLTAGE -> "volt"]

\* command_handler, with the handlers that read nothing more.
FwCommand ==
    /\ Has("main")
    /\ LET mode == buf[1]
       IN  \/ mode = NOP /\ Reply(Ack, <<>>, "main") /\ UNCHANGED numPins
           \/ mode = PING /\ Reply(Ack \o Ack, <<>>, "main") /\ UNCHANGED numPins
           \/ mode = INFO /\ Reply(Ack \o TextLine \o TextLine \o Ack, <<>>, "main") /\ UNCHANGED numPins
           \/ mode = GID /\ Reply(Ack \o TextLine, <<>>, "main") /\ UNCHANGED numPins
           \/ mode = GETPINCOUNT /\ Reply(Ack, <<numPins>>, "main") /\ UNCHANGED numPins
           \/ mode = SCANBUS /\ numPins' = BoardPins /\ Reply(Ack, <<BoardPins>>, "main")
           \/ mode \in DOMAIN ModeOf /\ Reply(Ack, <<>>, ModeOf[mode]) /\ UNCHANGED numPins
           \/ mode > VOLTAGE /\ Reply(Nack \o TextLine, <<>>, "main") /\ UNCHANGED numPins
    /\ UNCHANGED <<hconfig, i, written>>

FwSetPinCount ==
    /\ Has("pins")
    /\ numPins' = buf[1]
    /\ Reply(<<>>, <<buf[1]>>, "main")
    /\ UNCHANGED <<hconfig, i, written>>

FwVoltage ==
    /\ Has("volt")
    /\ Reply(Ack, <<>>, "main")
    /\ UNCHANGED <<numPins, hconfig, i, written>>

\* speed_test and xfer_test
FwTest ==
    /\ \/ Has("speed") /\ Reply(<<>>, [k \in 1..Unpack32(buf) |-> 255], "main")
       \/ Has("xfer") /\ Reply(<<>>, buf, "main")
    /\ UNCHANGED <<numPins, hconfig, i, written>>

\* Mutant of PinReply: the value of a pin is sent before the ACK.
PinReplyDataFirst(b) == Reply(<<b>> \o Ack, <<>>, "gpio")
PinReply(b) == Reply(Ack, <<b>>, "gpio")

FwGpio ==
    /\ Has("gpio")
    /\ LET action == buf[1]
       IN  \/ action \in {HIGH, LOW} /\ Reply(Ack, <<>>, "gpio")
           \/ action = READ /\ \E b \in {0, 1} : PinReply(b)
           \/ action = EXIT /\ Reply(Ack, <<>>, "main")
           \/ action \notin {EXIT, READ, HIGH, LOW} /\ Reply(Nack \o TextLine \o Ack, <<>>, "gpio")
    /\ UNCHANGED <<numPins, hconfig, i, written>>

BlockSize == 2 * (numPins \div PinsPerDevice)

\* Mutant of Blocks: one block too many.
BlocksInclusive(n) == n + 1
Blocks(n) == n

FwMonitor ==
    /\ Has("monitor")
    /\ LET n == Unpack32(buf)
       IN  IF n = 0 THEN Reply(Ack, <<>>, "main")
           ELSE \E d \in Bytes(Blocks(n) * BlockSize) : Reply(<<>>, d, "monitor")
    /\ UNCHANGED <<numPins, hconfig, i, written>>

-----------------------------------------------------------------------------
(* Parallel mode: the records of module Parallel's actions.                *)

IsValidConfig(c) == c[4] <= numPins

\* The bytes of the words a read of count bytes transfers.
WholeWords(count, size) == size * ((count + size - 1) \div size)

FwReject ==
    /\ Has("conf") /\ buf[1] # EXIT /\ ~IsValidConfig(buf)
    /\ Reply(Nack \o Text, <<>>, "main")
    /\ UNCHANGED <<numPins, hconfig, i, written>>

FwExitParallel ==
    /\ Has("conf") /\ buf[1] = EXIT
    /\ Reply(Ack, <<>>, "main")
    /\ UNCHANGED <<numPins, hconfig, i, written>>

FwAction ==
    /\ Has("conf") /\ buf[1] # EXIT /\ IsValidConfig(buf)
    /\ hconfig' = [count |-> buf[2], size |-> buf[3]] /\ i' = 0
    /\ LET action == buf[1]
       IN  \/ /\ action = READ
              /\ \E d \in Bytes(WholeWords(buf[2], buf[3])) : Reply(Ack \o Ack, d, "conf")
           \/ action = WRITE /\ Reply(Ack \o Ack, <<>>, IF buf[2] > 0 THEN "data1" ELSE "conf")
           \/ action = COMMAND /\ Reply(Ack \o Ack \o Ack, <<>>, "conf")
           \/ action \notin {READ, WRITE, COMMAND} /\ Reply(Ack \o Nack \o TextLine, <<>>, "conf")
    /\ UNCHANGED <<numPins, written>>

Record == IF hconfig.size = 1 THEN "data1" ELSE "data2"

\* Mutant of FirstByteReply: no ACK between the bytes of a word.
FirstByteReplyNone == <<>>
FirstByteReply == Ack

\* The first byte of a word; data2 holds both when the second is there.
FwFirstByte ==
    /\ Has("data1") /\ hconfig.size = 2
    /\ toHost' = IF port = "open" THEN toHost \o FirstByteReply ELSE toHost
    /\ pc' = "data2"
    /\ UNCHANGED <<hostVars, toBoard, buf, numPins, hconfig, i, produced, written>>

\* Mutant of More: one word too many.
MoreInclusive(n) == n <= hconfig.count
More(n) == n < hconfig.count

\* Mutant of Strobed: the bytes of the word are swapped.
StrobedSwapped == Reverse(buf)
Strobed == buf

FwWord ==
    /\ Has(Record)
    /\ written' = written \o Strobed
    /\ i' = i + hconfig.size
    /\ Reply(Ack, <<>>, IF More(i') THEN "data1" ELSE "conf")
    /\ UNCHANGED <<numPins, hconfig>>

-----------------------------------------------------------------------------
Init ==
    /\ port = "closed" /\ object = NOP /\ config \in Configs /\ hostPins = 0
    /\ call = [name |-> "Close", data |-> <<>>]
    /\ todo = <<>> /\ taken = <<>> /\ failed = FALSE
    /\ toBoard = <<>> /\ toHost = <<>>
    /\ pc = "main" /\ buf = <<>> /\ numPins = BoardPins
    /\ hconfig = [count |-> 0, size |-> 1] /\ i = 0
    /\ produced = <<>> /\ written = <<>>

Program ==
    \/ Open \/ BaseCall \/ Create \/ GpioCall \/ Sniff \/ Go \/ ParallelCall
    \/ Close \/ ProcessEnds

Library == HostSend \/ HostByte \/ HostLine \/ HostPins \/ HostClose

Firmware ==
    \/ FwByte \/ FwCommand \/ FwSetPinCount \/ FwVoltage \/ FwTest \/ FwGpio \/ FwMonitor
    \/ FwReject \/ FwExitParallel \/ FwAction \/ FwFirstByte \/ FwWord

Next == Program \/ Library \/ Firmware

\* A call keeps making its operations and the firmware keeps running; a
\* program need not call anything.
Spec == Init /\ [][Next]_vars /\ WF_vars(Library) /\ WF_vars(Firmware)

-----------------------------------------------------------------------------
(* Properties                                                              *)

\* The variables keep their types; a write never counts past its last word.
TypeOK ==
    /\ port \in {"open", "closed"} /\ object \in {NOP} \union DOMAIN ModeOf
    /\ config \in Configs /\ hostPins \in 0..BoardPins /\ failed \in BOOLEAN
    /\ \A s \in {taken, toBoard, toHost, buf, produced, written} : \A k \in DOMAIN s : s[k] \in 0..255
    /\ pc \in DOMAIN Want /\ Len(buf) <= Want[pc]
    /\ numPins \in PinCounts \union {BoardPins}
    /\ i \in 0..WholeWords(hconfig.count, hconfig.size)

Listens(record) == pc = record /\ buf = <<>> /\ toBoard = <<>>

\* Between two calls both streams are empty and the firmware waits for the
\* first byte of a record of the mode the object is in; a Monitor object and
\* the firmware agree on the size of a block.
InSync ==
    Idle => /\ toHost = <<>>
            /\ Listens(IF object = NOP THEN "main" ELSE ModeOf[object])
            /\ object = MONITOR => hostPins = numPins

\* The bytes a call returns are the bytes the firmware produced for it, all of
\* them and in order (Read, Sniff, ReadPin, PinCount, Go).
DataDelivered == Idle => taken = produced

\* When Write returns, every byte it was given is on the target, in order.
WriteDelivers == Idle /\ call.name = "Write" => written = call.data

\* No call raises an exception but the one whose configuration needs pins the
\* board does not have; the firmware has left parallel mode by then.
RaisedOnReject == failed => object = PARALLEL /\ config.pins > numPins /\ Listens("main")

\* While nobody has the port open, the firmware waits for a mode: a program
\* that starts then finds the main loop.
ClosedBoardListens == port = "closed" => Listens("main")

\* Every call returns or raises.
CallsReturn == todo # <<>> ~> todo = <<>>

\* gumbi.py:423-424, of Reset: "Attempts to reset the communications stream with
\* the Gumbi board. This will exit out of any mode the Gumbi board may be stuck
\* in from a previous unclosed session": when a program has opened the port and
\* the firmware has read what earlier programs sent, it waits for a mode.
ResetExitsModes ==
    call.name = "Open" /\ toBoard = <<>> /\ Len(buf) < Want[pc] => Listens("main")
=============================================================================
