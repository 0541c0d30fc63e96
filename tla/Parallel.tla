------------------------------ MODULE Parallel ------------------------------
(***************************************************************************)
(* Parallel mode of the firmware (src/avr/parallel.c) and the parallel     *)
(* chip wired to the board.                                                *)
(*                                                                         *)
(* The firmware is a program over the driver of module Mcp23s17: pc names  *)
(* the statement that runs next, and one step is one write to the          *)
(* expanders, because that is when the chip can see a difference.  A chip  *)
(* that is read and written like a memory stands for the target: it        *)
(* answers on the data lines while it is selected and its output is        *)
(* enabled, takes a word when write enable is released, and may be busy    *)
(* for a while after that.                                                 *)
(*                                                                         *)
(* An address on the lines is the set of the positions in Addr that are    *)
(* high, a data word the set of the positions in Data that are high.       *)
(***************************************************************************)
EXTENDS Mcp23s17, Sequences

CONSTANTS
    Addr, Data,      \* hconfig.addr_pins, hconfig.data_pins: sequences of pins
    Vcc, Gnd,        \* hconfig.vcc_pins, hconfig.gnd_pins: sets of pins
    Control,         \* the ctrlpin fields of hconfig: [pin, active] by name
    ByteBits,        \* the data pins that make one byte (8)
    MaxCommands,     \* MAX_COMMANDS, an address and a data word each
    Requests,        \* the configurations the host sends besides EXIT
    PinCounts,       \* the pin counts SETPINCOUNT may have set before
    Leftovers        \* what earlier sessions may have left in the latches

ControlName == {"ce", "we", "re", "oe", "be", "by", "wp", "wi", "ri", "rst"}
Lines == {Addr[k] : k \in DOMAIN Addr} \union {Data[k] : k \in DOMAIN Data} \union Vcc \union Gnd

ASSUME WiringAssumption ==
    /\ Lines \subseteq Pin
    /\ Addr \in Seq(Pin) /\ Data \in Seq(Pin) /\ Data # <<>>
    /\ Control \in [ControlName -> [pin : Nat, active : {0, 1}]]
    /\ \A r \in Requests :
         /\ r.action \in {"READ", "WRITE", "COMMAND"} /\ r.reconfigure \in BOOLEAN
         /\ r.addr \in Nat /\ r.count \in Nat
         /\ r.commands \in Seq([addr : Nat, word : SUBSET (DOMAIN Data)])
    /\ PinCounts \subseteq 1..MaxPins
    /\ Leftovers \subseteq SUBSET Pin

VARIABLES
    pc,          \* the statement that runs next
    configured,  \* the local variable of parallel()
    hconfig,     \* the last configuration received
    todo,        \* the writes still to strobe, an address and a word each
    ret,         \* where execute_commands returns to
    released,    \* the ports mcp23s17_disable has let go, at the end of a session
    j,           \* the words transferred so far by this read or write
    data,        \* the word being transferred
    sent,        \* the words read and sent to the host, of this request
    mem,         \* the target: what it holds
    busy         \* the target: whether it works on the last write

host == <<hconfig, data, sent, j>>
flow == <<configured, todo, ret, released>>
target == <<mem, busy>>
vars == <<driverVars, pc, flow, host, target>>

-----------------------------------------------------------------------------
(* The target chip, as the lines show it.                                  *)

Address == SUBSET (DOMAIN Addr)
Word == SUBSET (DOMAIN Data)

\* A line nobody drives rests at its inactive level.
Asserted(c) ==
    LET line == Control[c]
    IN  line.pin \in drv /\ (line.pin \in latch <=> line.active = 1)

DataDriven == \A k \in DOMAIN Data : Data[k] \in drv
AddressDriven == \A k \in DOMAIN Addr : Addr[k] \in drv
AddressLines == {k \in DOMAIN Addr : Addr[k] \in latch}
\* The words the data lines may show: a line that floats may be read either way.
DataLines == {w \in Word : \A k \in DOMAIN Data : Data[k] \in drv => (k \in w <=> Data[k] \in latch)}

Supplied == Vcc \subseteq drv \intersect latch /\ Gnd \subseteq drv \ latch
Writing == Asserted("ce") /\ Asserted("we")
Answering == Asserted("ce") /\ (Asserted("oe") \/ Asserted("re")) /\ ~Asserted("we")

\* The end of a write pulse: the target takes what the lines show.
TargetReacts ==
    IF Writing /\ ~Writing'
    THEN /\ \E w \in DataLines : mem' = [mem EXCEPT ![AddressLines] = w]
         /\ busy' \in BOOLEAN
    ELSE UNCHANGED target

TargetReady == busy /\ busy' = FALSE /\ UNCHANGED <<driverVars, pc, flow, host, mem>>

-----------------------------------------------------------------------------
(* The helpers of parallel.c.                                              *)

DataSize == IF Len(Data) <= ByteBits THEN 1 ELSE 2

\* data2pins on the address: the lines there are carry the low bits.
Bits(n) == {k \in DOMAIN Addr : (n \div 2^(k - 1)) % 2 = 1}

AreValidPins == \A p \in Lines : IsValidPin(p)
IsValidConfig(r) == 2 * Len(r.commands) <= MaxCommands /\ AreValidPins

\* The pin configure_pins_* and set_pin_* change are the valid ones.
ValidOnly(pins) == {p \in pins : IsValidPin(p)}
DataPins == {Data[k] : k \in DOMAIN Data}

\* set_control_pin: ~active, an 8-bit complement, is taken as a truth value.
\* (Mutant of LevelFor: a release drives the active level.)
LevelForAlways(active, tf) == active # 0
LevelFor(active, tf) == IF tf THEN active # 0 ELSE 255 - active # 0
SetControlPin(c, tf) == SetPinImmediate(Control[c].pin, LevelFor(Control[c].active, tf))

PortsOfDevices(n) == {port \in Port : port < 2 * n}
\* Mutant of SetLines: only the port of the first pin is committed.
SetLinesFirstPort(pins, positions) ==
    /\ shOut' = (shOut \ {pins[k] : k \in DOMAIN pins}) \union {pins[k] : k \in positions}
    /\ latch' = Commit(latch, shOut', {PortOf(pins[1])})
\* commit_targeted_settings: the ports of the given pins; set_address, set_data.
SetLines(pins, positions) ==
    LET own == {pins[k] : k \in DOMAIN pins}
    IN  /\ shOut' = (shOut \ own) \union {pins[k] : k \in positions}
        /\ latch' = Commit(latch, shOut', {PortOf(p) : p \in own})

\* commit_ddr_settings and commit_io_settings
CommitDdr == drv' = Commit(drv, shDrv', PortsOfDevices(numDevices))
CommitIo == latch' = Commit(latch, shOut', PortsOfDevices(numDevices))

IsBusy ==
    LET by == Control["by"]
    IN  IsValidPin(by.pin) /\ (IF by.pin \in drv THEN Asserted("by") ELSE busy)

\* Mutant of Polled: the chip is not polled.
PolledNever == TRUE
\* The loops on is_busy end.
Polled == ~IsBusy

-----------------------------------------------------------------------------
(* The calls of set_control_pin: the pin, the state, the next statement.   *)

Call(c, tf, next) == [line |-> c, tf |-> tf, next |-> next]
Calls == [
    be    |-> Call("be", DataSize = 1, "rst"),
    rst   |-> Call("rst", FALSE, "we"),
    we    |-> Call("we", FALSE, "re"),
    re    |-> Call("re", FALSE, "oe"),
    oe    |-> Call("oe", FALSE, "wp"),
    wp    |-> Call("wp", FALSE, "wi"),
    wi    |-> Call("wi", FALSE, "ri"),
    ri    |-> Call("ri", FALSE, "ce"),
    ce    |-> Call("ce", FALSE, "power"),
    select     |-> Call("ce", TRUE, "dispatch"),
    strobe_oe  |-> Call("oe", FALSE, "strobe_addr"),
    strobe_on  |-> Call("we", TRUE, "strobe_off"),
    strobe_off |-> Call("we", FALSE, "strobe_next"),
    read_begin |-> Call("ri", TRUE, "read_loop"),
    read_oe    |-> Call("oe", TRUE, "read_re"),
    read_re    |-> Call("re", TRUE, "read_sample"),
    read_oeoff |-> Call("oe", FALSE, "read_reoff"),
    read_reoff |-> Call("re", FALSE, "read_send"),
    read_end   |-> Call("ri", FALSE, "recv"),
    write_begin |-> Call("wi", TRUE, "write_loop"),
    write_end   |-> Call("wi", FALSE, "recv")]

ControlStep ==
    /\ pc \in DOMAIN Calls
    /\ SetControlPin(Calls[pc].line, Calls[pc].tf)
    /\ pc' = Calls[pc].next
    /\ UNCHANGED <<shDrv, drv, haen, table, regulator>>
    /\ TargetReacts
    /\ UNCHANGED <<flow, host>>

-----------------------------------------------------------------------------
(* parallel(): receive a configuration, configure the pins, act.           *)

Init ==
    /\ DriverState(PinsOfDevices(FirstGap))
    /\ numPins \in PinCounts
    /\ numDevices = numPins \div PinsPerDevice
    /\ latch \in Leftovers
    /\ pc = "idle"
    /\ configured = FALSE
    /\ hconfig \in Requests
    /\ todo = <<>> /\ ret = "recv" /\ released = 0
    /\ j = 0 /\ data = {} /\ sent = <<>>
    /\ mem = [a \in Address |-> {}] /\ busy = FALSE

\* mcp23s17_enable: no pin is an output here, so that the frames of its
\* mcp23s17_io_init, one step, show the target nothing.
Enter ==
    /\ pc = "idle"
    /\ IoInit
    /\ pc' = "recv"
    /\ configured' = FALSE
    /\ UNCHANGED <<table, regulator, todo, ret, released, host, target>>

\* The end of the session: EXIT, or a configuration that is not valid.
Leave ==
    /\ pc = "recv"
    /\ pc' = "release"
    /\ released' = 0
    /\ UNCHANGED <<driverVars, configured, todo, ret, host, target>>

\* Mutant of ReleasePort: mcp23s17_disable without its call of io_init.
ReleasePortSpiOnly == UNCHANGED <<shadow, drv>>
\* One write to IODIR of mcp23s17_io_init; the latches stay as they are.
ReleasePort ==
    /\ shDrv' = shDrv \ PinsOf(released)
    /\ shOut' = shOut \ PinsOf(released)
    /\ drv' = Commit(drv, shDrv', {released})

\* mcp23s17_disable lets the lines go port by port, IODIRA and IODIRB of one
\* address after the other, while the lines of the later ports are still driven.
Disable ==
    /\ pc = "release"
    /\ ReleasePort
    /\ released' = released + 1
    /\ pc' = IF released' = 2 * MaxDevices THEN "idle" ELSE "release"
    /\ TargetReacts
    /\ UNCHANGED <<latch, haen, table, regulator, configured, todo, ret, host>>

Receive(r) ==
    /\ pc = "recv"
    /\ IsValidConfig(r)
    /\ hconfig' = r
    /\ j' = 0 /\ data' = {} /\ sent' = <<>>

\* The directions change in RAM only; every pin but WP becomes an output.
Configure(r) ==
    /\ Receive(r)
    /\ ~configured \/ r.reconfigure
    /\ LET outputs == Lines \union {Control[c].pin : c \in ControlName \ {"by", "wp"}}
       IN  shDrv' = (shDrv \union ValidOnly(outputs)) \ ValidOnly({Control["by"].pin})
    /\ pc' = "be"
    /\ UNCHANGED <<table, shOut, chips, regulator, flow, target>>

SkipConfigure(r) ==
    /\ Receive(r)
    /\ configured /\ ~r.reconfigure
    /\ pc' = "dispatch"
    /\ UNCHANGED <<driverVars, flow, target>>

\* Mutant of SupplyLevels: the Vcc pins are forgotten.
SupplyLevelsGndOnly == shOut \ ValidOnly(Gnd)
SupplyLevels == (shOut \union ValidOnly(Vcc)) \ ValidOnly(Gnd)

\* Supply pins, in RAM; then the directions and the levels of all ports.
SupplyPower ==
    /\ pc = "power"
    /\ shOut' = SupplyLevels
    /\ pc' = "ddr"
    /\ UNCHANGED <<table, shDrv, chips, regulator, flow, host, target>>

CommitDirections ==
    /\ pc = "ddr"
    /\ UNCHANGED <<shadow, latch, haen, table, regulator>>
    /\ CommitDdr
    /\ pc' = "io"
    /\ TargetReacts
    /\ UNCHANGED <<flow, host>>

CommitLevels ==
    /\ pc = "io"
    /\ UNCHANGED <<shadow, drv, haen, table, regulator>>
    /\ CommitIo
    /\ pc' = "select"
    /\ TargetReacts
    /\ UNCHANGED <<flow, host>>

\* The switch on hconfig.action.
Dispatch ==
    /\ pc = "dispatch"
    /\ configured' = TRUE
    /\ UNCHANGED released
    /\ \/ /\ hconfig.action = "READ"
          /\ todo' = hconfig.commands /\ ret' = "read_ddr" /\ pc' = "strobe"
       \/ /\ hconfig.action = "WRITE"
          /\ pc' = "write_ddr" /\ UNCHANGED <<todo, ret>>
       \/ /\ hconfig.action = "COMMAND"
          /\ todo' = hconfig.commands /\ ret' = "recv" /\ pc' = "strobe"
    /\ UNCHANGED <<driverVars, host, target>>

-----------------------------------------------------------------------------
(* write_data_to_addr for every pair in todo: execute_commands, and the    *)
(* word of a write after its commands.                                     *)

StrobeDone ==
    /\ pc = "strobe" /\ todo = <<>>
    /\ pc' = ret
    /\ UNCHANGED <<driverVars, flow, host, target>>

StrobeReady ==
    /\ pc = "strobe" /\ todo # <<>> /\ Polled
    /\ pc' = "strobe_oe"
    /\ UNCHANGED <<driverVars, flow, host, target>>

StrobeAddress ==
    /\ pc = "strobe_addr"
    /\ SetLines(Addr, Bits(Head(todo).addr))
    /\ pc' = "strobe_data"
    /\ UNCHANGED <<shDrv, drv, haen, table, regulator, flow, host>>
    /\ TargetReacts

StrobeData ==
    /\ pc = "strobe_data"
    /\ SetLines(Data, Head(todo).word)
    /\ pc' = "strobe_on"
    /\ UNCHANGED <<shDrv, drv, haen, table, regulator, flow, host>>
    /\ TargetReacts

\* Mutant of NextCommands: the command index does not advance.
NextCommandsSame == todo
NextCommands == Tail(todo)

StrobeNext ==
    /\ pc = "strobe_next"
    /\ todo' = NextCommands
    /\ pc' = "strobe"
    /\ UNCHANGED <<driverVars, configured, ret, released, host, target>>

-----------------------------------------------------------------------------
(* parallel_read and parallel_write.                                       *)

\* Mutant of DataDirection: the data pins stay outputs.
DataDirectionKept(out) == shDrv \union DataPins
DataDirection(out) == IF out THEN shDrv \union DataPins ELSE shDrv \ DataPins

SetDataDirection(out) ==
    /\ shDrv' = DataDirection(out)
    /\ CommitDdr
    /\ UNCHANGED <<shOut, latch, haen, table, regulator, flow, host>>
    /\ TargetReacts

ReadDdr == pc = "read_ddr" /\ SetDataDirection(FALSE) /\ pc' = "read_begin"
WriteDdr == pc = "write_ddr" /\ SetDataDirection(TRUE) /\ pc' = "write_begin"

\* Mutant of MoreWords: one word too many.
MoreWordsInclusive == j * DataSize <= hconfig.count
MoreWords == j * DataSize < hconfig.count

\* Mutant of Current: the address does not advance.
CurrentSame == hconfig.addr
\* The address of the word in progress.
Current == hconfig.addr + j

ReadLoop ==
    /\ pc = "read_loop"
    /\ \/ /\ MoreWords /\ Polled
          /\ SetLines(Addr, Bits(Current))
          /\ TargetReacts
          /\ pc' = "read_oe"
       \/ ~MoreWords /\ pc' = "read_end" /\ UNCHANGED <<shOut, latch, target>>
    /\ UNCHANGED <<shDrv, drv, haen, table, regulator, flow, host>>

\* read_data_pins: only the chips the firmware counts are read.
ReadSample ==
    /\ pc = "read_sample"
    /\ \E w \in (IF Answering /\ ~DataDriven THEN {mem[AddressLines]} ELSE DataLines) :
         data' = {k \in w : DeviceOf(Data[k]) < numDevices}
    /\ pc' = "read_oeoff"
    /\ UNCHANGED <<driverVars, flow, hconfig, sent, j, target>>

ReadSend ==
    /\ pc = "read_send"
    /\ sent' = Append(sent, data)
    /\ j' = j + 1
    /\ pc' = "read_loop"
    /\ UNCHANGED <<driverVars, flow, hconfig, data, target>>

\* The word comes from the host, a byte at a time (module HostLink); its
\* commands are strobed before it.
WriteWord(w) ==
    /\ pc = "write_loop" /\ MoreWords
    /\ data' = w
    /\ todo' = Append(hconfig.commands, [addr |-> Current, word |-> w])
    /\ ret' = "write_ack"
    /\ pc' = "strobe"
    /\ UNCHANGED <<driverVars, configured, released, hconfig, sent, j, target>>

WriteAck ==
    /\ pc = "write_ack"
    /\ j' = j + 1
    /\ pc' = "write_loop"
    /\ UNCHANGED <<driverVars, flow, hconfig, data, sent, target>>

\* Mutant of AfterWrites: write_indicator(FALSE) is skipped.
AfterWritesNoIndicator == "recv"
AfterWrites == "write_end"

WriteLoopEnd ==
    /\ pc = "write_loop" /\ ~MoreWords
    /\ pc' = AfterWrites
    /\ UNCHANGED <<driverVars, flow, host, target>>

-----------------------------------------------------------------------------
\* Between two sessions the host may change the count (set_pin_count).
SetPinCount(n) ==
    /\ pc = "idle"
    /\ numPins' = n /\ numDevices' = n \div PinsPerDevice
    /\ UNCHANGED <<inuse, shadow, chips, regulator, pc, flow, host, target>>

Session == (\E n \in PinCounts : SetPinCount(n)) \/ Enter \/ Leave \/ \E r \in Requests : Configure(r) \/ SkipConfigure(r)

Firmware ==
    \/ ControlStep \/ SupplyPower \/ CommitDirections \/ CommitLevels \/ Dispatch
    \/ StrobeDone \/ StrobeReady \/ StrobeAddress \/ StrobeData \/ StrobeNext
    \/ ReadDdr \/ ReadLoop \/ ReadSample \/ ReadSend
    \/ WriteDdr \/ \E w \in Word : WriteWord(w)
    \/ WriteAck \/ WriteLoopEnd \/ Disable

Next == Session \/ Firmware \/ TargetReady

\* The firmware runs; the host, in the middle of a Write, sends the next
\* word; a busy chip gets ready.  Nothing makes the host start a request.
Fairness == WF_vars(Firmware) /\ WF_vars(TargetReady)

Spec == Init /\ [][Next]_vars /\ Fairness
-----------------------------------------------------------------------------
(* What the firmware leaves to the wiring and to the host programs: the    *)
(* hypotheses of the theorems in module Parallel_proofs.                   *)

AddrPins == {Addr[k] : k \in DOMAIN Addr}

\* Every line of the target has a pin of its own; a control line it does not
\* have is on no pin.
OwnPins ==
    /\ \A k, l \in DOMAIN Addr : Addr[k] = Addr[l] => k = l
    /\ \A k, l \in DOMAIN Data : Data[k] = Data[l] => k = l
    /\ \A pins \in {DataPins, Vcc, Gnd} : pins \intersect AddrPins = {}
    /\ DataPins \intersect (Vcc \union Gnd) = {} /\ Vcc \intersect Gnd = {}
    /\ \A c \in ControlName :
         /\ Control[c].pin \notin Lines
         /\ \A d \in ControlName \ {c} :
              Control[c].pin = Control[d].pin => Control[c].pin \notin Pin

\* set_control_pin can release these only if they are active low.
ActiveLow == \A c \in {"ce", "we", "re", "oe", "wi", "ri"} : Control[c].active = 0

\* monitor.py:13, "Must be a multiple of 16".
WholeChips == \A n \in PinCounts : n % PinsPerDevice = 0

ProperTarget == OwnPins /\ ActiveLow /\ WholeChips

\* The pin of the line is valid whenever IsValidConfig finds the others valid.
Connected(c) ==
    /\ Control[c].pin \in PinsOfDevices(FirstGap)
    /\ \A n \in PinCounts : (\A p \in Lines : p < n) => Control[c].pin < n

\* Commands are strobed only where the data pins are made outputs before.
CommandsReconfigured ==
    \A r \in Requests : r.reconfigure \/ r.action = "WRITE" \/ r.commands = <<>>

-----------------------------------------------------------------------------
(* Properties                                                              *)

\* The firmware serves a request.
Serving == pc \notin {"idle", "recv", "release"}

\* The variables keep their types; no read sends more words than it was asked.
TypeOK ==
    /\ DriverTypeOK
    /\ pc \in DOMAIN Calls \union {"idle", "recv", "release", "power", "ddr", "io", "dispatch", "strobe",
         "strobe_addr", "strobe_data", "strobe_next", "read_ddr", "read_loop", "read_sample",
         "read_send", "write_ddr", "write_loop", "write_ack"}
    /\ configured \in BOOLEAN /\ hconfig \in Requests /\ released \in 0..(2 * MaxDevices)
    /\ ret \in {"recv", "read_ddr", "write_ack"}
    /\ \A k \in DOMAIN todo : todo[k].addr \in Nat /\ todo[k].word \in Word
    /\ j \in Nat /\ Len(sent) * DataSize < hconfig.count + DataSize
    /\ data \in Word /\ mem \in [Address -> Word] /\ busy \in BOOLEAN

\* Board and chip never drive the data lines against each other: OE is released
\* before the lines are driven (write_data_to_addr) and the lines are made
\* inputs before OE is asserted (parallel_read), across any order of requests.
NoContention == Answering => \A k \in DOMAIN Data : Data[k] \notin drv

\* While write enable is asserted, the lines show the address and the word of
\* the write in progress, and the board drives them all.
StrobeAsAsked ==
    Writing => /\ AddressDriven /\ DataDriven /\ todo # <<>>
               /\ AddressLines = Bits(Head(todo).addr)
               /\ DataLines = {Head(todo).word}

\* Write enable is asserted by write_data_to_addr only: no configuration step,
\* no commit of a shared port and no end of a session pulses it.
WriteEnableOnlyInStrobe == Asserted("we") => pc = "strobe_off"

\* The chip is selected only while it is supplied and addressed: parallel.c:46,
\* "Configure all address, data, Vcc and GND pins as outputs", and their levels,
\* reach the board before chip enable does, whatever the latches held.  At the
\* end of a session io_init lets the ports go in their order (mcp23s17.c:63-84):
\* the chip is deselected before its supply or address goes only if chip enable
\* is on a port no later than theirs.
DeselectedFirst ==
    \A p \in AddrPins \union Vcc \union Gnd : PortOf(Control["ce"].pin) <= PortOf(p)
SelectedOnlyReady ==
    Asserted("ce") /\ (pc = "release" => DeselectedFirst) => Supplied /\ AddressDriven

\* WI spans the whole of a Write(), its commands and busy waits included.  RI
\* spans the words of a Read() only: its commands are strobed (parallel.c:402)
\* before RI is asserted (:408), although configuration.py:78-81 has it "asserted
\* at the beginning of a Read()".  Neither shows outside its own request.
IndicatorsFrame ==
    /\ Asserted("wi") => hconfig.action = "WRITE" /\ Serving
    /\ Asserted("ri") => hconfig.action = "READ" /\ Serving
    /\ Writing => (Asserted("wi") <=> hconfig.action = "WRITE") /\ ~Asserted("ri")
    /\ Answering \/ pc = "read_sample" => Asserted("ri")

\* The chip is neither written nor read while it is busy (is_busy).
NoAccessWhileBusy == Writing \/ pc = "read_sample" => ~busy

\* Through the pins the target is the memory of module TargetMemory: it takes
\* the commands and words of the requests, each once and in order, and nothing
\* else, and every word the host receives is what it holds at that address.
Preparing == {"be", "rst", "we", "re", "oe", "wp", "wi", "ri", "ce",
    "power", "ddr", "io", "select", "dispatch"}
InWord == ret = "write_ack" /\ pc \in {"strobe", "strobe_oe", "strobe_addr", "strobe_data",
    "strobe_on", "strobe_off", "strobe_next", "write_ack"}
Due ==
    IF pc \in Preparing THEN IF hconfig.action = "WRITE" THEN <<>> ELSE hconfig.commands
    ELSE IF pc = "strobe_next" THEN Tail(todo) ELSE todo
Taken == IF hconfig.action # "WRITE" THEN 0 ELSE IF InWord THEN j + 1 ELSE j
Memory == INSTANCE TargetMemory WITH
    Cells <- Address, Cell <- Bits, WordSize <- DataSize, memory <- mem,
    open <- Serving, request <- hconfig,
    due <- Due, answers <- sent, taken <- Taken
ImplementsMemory == Memory!Spec

\* Outside a session every line is let go, whatever was left unfinished.
ReleasedWhenIdle == pc = "idle" => drv = {}

\* common.c:103, "Sets the specified control pin to active (tf = TRUE) or
\* inactive (tf = FALSE) state", and configuration.py:69-71, the write protect
\* pin "is deasserted in parallel mode": when the chip is selected, every line
\* parallel() has released is driven to its inactive level.
ReleasedLinesInactive ==
    pc = "dispatch" =>
        \A c \in {"rst", "we", "re", "oe", "wp", "wi", "ri"} :
            Control[c].pin \in drv /\ ~Asserted(c)

\* Every accepted request ends, and the firmware listens again; a session that
\* ends reaches the main loop.
RequestEnds == (Serving ~> pc = "recv") /\ (pc = "release" ~> pc = "idle")
=============================================================================
