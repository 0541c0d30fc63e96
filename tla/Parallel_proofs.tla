-------------------------- MODULE Parallel_proofs ---------------------------
(***************************************************************************)
(* Proofs about module Parallel.                                           *)
(***************************************************************************)
EXTENDS Parallel, Mcp23s17_proofs

-----------------------------------------------------------------------------
(* The calls of set_control_pin, one by one.                               *)

Called(from, c, tf, to) == pc = from /\ pc' = to /\ SetControlPin(c, tf)

\* Releasing a line, asserting it.
Releases ==
    \/ Called("rst", "rst", FALSE, "we") \/ Called("we", "we", FALSE, "re")
    \/ Called("re", "re", FALSE, "oe") \/ Called("oe", "oe", FALSE, "wp")
    \/ Called("wp", "wp", FALSE, "wi") \/ Called("wi", "wi", FALSE, "ri")
    \/ Called("ri", "ri", FALSE, "ce") \/ Called("ce", "ce", FALSE, "power")
    \/ Called("strobe_oe", "oe", FALSE, "strobe_addr") \/ Called("strobe_off", "we", FALSE, "strobe_next")
    \/ Called("read_oeoff", "oe", FALSE, "read_reoff") \/ Called("read_reoff", "re", FALSE, "read_send")
    \/ Called("read_end", "ri", FALSE, "recv") \/ Called("write_end", "wi", FALSE, "recv")

Asserts ==
    \/ Called("select", "ce", TRUE, "dispatch") \/ Called("strobe_on", "we", TRUE, "strobe_off")
    \/ Called("read_begin", "ri", TRUE, "read_loop") \/ Called("read_oe", "oe", TRUE, "read_re")
    \/ Called("read_re", "re", TRUE, "read_sample") \/ Called("write_begin", "wi", TRUE, "write_loop")

LEMMA CallIs ==
  ASSUME NEW from, NEW c, NEW tf, NEW to,
         Calls[from] = Call(c, tf, to), ControlStep, pc = from
  PROVE  Called(from, c, tf, to)
<1>1. Call(c, tf, to).line = c /\ Call(c, tf, to).tf = tf /\ Call(c, tf, to).next = to
  BY DEF Call
<1> QED
  BY <1>1, Zenon DEF ControlStep, Called

LEMMA ControlCases ==
  ASSUME ControlStep
  PROVE  Called("be", "be", DataSize = 1, "rst") \/ Releases \/ Asserts
<1>1. CASE pc = "be"
  <2>1. Calls["be"] = Call("be", DataSize = 1, "rst")
    BY DEF Calls
  <2> QED
    BY <1>1, <2>1, CallIs, Zenon
<1>2. CASE pc \in {"rst", "we", "re", "oe", "wp", "wi", "ri", "ce"}
  <2>1. /\ Calls["rst"] = Call("rst", FALSE, "we")
        /\ Calls["we"] = Call("we", FALSE, "re")
        /\ Calls["re"] = Call("re", FALSE, "oe")
        /\ Calls["oe"] = Call("oe", FALSE, "wp")
        /\ Calls["wp"] = Call("wp", FALSE, "wi")
        /\ Calls["wi"] = Call("wi", FALSE, "ri")
        /\ Calls["ri"] = Call("ri", FALSE, "ce")
        /\ Calls["ce"] = Call("ce", FALSE, "power")
    BY DEF Calls
  <2> QED
    BY <1>2, <2>1, CallIs, Zenon DEF Releases
<1>3. CASE pc \in {"strobe_oe", "strobe_off", "read_oeoff", "read_reoff", "read_end", "write_end"}
  <2>1. /\ Calls["strobe_oe"] = Call("oe", FALSE, "strobe_addr")
        /\ Calls["strobe_off"] = Call("we", FALSE, "strobe_next")
        /\ Calls["read_oeoff"] = Call("oe", FALSE, "read_reoff")
        /\ Calls["read_reoff"] = Call("re", FALSE, "read_send")
        /\ Calls["read_end"] = Call("ri", FALSE, "recv")
        /\ Calls["write_end"] = Call("wi", FALSE, "recv")
    BY DEF Calls
  <2> QED
    BY <1>3, <2>1, CallIs, Zenon DEF Releases
<1>4. CASE pc \in {"select", "strobe_on", "read_begin", "read_oe", "read_re", "write_begin"}
  <2>1. /\ Calls["select"] = Call("ce", TRUE, "dispatch")
        /\ Calls["strobe_on"] = Call("we", TRUE, "strobe_off")
        /\ Calls["read_begin"] = Call("ri", TRUE, "read_loop")
        /\ Calls["read_oe"] = Call("oe", TRUE, "read_re")
        /\ Calls["read_re"] = Call("re", TRUE, "read_sample")
        /\ Calls["write_begin"] = Call("wi", TRUE, "write_loop")
    BY DEF Calls
  <2> QED
    BY <1>4, <2>1, CallIs, Zenon DEF Asserts
<1>5. pc \in DOMAIN Calls
  BY DEF ControlStep
<1> QED
  BY <1>1, <1>2, <1>3, <1>4, <1>5 DEF Calls

-----------------------------------------------------------------------------
(* The program of the firmware, whatever the wiring of the board.          *)

Strobing == {"strobe", "strobe_oe", "strobe_addr", "strobe_data", "strobe_on", "strobe_off", "strobe_next"}
InRead == {"read_oe", "read_re", "read_sample", "read_oeoff", "read_reoff", "read_send"}
Reading == InRead \union {"read_ddr", "read_begin", "read_loop", "read_end"}
WritingWords == {"write_ddr", "write_begin", "write_loop", "write_ack", "write_end"}
Command == [addr : Nat, word : Word]

\* The variables of the program keep their types.
ProgramTypes ==
    /\ pc \in Strobing \union Reading \union WritingWords \union Preparing \union {"idle", "recv", "release"}
    /\ hconfig \in Requests /\ ret \in {"recv", "read_ddr", "write_ack"}
    /\ todo \in Seq(Command) /\ j \in Nat /\ data \in Word /\ sent \in Seq(Word)
    /\ mem \in [Address -> Word]

\* The action a request asked for is the one that runs: what execute_commands
\* returns to included.
ActionRuns ==
    /\ pc \in Strobing =>
         \/ hconfig.action = "READ" /\ ret = "read_ddr"
         \/ hconfig.action = "WRITE" /\ ret = "write_ack"
         \/ hconfig.action = "COMMAND" /\ ret = "recv"
    /\ pc \in Reading => hconfig.action = "READ"
    /\ pc \in WritingWords => hconfig.action = "WRITE"
    /\ pc \notin Preparing \union {"idle", "recv", "release"} => configured

\* Commands are left while they are strobed, and then only.
CommandsLeft ==
    /\ pc \notin Strobing => todo = <<>>
    /\ pc \in Strobing \ {"strobe"} => todo # <<>>

\* The words sent are those counted, and no more than were asked for.
WordsCounted ==
    /\ pc \in Preparing => j = 0 /\ sent = <<>>
    /\ hconfig.action = "READ" => Len(sent) = j
    /\ pc \in InRead => MoreWords
    /\ pc \in {"read_end", "write_end"} => ~MoreWords
    /\ Len(sent) * DataSize < hconfig.count + DataSize

\* A session with a request has all its lines on pins of chips that were found.
LinesValid == pc \notin {"idle", "recv", "release"} \/ (pc = "recv" /\ configured) => AreValidPins

Program == ProgramTypes /\ ActionRuns /\ CommandsLeft /\ WordsCounted /\ LinesValid

LEMMA ProgramConstants ==
  /\ DataSize \in {1, 2}
  /\ \A r \in Requests :
       /\ r.action \in {"READ", "WRITE", "COMMAND"}
       /\ r.addr \in Nat /\ r.count \in Nat /\ r.commands \in Seq(Command)
  BY WiringAssumption DEF DataSize, Command, Word

LEMMA CommandParts == ASSUME NEW c \in Command PROVE c.addr \in Nat /\ c.word \in Word
  BY DEF Command

\* The command that is strobed.
LEMMA HeadIsCommand ==
  ASSUME Program, pc \in Strobing \ {"strobe"}
  PROVE  todo # <<>> /\ Head(todo) \in Command /\ Head(todo).addr \in Nat /\ Head(todo).word \in Word
<1>1. todo # <<>> /\ todo \in Seq(Command)
  BY DEF Program, ProgramTypes, CommandsLeft
<1>2. Head(todo) \in Command
  BY <1>1
<1> QED
  BY <1>1, <1>2, CommandParts

\* What the target takes is a word at an address the lines can show.
LEMMA ReactsTypes ==
  ASSUME mem \in [Address -> Word], TargetReacts
  PROVE  mem' \in [Address -> Word]
  BY DEF TargetReacts, DataLines, target

LEMMA ProgramInit == Init => Program
  BY ProgramConstants
  DEF Init, Program, ProgramTypes, ActionRuns, CommandsLeft, WordsCounted, LinesValid, Word,
      Strobing, Reading, InRead, WritingWords, Preparing

LEMMA ProgramNext ==
  ASSUME Program, [Next]_vars
  PROVE  Program'
<1> USE DEF Program, ProgramTypes, ActionRuns, CommandsLeft, WordsCounted, LinesValid, AreValidPins, IsValidPin,
        Strobing, Reading, InRead, WritingWords, Preparing, table, driverVars, flow, host, target
<1>1. CASE ControlStep
  <2>0. mem' \in [Address -> Word]
    BY <1>1, ReactsTypes DEF ControlStep
  <2>1. UNCHANGED <<table, flow, host>>
    BY <1>1 DEF ControlStep
  <2>2. CASE Called("be", "be", DataSize = 1, "rst") \/ Asserts
    BY <2>0, <2>1, <2>2 DEF Called, Asserts, MoreWords
  <2>3. CASE Releases
    BY <2>0, <2>1, <2>3 DEF Called, Releases, MoreWords
  <2> QED
    BY <1>1, <2>2, <2>3, ControlCases
<1>2. CASE SupplyPower \/ CommitDirections \/ CommitLevels
  BY <1>2, ReactsTypes DEF SupplyPower, CommitDirections, CommitLevels
<1>3. CASE Dispatch
  BY <1>3, ProgramConstants DEF Dispatch
<1>4. CASE StrobeDone \/ StrobeReady
  BY <1>4 DEF StrobeDone, StrobeReady
<1>5. CASE StrobeAddress \/ StrobeData
  BY <1>5, ReactsTypes DEF StrobeAddress, StrobeData
<1>6. CASE StrobeNext
  BY <1>6 DEF StrobeNext, NextCommands
<1>7. CASE ReadDdr \/ WriteDdr
  BY <1>7, ReactsTypes DEF ReadDdr, WriteDdr, SetDataDirection
<1>8. CASE ReadLoop
  BY <1>8, ReactsTypes DEF ReadLoop, MoreWords
<1>9. CASE ReadSample
  <2>1. data' \in Word
    <3>1. AddressLines \in Address
      BY DEF AddressLines, Address
    <3>2. PICK w \in (IF Answering /\ ~DataDriven THEN {mem[AddressLines]} ELSE DataLines) :
            data' = {k \in w : DeviceOf(Data[k]) < numDevices}
      BY <1>9 DEF ReadSample
    <3>3. w \in Word
      BY <3>1, <3>2 DEF DataLines
    <3> QED
      BY <3>2, <3>3 DEF Word
  <2> QED
    BY <1>9, <2>1 DEF ReadSample, MoreWords
<1>10. CASE ReadSend
  BY <1>10, ProgramConstants DEF ReadSend, MoreWords
<1>11. ASSUME NEW w \in Word, WriteWord(w) PROVE Program'
  <2>1. [addr |-> Current, word |-> w] \in Command
    BY <1>11, ProgramConstants DEF WriteWord, Command, Current
  <2>2. todo' \in Seq(Command) /\ todo' # <<>>
    BY <1>11, <2>1, ProgramConstants DEF WriteWord
  <2> QED
    BY <1>11, <2>2, ProgramConstants DEF WriteWord
<1>12. CASE WriteAck
  BY <1>12 DEF WriteAck
<1>13. CASE WriteLoopEnd
  BY <1>13 DEF WriteLoopEnd, AfterWrites, MoreWords
<1>14. ASSUME NEW n \in PinCounts, SetPinCount(n) PROVE Program'
  BY <1>14 DEF SetPinCount
<1>15. CASE Enter \/ Leave \/ Disable
  BY <1>15, ReactsTypes DEF Enter, Leave, Disable
<1>16. ASSUME NEW r \in Requests, Configure(r) \/ SkipConfigure(r) PROVE Program'
  BY <1>16, ProgramConstants DEF Configure, SkipConfigure, Receive, IsValidConfig, Word
<1>17. CASE TargetReady \/ UNCHANGED vars
  BY <1>17 DEF TargetReady, vars, MoreWords
<1> QED
  BY <1>1, <1>2, <1>3, <1>4, <1>5, <1>6, <1>7, <1>8, <1>9, <1>10, <1>11, <1>12, <1>13, <1>14, <1>15, <1>16, <1>17
  DEF Next, Session, Firmware

-----------------------------------------------------------------------------
(* The state of the board, whatever its wiring.                            *)

\* The supply is on and the chips have been found; only the pin count changes.
Steady ==
    /\ regulator = "V47" /\ haen = Present /\ inuse = PinsOfDevices(FirstGap)
    /\ numPins \in PinCounts /\ numDevices = numPins \div PinsPerDevice

ValidPins == {p \in inuse : p < numPins}

\* Only valid pins are driven or set, and none between sessions; at the end of
\* a session none on the ports that have been let go.
Board ==
    /\ Steady
    /\ shOut \subseteq ValidPins /\ shDrv \subseteq ValidPins /\ drv \subseteq ValidPins /\ latch \subseteq Pin
    /\ pc = "idle" => shOut = {} /\ shDrv = {} /\ drv = {}
    /\ released \in 0..(2 * MaxDevices)
    /\ pc = "release" =>
         released < 2 * MaxDevices /\ \A p \in shOut \union shDrv \union drv : released <= PortOf(p)

LEMMA BoardConstants ==
  /\ Present \subseteq Device /\ PinsOfDevices(FirstGap) \subseteq Pin
  /\ \A p \in PinsOfDevices(FirstGap) : DeviceOf(p) \in Present
  /\ "V47" # "V0"
  BY BoardAssumption, ScannedPinsWired DEF Device, PinsOfDevices, Wired

\* Every pin is on a port of the addresses mcp23s17_io_init goes through.
LEMMA PortRange == ASSUME NEW p \in Pin PROVE PortOf(p) \in 0..(2 * MaxDevices - 1)
<1>1. PinsPerRegister \in Nat \ {0} /\ MaxDevices \in Nat \ {0}
  BY BoardAssumption
<1>2. p \in Nat /\ p < (2 * MaxDevices) * PinsPerRegister
  BY <1>1, Z3 DEF Pin, MaxPins, PinsPerDevice
<1>3. 2 * MaxDevices \in Nat
  BY <1>1
<1>4. p \div PinsPerRegister \in Nat /\ p \div PinsPerRegister < 2 * MaxDevices
  BY <1>1, <1>2, <1>3, DivNat, DivBelow
<1> QED
  BY <1>1, <1>4 DEF PortOf

LEMMA BoardInit == Init => Board
  BY BoardAssumption, BoardConstants, WiringAssumption DEF ValidPins, Init, DriverState, Board, Steady

\* mcp23s17_enable lets every pin go, because every chip listens.
LEMMA IoInitLetsGo ==
  ASSUME Board, IoInit
  PROVE  shOut' = {} /\ shDrv' = {} /\ drv' = {} /\ latch' = latch /\ haen' = Present
  BY BoardConstants DEF ValidPins, Board, Steady, IoInit, Powered

\* A write of mcp23s17_disable lets go of the pins of its port and no others.
LEMMA DisableLetsGo ==
  ASSUME Board, Disable
  PROVE  /\ shOut' = shOut \ PinsOf(released) /\ shDrv' = shDrv \ PinsOf(released)
         /\ drv' = drv \ PinsOf(released)
         /\ pc = "release" /\ released' = released + 1
         /\ pc' = IF released' = 2 * MaxDevices THEN "idle" ELSE "release"
         /\ UNCHANGED <<latch, haen, table, regulator, configured, todo, ret, host>>
<1>1. /\ shOut' = shOut \ PinsOf(released) /\ shDrv' = shDrv \ PinsOf(released)
      /\ drv' = Commit(drv, shDrv', {released})
      /\ pc = "release" /\ released' = released + 1
      /\ pc' = IF released' = 2 * MaxDevices THEN "idle" ELSE "release"
      /\ UNCHANGED <<latch, haen, table, regulator, configured, todo, ret, host>>
  BY DEF Disable, ReleasePort
<1>2. drv \subseteq Pin /\ \A p \in drv : DeviceOf(p) \in haen
  BY BoardConstants DEF Board, Steady, ValidPins
<1>3. drv' = drv \ PinsOf(released)
  BY <1>1, <1>2 DEF Commit, PinsOf
<1> QED
  BY <1>1, <1>3

LEMMA SetPinKeeps ==
  ASSUME Board, NEW p, NEW hl, SetPinImmediate(p, hl)
  PROVE  shOut' \subseteq ValidPins /\ latch' \subseteq Pin
  BY BoardConstants DEF ValidPins, Board, Steady, SetPinImmediate, SetBit, IsValidPin, Commit

LEMMA SetLinesKeeps ==
  ASSUME Board, NEW pins, NEW positions,
         \A k \in DOMAIN pins : pins[k] \in ValidPins, positions \subseteq DOMAIN pins,
         SetLines(pins, positions)
  PROVE  shOut' \subseteq ValidPins /\ latch' \subseteq Pin
  BY BoardConstants DEF ValidPins, Board, Steady, SetLines, Commit

LEMMA BoardNext ==
  ASSUME Program, Board, [Next]_vars
  PROVE  Board'
<1> USE DEF table, shadow, chips, driverVars, flow, host, target, ValidPins
<1>a. pc \notin {"idle", "recv", "release"} => Lines \subseteq ValidPins
  BY DEF Program, LinesValid, AreValidPins, IsValidPin
<1>b. pc = "strobe_data" => Head(todo).word \subseteq DOMAIN Data
  BY HeadIsCommand DEF Strobing, Word
<1>0. /\ \A k \in DOMAIN Addr : Addr[k] \in Lines
      /\ \A k \in DOMAIN Data : Data[k] \in Lines
      /\ \A n : Bits(n) \subseteq DOMAIN Addr
  BY DEF Lines, Bits
<1>1. CASE ControlStep
  <2>1. PICK p, hl : SetPinImmediate(p, hl)
    BY <1>1 DEF ControlStep, SetControlPin
  <2>2. UNCHANGED <<table, shDrv, drv, haen, regulator>> /\ pc \in DOMAIN Calls /\ pc' = Calls[pc].next
    BY <1>1 DEF ControlStep
  <2>3. pc' \notin {"idle", "release"} /\ UNCHANGED released
    <3>1. pc' # "idle" /\ pc' # "release"
      BY <1>1, ControlCases, Zenon DEF Called, Releases, Asserts
    <3> QED
      BY <1>1, <3>1 DEF ControlStep
  <2> QED
    BY <2>1, <2>2, <2>3, SetPinKeeps DEF Board, Steady
<1>2. CASE SupplyPower
  BY <1>2 DEF SupplyPower, SupplyLevels, ValidOnly, IsValidPin, Board, Steady
<1>3. CASE CommitDirections \/ CommitLevels
  BY <1>3, BoardConstants DEF CommitDirections, CommitLevels, CommitDdr, CommitIo, Commit, Board, Steady
<1>4. CASE StrobeAddress
  BY <1>a, <1>0, <1>4, SetLinesKeeps DEF StrobeAddress, Board, Steady
<1>5. CASE StrobeData
  BY <1>a, <1>b, <1>0, <1>5, SetLinesKeeps DEF StrobeData, Board, Steady
<1>6. CASE ReadLoop
  <2>1. CASE SetLines(Addr, Bits(Current)) /\ pc' = "read_oe"
    BY <1>a, <1>0, <1>6, <2>1, SetLinesKeeps DEF ReadLoop, Board, Steady
  <2>2. CASE pc' = "read_end" /\ UNCHANGED <<shOut, latch>>
    BY <1>6, <2>2 DEF ReadLoop, Board, Steady
  <2> QED
    BY <1>6, <2>1, <2>2 DEF ReadLoop
<1>7. CASE ReadDdr \/ WriteDdr
  <2>1. PICK out \in BOOLEAN : SetDataDirection(out) /\ pc' \notin {"idle", "release"} /\ pc \in {"read_ddr", "write_ddr"}
    BY <1>7 DEF ReadDdr, WriteDdr
  <2>2. DataPins \subseteq ValidPins
    BY <1>a, <1>0, <2>1 DEF DataPins
  <2>3. shDrv' \subseteq ValidPins
    BY <2>1, <2>2, Zenon DEF SetDataDirection, DataDirection, Board
  <2> QED
    BY <2>1, <2>3, BoardConstants DEF SetDataDirection, CommitDdr, Commit, Board, Steady
<1>8. CASE Dispatch \/ StrobeDone \/ StrobeReady \/ StrobeNext
  BY <1>8 DEF Dispatch, StrobeDone, StrobeReady, StrobeNext, Program, ProgramTypes, Board, Steady
<1>9. CASE ReadSample \/ ReadSend \/ WriteAck \/ WriteLoopEnd \/ \E w \in Word : WriteWord(w)
  BY <1>9 DEF ReadSample, ReadSend, WriteAck, WriteLoopEnd, WriteWord, AfterWrites, Board, Steady
<1>10. ASSUME NEW n \in PinCounts, SetPinCount(n) PROVE Board'
  BY <1>10 DEF SetPinCount, Board, Steady
<1>11. CASE Enter
  BY <1>11, IoInitLetsGo DEF Enter, IoInit, Board, Steady
<1>12. CASE Leave \/ Disable
  <2>1. ASSUME NEW p \in ValidPins PROVE PortOf(p) \in 0..(2 * MaxDevices - 1)
    BY BoardConstants, PortRange DEF Board, Steady
  <2>2. CASE Leave
    BY <2>1, <2>2, BoardAssumption DEF Leave, Board, Steady
  <2>3. CASE Disable
    <3>1. \A p \in shOut' \union shDrv' \union drv' : p \in ValidPins /\ released <= PortOf(p) /\ PortOf(p) # released
      BY <2>3, BoardConstants, DisableLetsGo DEF Board, Steady, PinsOf
    <3>2. \A p \in shOut' \union shDrv' \union drv' : released + 1 <= PortOf(p) /\ PortOf(p) < 2 * MaxDevices
      <4>1. released \in Int /\ 2 * MaxDevices \in Int
        BY BoardAssumption DEF Board
      <4>2. ASSUME NEW p \in shOut' \union shDrv' \union drv' PROVE released + 1 <= PortOf(p) /\ PortOf(p) < 2 * MaxDevices
        <5>1. PortOf(p) \in 0..(2 * MaxDevices - 1) /\ released <= PortOf(p) /\ PortOf(p) # released
          BY <2>1, <3>1
        <5> QED
          BY <4>1, <5>1
      <4> QED
        BY <4>2
    <3>3. released' \in 0..(2 * MaxDevices) /\ (pc' = "release" => released' < 2 * MaxDevices)
      <4>1. released' = released + 1 /\ pc = "release" /\ (pc' = "release" => released' # 2 * MaxDevices)
        BY <2>3, DisableLetsGo
      <4>2. released \in Nat /\ released < 2 * MaxDevices /\ 2 * MaxDevices \in Nat
        BY <4>1, BoardAssumption DEF Board
      <4> QED
        BY <4>1, <4>2
    <3>4. pc' = "idle" => shOut' = {} /\ shDrv' = {} /\ drv' = {}
      <4>1. pc' = "idle" => released + 1 = 2 * MaxDevices
        BY <2>3, DisableLetsGo
      <4>2. ASSUME pc' = "idle" PROVE shOut' \union shDrv' \union drv' = {}
        <5>1. \A p \in shOut' \union shDrv' \union drv' : PortOf(p) \in Int
          BY <2>1, <3>1
        <5> QED
          BY <3>2, <4>1, <4>2, <5>1, BoardAssumption
      <4> QED
        BY <4>2
    <3> QED
      BY <2>3, <3>1, <3>2, <3>3, <3>4, DisableLetsGo DEF Board, Steady
  <2> QED
    BY <1>12, <2>2, <2>3
<1>13. ASSUME NEW r \in Requests, Configure(r) PROVE Board'
  BY <1>13 DEF Configure, ValidOnly, IsValidPin, Board, Steady
<1>14. ASSUME NEW r \in Requests, SkipConfigure(r) PROVE Board'
  BY <1>14 DEF SkipConfigure, Board, Steady
<1>15. CASE TargetReady \/ UNCHANGED vars
  BY <1>15 DEF TargetReady, vars, Board, Steady
<1> QED
  BY <1>1, <1>2, <1>3, <1>4, <1>5, <1>6, <1>7, <1>8, <1>9, <1>10, <1>11, <1>12, <1>13, <1>14, <1>15
  DEF Next, Session, Firmware

-----------------------------------------------------------------------------
(* The truth values.                                                       *)

Flags == configured \in BOOLEAN /\ busy \in BOOLEAN

LEMMA FlagsInit == Init => Flags
  BY Zenon DEF Init, Flags

LEMMA FlagsNext == ASSUME Flags, [Next]_vars PROVE Flags'
<1>1. busy' \in BOOLEAN
  <2>1. TargetReacts => busy' \in BOOLEAN
    BY Zenon DEF TargetReacts, target, Flags
  <2> QED
    BY <2>1, Zenon
    DEF Next, Session, Firmware, ControlStep, SupplyPower, CommitDirections, CommitLevels, Dispatch,
        StrobeDone, StrobeReady, StrobeAddress, StrobeData, StrobeNext, ReadDdr, ReadLoop, ReadSample, ReadSend,
        WriteDdr, WriteWord, WriteAck, WriteLoopEnd, SetDataDirection, SetPinCount, Enter, Leave, Disable, Configure,
        SkipConfigure, TargetReady, vars, target, Flags
<1>2. configured' \in BOOLEAN
  BY Zenon
  DEF Next, Session, Firmware, ControlStep, SupplyPower, CommitDirections, CommitLevels, Dispatch,
      StrobeDone, StrobeReady, StrobeAddress, StrobeData, StrobeNext, ReadDdr, ReadLoop, ReadSample, ReadSend,
      WriteDdr, WriteWord, WriteAck, WriteLoopEnd, SetDataDirection, SetPinCount, Enter, Leave, Disable, Configure,
      SkipConfigure, TargetReady, vars, flow, Flags
<1> QED
  BY <1>1, <1>2 DEF Flags

-----------------------------------------------------------------------------
(* What holds whatever the wiring.                                         *)

LEMMA BoardInvariance == Spec => [](Program /\ Board /\ Flags)
<1>1. Init => Program /\ Board /\ Flags
  BY ProgramInit, BoardInit, FlagsInit
<1>2. Program /\ Board /\ Flags /\ [Next]_vars => (Program /\ Board /\ Flags)'
  BY ProgramNext, BoardNext, FlagsNext
<1> QED
  BY <1>1, <1>2, PTL DEF Spec

\* Type correctness, and that no read sends more words than it was asked for.
THEOREM Typing == Spec => []TypeOK
<1>1. Program /\ Board /\ Flags => TypeOK
  <2> SUFFICES ASSUME Program, Board, Flags PROVE TypeOK
    OBVIOUS
  <2>1. DriverTypeOK
    <3>1. MaxPins \in Nat
      BY BoardAssumption, Z3 DEF MaxPins, PinsPerDevice
    <3>2. numPins \in Byte
      BY <3>1, WiringAssumption, ScanFits DEF Board, Steady, Byte
    <3> QED
      BY <3>2, BoardConstants DEF DriverTypeOK, Board, ValidPins, Steady, Volt
  <2>2. pc \in DOMAIN Calls \union {"idle", "recv", "release", "power", "ddr", "io", "dispatch", "strobe",
         "strobe_addr", "strobe_data", "strobe_next", "read_ddr", "read_loop", "read_sample",
         "read_send", "write_ddr", "write_loop", "write_ack"}
    BY DEF Program, ProgramTypes, Strobing, Reading, InRead, WritingWords, Preparing, Calls
  <2>3. \A k \in DOMAIN todo : todo[k].addr \in Nat /\ todo[k].word \in Word
    <3>1. \A k \in DOMAIN todo : todo[k] \in Command
      BY DEF Program, ProgramTypes
    <3> QED
      BY <3>1, CommandParts
  <2> QED
    BY <2>1, <2>2, <2>3 DEF TypeOK, Program, ProgramTypes, WordsCounted, Flags, Board
<1> QED
  BY <1>1, BoardInvariance, PTL

\* However a session ends, every line is let go.
THEOREM LetGo == Spec => []ReleasedWhenIdle
<1>1. Board => ReleasedWhenIdle
  BY DEF Board, ReleasedWhenIdle
<1> QED
  BY <1>1, BoardInvariance, PTL

-----------------------------------------------------------------------------
(* The pins of a proper target.                                            *)

\* Once a request has configured the board it stays so for the session.
Live == pc \notin {"idle", "release"} /\ (configured \/ pc \in {"select", "dispatch"})

\* A configuration has reached the RAM copies, or reaches it in this request.
Requested == pc \notin {"idle", "recv", "release"} \/ (pc = "recv" /\ configured)

\* The statements that prepare a request, in their order.
Statement == [be |-> 1, rst |-> 2, we |-> 3, re |-> 4, oe |-> 5, wp |-> 6, wi |-> 7, ri |-> 8, ce |-> 9,
              power |-> 10, ddr |-> 11, io |-> 12, select |-> 13, dispatch |-> 14]
After(c) == pc \in Preparing /\ Statement[c] < Statement[pc]

Outputs ==
    AddrPins \union Vcc \union Gnd
    \union {p \in ValidPins : \E c \in ControlName \ {"by", "wp"} : p = Control[c].pin}

\* The chips drive the outputs once the directions are committed, not before,
\* and never the busy line.
Driven ==
    /\ Requested => Outputs \subseteq shDrv
    /\ Live \/ pc = "io" => Outputs \subseteq drv
    /\ ~Live /\ pc \notin {"io", "release"} => drv = {}
    /\ Control["by"].pin \notin shDrv \union drv

\* The data lines are inputs from the start of a read, outputs in a write.
DataDirected ==
    /\ pc \in Preparing \ {"dispatch"} => DataPins \subseteq shDrv
    /\ pc \in {"io", "select"} => DataPins \subseteq drv
    /\ pc = "dispatch" /\ hconfig.reconfigure => DataPins \subseteq drv
    /\ pc \in Reading \ {"read_ddr"} => DataPins \intersect drv = {}
    /\ pc \in WritingWords \ {"write_ddr"} \/ (pc \in Strobing /\ ret = "write_ack") => DataPins \subseteq drv

\* The latches show the RAM copy once the levels are committed; before, they
\* may be high where it is low, and the supply is in RAM only.
Shown ==
    /\ pc \notin {"idle", "release"} => shOut \ Vcc \subseteq latch
    /\ Live => latch \intersect ValidPins = shOut
    /\ Live \/ pc \in {"ddr", "io"} => Vcc \subseteq shOut /\ Gnd \intersect shOut = {}

\* Where a control line is asserted.
LineOn(c) ==
    \/ c = "we" /\ pc = "strobe_off"
    \/ c = "oe" /\ pc \in {"read_re", "read_sample", "read_oeoff"}
    \/ c = "re" /\ pc \in {"read_sample", "read_oeoff", "read_reoff"}
    \/ c = "ri" /\ pc \in InRead \union {"read_loop", "read_end"}
    \/ c = "wi" /\ (pc \in {"write_loop", "write_ack", "write_end"} \/ (pc \in Strobing /\ ret = "write_ack"))
    \/ c = "ce" /\ pc \notin {"power", "ddr", "io", "select"}

\* The lines parallel() asserts and releases.
Switched == {"ce", "we", "re", "oe", "wi", "ri"}

Levels ==
    \A c \in Switched :
        Control[c].pin \in ValidPins /\ (Live \/ After(c)) => (Control[c].pin \in shOut <=> ~LineOn(c))

\* At the end of a session the ports not yet let go show what they showed
\* before: supply and address, the chip selected and no other line asserted.
LettingGo ==
    pc = "release" /\ drv # {} =>
        /\ \A p \in Outputs : released <= PortOf(p) => p \in drv
        /\ Vcc \subseteq latch /\ Gnd \intersect latch = {}
        /\ \A c \in Switched : Control[c].pin \in ValidPins => (Control[c].pin \in latch <=> c # "ce")

Lined == Driven /\ DataDirected /\ Shown /\ Levels /\ LettingGo

\* Every valid pin is on a port that a commit of all settings reaches.
LEMMA ValidHit ==
  ASSUME WholeChips, Board, NEW p \in ValidPins
  PROVE  p \in Pin /\ DeviceOf(p) \in haen /\ PortOf(p) \in PortsOfDevices(numDevices)
<1>1. p \in Pin /\ p \in PinsOfDevices(FirstGap) /\ p < numPins
  BY BoardConstants DEF ValidPins, Board, Steady
<1>2. PinsPerRegister \in Nat \ {0} /\ PinsPerDevice = PinsPerRegister * 2 /\ PinsPerDevice \in Nat \ {0}
  BY BoardAssumption DEF PinsPerDevice
<1>3. numPins \in Nat /\ numPins % PinsPerDevice = 0 /\ numDevices = numPins \div PinsPerDevice
  BY WiringAssumption DEF WholeChips, Board, Steady
<1>4. numDevices \in Nat /\ numPins = numDevices * PinsPerDevice
  <2>1. numPins = PinsPerDevice * (numPins \div PinsPerDevice) + (numPins % PinsPerDevice)
    BY <1>2, <1>3, Z3
  <2>2. numPins \div PinsPerDevice \in Nat
    BY <1>2, <1>3, DivNat
  <2> QED
    BY <1>2, <1>3, <2>1, <2>2, Z3
<1>5. p \in Nat /\ p < (2 * numDevices) * PinsPerRegister
  <2>1. p \in Nat
    BY <1>1, BoardAssumption, Z3 DEF Pin, MaxPins, PinsPerDevice
  <2> QED
    BY <1>1, <1>2, <1>3, <1>4, <2>1, Z3
<1>6. p \div PinsPerRegister < 2 * numDevices
  BY <1>2, <1>4, <1>5, DivBelow
<1> QED
  BY <1>1, <1>6, BoardConstants DEF Board, Steady, PortsOfDevices, Port, PortOf

LEMMA DirectionsCommitted ==
  ASSUME WholeChips, Board, shDrv' \subseteq ValidPins, CommitDdr
  PROVE  drv' = shDrv'
<1>1. drv \subseteq ValidPins
  BY DEF Board
<1> QED
  BY <1>1, ValidHit DEF CommitDdr, Commit

LEMMA LevelsCommitted ==
  ASSUME WholeChips, Board, shOut' \subseteq ValidPins, CommitIo
  PROVE  latch' \intersect ValidPins = shOut'
  BY ValidHit DEF CommitIo, Commit

\* What set_pin_immediate does to the RAM copy, and that the latches of the
\* port follow.
LEMMA PinSwitched ==
  ASSUME WholeChips, Board, NEW p, NEW hl \in BOOLEAN, SetPinImmediate(p, hl)
  PROVE  /\ p \notin ValidPins => shOut' = shOut
         /\ p \in ValidPins /\ hl => shOut' = shOut \union {p}
         /\ p \in ValidPins /\ ~hl => shOut' = shOut \ {p}
         /\ latch \intersect ValidPins = shOut => latch' \intersect ValidPins = shOut'
         /\ shOut \ Vcc \subseteq latch => shOut' \ Vcc \subseteq latch'
<1>1. IsValidPin(p) <=> p \in ValidPins
  BY DEF IsValidPin, ValidPins
<1>2. /\ p \notin ValidPins => shOut' = shOut
      /\ p \in ValidPins /\ hl => shOut' = shOut \union {p}
      /\ p \in ValidPins /\ ~hl => shOut' = shOut \ {p}
  BY <1>1 DEF SetPinImmediate, SetBit
<1>3. shOut \subseteq ValidPins /\ shOut' \subseteq ValidPins
  BY <1>2 DEF Board
<1>4. CASE shOut' = shOut
  BY <1>2, <1>4 DEF SetPinImmediate
<1>5. CASE shOut' # shOut
  <2>1. latch' = Commit(latch, shOut', {PortOf(p)})
    BY <1>5 DEF SetPinImmediate
  <2>2. \A q \in ValidPins : q # p => (q \in shOut' <=> q \in shOut)
    BY <1>2
  <2>3. \A q \in ValidPins : q \in latch' <=> (IF PortOf(q) = PortOf(p) THEN q \in shOut' ELSE q \in latch)
    BY <2>1, ValidHit DEF Commit
  <2> QED
    BY <1>2, <1>3, <2>2, <2>3
<1> QED
  BY <1>4, <1>5

\* The same for set_address and set_data.
LEMMA LinesSet ==
  ASSUME WholeChips, Board, NEW pins, NEW positions, SetLines(pins, positions),
         \A k \in DOMAIN pins : pins[k] \in ValidPins, positions \subseteq DOMAIN pins,
         latch \intersect ValidPins = shOut
  PROVE  /\ shOut' = (shOut \ {pins[k] : k \in DOMAIN pins}) \union {pins[k] : k \in positions}
         /\ latch' \intersect ValidPins = shOut'
<1>1. /\ shOut' = (shOut \ {pins[k] : k \in DOMAIN pins}) \union {pins[k] : k \in positions}
      /\ latch' = Commit(latch, shOut', {PortOf(q) : q \in {pins[k] : k \in DOMAIN pins}})
  BY DEF SetLines
<1>2. shOut' \subseteq ValidPins
  BY <1>1 DEF Board
<1>3. \A q \in ValidPins : q \notin {pins[k] : k \in DOMAIN pins} => (q \in shOut' <=> q \in shOut)
  BY <1>1
<1>4. \A q \in ValidPins :
        q \in latch' <=> (IF PortOf(q) \in {PortOf(r) : r \in {pins[k] : k \in DOMAIN pins}}
                          THEN q \in shOut' ELSE q \in latch)
  BY <1>1, ValidHit DEF Commit
<1> QED
  BY <1>1, <1>2, <1>3, <1>4

\* The lines of a request are on valid pins, each on its own.
LEMMA PinsApart ==
  ASSUME OwnPins, Program
  PROVE  /\ Lines = AddrPins \union DataPins \union Vcc \union Gnd
         /\ DataPins \intersect AddrPins = {} /\ Vcc \intersect AddrPins = {} /\ Gnd \intersect AddrPins = {}
         /\ DataPins \intersect Vcc = {} /\ DataPins \intersect Gnd = {} /\ Vcc \intersect Gnd = {}
         /\ \A c \in ControlName : Control[c].pin \notin Lines
         /\ \A c, d \in ControlName : c # d /\ Control[c].pin \in Pin => Control[c].pin # Control[d].pin
         /\ Requested => Lines \subseteq ValidPins
<1>1. Requested => Lines \subseteq ValidPins
  BY DEF Program, LinesValid, Requested, AreValidPins, IsValidPin, ValidPins
<1> QED
  BY <1>1 DEF OwnPins, Lines, AddrPins, DataPins

LEMMA DrivenNext ==
  ASSUME ProperTarget, Program, Board, Board', Driven, [Next]_vars
  PROVE  Driven'
<1> USE DEF ProperTarget, Driven, Live, Requested, table, shadow, chips, driverVars, flow, host, target
<1>a. UNCHANGED table => ValidPins' = ValidPins /\ Outputs' = Outputs
  BY DEF ValidPins, Outputs
<1>b. pc \in Strobing \union Reading \union WritingWords => configured
  BY DEF Program, ProgramTypes, ActionRuns, Strobing, Reading, InRead, WritingWords, Preparing
<1>c. pc \in Strobing => ret \in {"recv", "read_ddr", "write_ack"}
  BY DEF Program, ProgramTypes
<1> USE <1>a, <1>b, <1>c DEF Strobing, Reading, InRead, WritingWords
<1>1. CASE ControlStep
  <2>1. UNCHANGED <<table, shDrv, drv, configured>>
    BY <1>1 DEF ControlStep
  <2>2. CASE Called("be", "be", DataSize = 1, "rst") \/ Asserts
    BY <2>1, <2>2 DEF Called, Asserts
  <2>3. CASE Releases
    BY <2>1, <2>3 DEF Called, Releases
  <2> QED
    BY <1>1, <2>2, <2>3, ControlCases
<1>2. CASE SupplyPower \/ CommitLevels
  BY <1>2 DEF SupplyPower, CommitLevels
<1>3. CASE CommitDirections
  BY <1>3, DirectionsCommitted DEF CommitDirections, Board
<1>4. CASE Dispatch
  BY <1>4 DEF Dispatch
<1>5. CASE StrobeDone \/ StrobeReady \/ StrobeAddress \/ StrobeData \/ StrobeNext
  BY <1>5 DEF StrobeDone, StrobeReady, StrobeAddress, StrobeData, StrobeNext
<1>6. CASE ReadDdr \/ WriteDdr
  <2>1. PICK out \in BOOLEAN :
          SetDataDirection(out) /\ pc \in {"read_ddr", "write_ddr"} /\ pc' \in {"read_begin", "write_begin"}
    BY <1>6 DEF ReadDdr, WriteDdr
  <2>2. shDrv' = shDrv \union DataPins \/ shDrv' = shDrv \ DataPins
    BY <2>1, Zenon DEF SetDataDirection, DataDirection
  <2>3. drv' = shDrv' /\ UNCHANGED <<table, configured>>
    BY <2>1, DirectionsCommitted DEF SetDataDirection, Board, ValidPins
  <2>4. DataPins \intersect Outputs = {} /\ Control["by"].pin \notin DataPins
    BY PinsApart DEF Outputs, ControlName
  <2> QED
    BY <2>1, <2>2, <2>3, <2>4
<1>7. CASE ReadLoop
  BY <1>7 DEF ReadLoop
<1>8. CASE ReadSample \/ ReadSend \/ WriteAck \/ WriteLoopEnd \/ \E w \in Word : WriteWord(w)
  BY <1>8 DEF ReadSample, ReadSend, WriteAck, WriteLoopEnd, WriteWord, AfterWrites
<1>9. ASSUME NEW n \in PinCounts, SetPinCount(n) PROVE Driven'
  BY <1>9 DEF SetPinCount, Board
<1>10. CASE Enter
  BY <1>10, IoInitLetsGo DEF Enter
<1>11. CASE Leave
  BY <1>11 DEF Leave
<1>15. CASE Disable
  <2>1. pc = "release" /\ pc' \in {"idle", "release"} /\ drv' \subseteq drv /\ shDrv' \subseteq shDrv /\ UNCHANGED table
    BY <1>15, DisableLetsGo
  <2> QED
    BY <2>1 DEF Board
<1>12. ASSUME NEW r \in Requests, Configure(r) PROVE Driven'
  <2>1. AreValidPins /\ UNCHANGED <<table, drv, configured>> /\ pc = "recv" /\ pc' = "be"
    BY <1>12 DEF Configure, Receive, IsValidConfig
  <2>2. ValidPins \subseteq Pin
    BY BoardConstants DEF ValidPins, Board, Steady
  <2>3. Control["by"].pin \notin Outputs
    BY <2>2, PinsApart DEF Outputs, ControlName
  <2>4. \A pins : ValidOnly(pins) = {p \in pins : p \in ValidPins}
    BY DEF ValidOnly, IsValidPin, ValidPins
  <2>5. Lines \subseteq ValidPins
    BY <2>1 DEF AreValidPins, IsValidPin, ValidPins
  <2>6. shDrv' = (shDrv \union ValidOnly(Lines \union {Control[c].pin : c \in ControlName \ {"by", "wp"}}))
                   \ ValidOnly({Control["by"].pin})
    BY <1>12 DEF Configure
  <2>7. Outputs \subseteq shDrv'
    BY <2>3, <2>4, <2>5, <2>6, PinsApart DEF Outputs
  <2>8. Control["by"].pin \notin shDrv'
    BY <2>4, <2>6 DEF Board
  <2> QED
    BY <2>1, <2>7, <2>8
<1>13. ASSUME NEW r \in Requests, SkipConfigure(r) PROVE Driven'
  BY <1>13 DEF SkipConfigure, Receive
<1>14. CASE TargetReady \/ UNCHANGED vars
  BY <1>14 DEF TargetReady, vars
<1> QED
  BY <1>1, <1>2, <1>3, <1>4, <1>5, <1>6, <1>7, <1>8, <1>9, <1>10, <1>11, <1>12, <1>13, <1>14, <1>15
  DEF Next, Session, Firmware

LEMMA DataDirectedNext ==
  ASSUME ProperTarget, Program, Board, Board', DataDirected, [Next]_vars
  PROVE  DataDirected'
<1> USE DEF ProperTarget, DataDirected, table, shadow, chips, driverVars, flow, host, target,
            Strobing, Reading, InRead, WritingWords, Preparing
<1>c. pc \in Strobing => ret \in {"recv", "read_ddr", "write_ack"} /\ (ret = "write_ack" <=> hconfig.action = "WRITE")
  BY DEF Program, ProgramTypes, ActionRuns
<1> USE <1>c
<1>1. CASE ControlStep
  <2>1. UNCHANGED <<shDrv, drv, hconfig, ret>>
    BY <1>1 DEF ControlStep
  <2>2. CASE Called("be", "be", DataSize = 1, "rst") \/ Asserts
    BY <2>1, <2>2 DEF Called, Asserts
  <2>3. CASE Releases
    BY <2>1, <2>3 DEF Called, Releases
  <2> QED
    BY <1>1, <2>2, <2>3, ControlCases
<1>2. CASE SupplyPower \/ CommitLevels
  BY <1>2 DEF SupplyPower, CommitLevels
<1>3. CASE CommitDirections
  BY <1>3, DirectionsCommitted DEF CommitDirections, Board
<1>4. CASE Dispatch
  BY <1>4 DEF Dispatch
<1>5. CASE StrobeDone \/ StrobeReady \/ StrobeAddress \/ StrobeData \/ StrobeNext
  BY <1>5 DEF StrobeDone, StrobeReady, StrobeAddress, StrobeData, StrobeNext
<1>6. CASE ReadDdr
  <2>1. SetDataDirection(FALSE) /\ pc' = "read_begin"
    BY <1>6 DEF ReadDdr
  <2>2. shDrv' = shDrv \ DataPins
    BY <2>1, Zenon DEF SetDataDirection, DataDirection
  <2>3. drv' = shDrv'
    BY <2>1, DirectionsCommitted DEF SetDataDirection, Board, ValidPins
  <2> QED
    BY <2>1, <2>2, <2>3
<1>7. CASE WriteDdr
  <2>1. SetDataDirection(TRUE) /\ pc' = "write_begin"
    BY <1>7 DEF WriteDdr
  <2>2. shDrv' = shDrv \union DataPins
    BY <2>1, Zenon DEF SetDataDirection, DataDirection
  <2>3. drv' = shDrv'
    BY <2>1, DirectionsCommitted DEF SetDataDirection, Board, ValidPins
  <2> QED
    BY <2>1, <2>2, <2>3
<1>8. CASE ReadLoop
  BY <1>8 DEF ReadLoop
<1>9. CASE ReadSample \/ ReadSend \/ WriteAck \/ WriteLoopEnd \/ \E w \in Word : WriteWord(w)
  BY <1>9 DEF ReadSample, ReadSend, WriteAck, WriteLoopEnd, WriteWord, AfterWrites
<1>10. CASE (\E n \in PinCounts : SetPinCount(n)) \/ Enter \/ Leave \/ Disable
  BY <1>10 DEF SetPinCount, Enter, Leave, Disable
<1>11. ASSUME NEW r \in Requests, Configure(r) PROVE DataDirected'
  <2>1. AreValidPins /\ pc' = "be"
    BY <1>11 DEF Configure, Receive, IsValidConfig
  <2>2. DataPins \subseteq Lines /\ Control["by"].pin \notin Lines
    BY PinsApart DEF ControlName
  <2>3. \A pins : ValidOnly(pins) = {p \in pins : p \in ValidPins}
    BY DEF ValidOnly, IsValidPin, ValidPins
  <2>4. Lines \subseteq ValidPins
    BY <2>1 DEF AreValidPins, IsValidPin, ValidPins
  <2>5. shDrv' = (shDrv \union ValidOnly(Lines \union {Control[c].pin : c \in ControlName \ {"by", "wp"}}))
                   \ ValidOnly({Control["by"].pin})
    BY <1>11 DEF Configure
  <2>6. DataPins \subseteq shDrv'
    BY <2>2, <2>3, <2>4, <2>5
  <2> QED
    BY <2>1, <2>6
<1>12. ASSUME NEW r \in Requests, SkipConfigure(r) PROVE DataDirected'
  BY <1>12 DEF SkipConfigure, Receive
<1>13. CASE TargetReady \/ UNCHANGED vars
  BY <1>13 DEF TargetReady, vars
<1> QED
  BY <1>1, <1>2, <1>3, <1>4, <1>5, <1>6, <1>7, <1>8, <1>9, <1>10, <1>11, <1>12, <1>13
  DEF Next, Session, Firmware

LEMMA ShownNext ==
  ASSUME ProperTarget, Program, Board, Board', Shown, [Next]_vars
  PROVE  Shown'
<1> USE DEF ProperTarget, Shown, Live, table, shadow, chips, driverVars, flow, host, target
<1>a. UNCHANGED table => ValidPins' = ValidPins
  BY DEF ValidPins
<1>b. pc \in Strobing \union Reading \union WritingWords => configured
  BY DEF Program, ProgramTypes, ActionRuns, Strobing, Reading, InRead, WritingWords, Preparing
<1>c. pc \in Strobing => ret \in {"recv", "read_ddr", "write_ack"}
  BY DEF Program, ProgramTypes
<1>d. Vcc \intersect Gnd = {} /\ Vcc \union Gnd \subseteq Lines /\ (pc \notin {"idle", "recv", "release"} => Lines \subseteq ValidPins)
  BY PinsApart DEF Requested
<1> USE <1>a, <1>b, <1>c DEF Strobing, Reading, InRead, WritingWords
<1>1. CASE ControlStep
  <2>1. PICK c \in ControlName, tf \in BOOLEAN : SetControlPin(c, tf) /\ UNCHANGED <<table, configured>>
    <3>1. UNCHANGED <<table, configured>>
      BY <1>1 DEF ControlStep
    <3>2. \E c \in ControlName, tf \in BOOLEAN : SetControlPin(c, tf)
      BY <1>1, ControlCases, Zenon DEF Called, Releases, Asserts, ControlName
    <3> QED
      BY <3>1, <3>2
  <2>2. PICK hl \in BOOLEAN : SetPinImmediate(Control[c].pin, hl)
    <3>1. LevelFor(Control[c].active, tf) \in BOOLEAN
      BY Zenon DEF LevelFor
    <3> QED
      BY <2>1, <3>1 DEF SetControlPin
  <2>3. Control[c].pin \notin Vcc \union Gnd
    BY <1>d, PinsApart
  <2>4. /\ shOut \ Vcc \subseteq latch => shOut' \ Vcc \subseteq latch'
        /\ latch \intersect ValidPins = shOut => latch' \intersect ValidPins = shOut'
        /\ Vcc \subseteq shOut => Vcc \subseteq shOut'
        /\ Gnd \intersect shOut = {} => Gnd \intersect shOut' = {}
    BY <2>2, <2>3, PinSwitched
  <2>5. pc # "idle" /\ pc # "release" /\ (pc' \in {"ddr", "io"} => pc \in {"ddr", "io"}) /\ (pc' \in {"select", "dispatch"} => pc = "select")
    BY <1>1, ControlCases, Zenon DEF Called, Releases, Asserts
  <2> QED
    BY <2>1, <2>4, <2>5
<1>2. CASE SupplyPower
  <2>1. ValidOnly(Vcc) = Vcc /\ ValidOnly(Gnd) = Gnd
    BY <1>2, <1>d DEF SupplyPower, ValidOnly, IsValidPin, ValidPins
  <2>2. shOut' = (shOut \union Vcc) \ Gnd
    BY <1>2, <2>1 DEF SupplyPower, SupplyLevels
  <2> QED
    BY <1>2, <1>d, <2>2 DEF SupplyPower
<1>3. CASE CommitDirections
  BY <1>3 DEF CommitDirections
<1>4. CASE CommitLevels
  BY <1>4, LevelsCommitted DEF CommitLevels, Board
<1>5. CASE Dispatch
  BY <1>5 DEF Dispatch
<1>6. CASE StrobeDone \/ StrobeReady \/ StrobeNext
  BY <1>6 DEF StrobeDone, StrobeReady, StrobeNext
<1>7. ASSUME NEW pins, NEW positions, SetLines(pins, positions),
             \A k \in DOMAIN pins : pins[k] \in AddrPins \union DataPins, positions \subseteq DOMAIN pins,
             pc \in Strobing \union Reading, pc' \notin {"ddr", "io", "idle", "release"}, UNCHANGED <<table, configured>>
      PROVE  Shown'
  <2>1. \A k \in DOMAIN pins : pins[k] \in ValidPins
    BY <1>7, <1>d, PinsApart
  <2>2. (Vcc \union Gnd) \intersect {pins[k] : k \in DOMAIN pins} = {}
    BY <1>7, PinsApart
  <2>3. latch' \intersect ValidPins = shOut'
    BY <1>7, <2>1, LinesSet
  <2>4. shOut' = (shOut \ {pins[k] : k \in DOMAIN pins}) \union {pins[k] : k \in positions}
    BY <1>7, <2>1, LinesSet
  <2> QED
    BY <1>7, <2>2, <2>3, <2>4
<1>8. CASE StrobeAddress
  BY <1>7, <1>8 DEF StrobeAddress, AddrPins, Bits
<1>9. CASE StrobeData
  <2>1. Head(todo).word \subseteq DOMAIN Data
    BY <1>9, HeadIsCommand DEF StrobeData, Word
  <2> QED
    BY <1>7, <1>9, <2>1 DEF StrobeData, DataPins
<1>10. CASE ReadLoop
  BY <1>7, <1>10 DEF ReadLoop, AddrPins, Bits
<1>11. CASE ReadDdr \/ WriteDdr
  BY <1>11 DEF ReadDdr, WriteDdr, SetDataDirection
<1>12. CASE ReadSample \/ ReadSend \/ WriteAck \/ WriteLoopEnd \/ \E w \in Word : WriteWord(w)
  BY <1>12 DEF ReadSample, ReadSend, WriteAck, WriteLoopEnd, WriteWord, AfterWrites
<1>13. CASE \E n \in PinCounts : SetPinCount(n)
  BY <1>13 DEF SetPinCount
<1>14. CASE Enter \/ Leave \/ Disable
  BY <1>14, IoInitLetsGo DEF Enter, Leave, Disable
<1>15. ASSUME NEW r \in Requests, Configure(r) \/ SkipConfigure(r) PROVE Shown'
  BY <1>15 DEF Configure, SkipConfigure, Receive
<1>16. CASE TargetReady \/ UNCHANGED vars
  BY <1>16 DEF TargetReady, vars
<1> QED
  BY <1>1, <1>2, <1>3, <1>4, <1>5, <1>6, <1>8, <1>9, <1>10, <1>11, <1>12, <1>13, <1>14, <1>15, <1>16
  DEF Next, Session, Firmware

LEMMA StatementOrder ==
  /\ Statement["be"] = 1 /\ Statement["rst"] = 2 /\ Statement["we"] = 3 /\ Statement["re"] = 4
  /\ Statement["oe"] = 5 /\ Statement["wp"] = 6 /\ Statement["wi"] = 7 /\ Statement["ri"] = 8
  /\ Statement["ce"] = 9 /\ Statement["power"] = 10 /\ Statement["ddr"] = 11 /\ Statement["io"] = 12
  /\ Statement["select"] = 13 /\ Statement["dispatch"] = 14
  BY DEF Statement

\* A line is released high and asserted low.
LEMMA LevelSet ==
  ASSUME ActiveLow, NEW c \in Switched
  PROVE  ~LevelFor(Control[c].active, TRUE) /\ LevelFor(Control[c].active, FALSE)
<1>1. Control[c].active = 0
  BY DEF ActiveLow, Switched
<1> QED
  BY <1>1 DEF LevelFor

\* A call of set_control_pin changes when a line is due and asserted for its
\* own line only.
Moves(d, tf) ==
    /\ \A c \in Switched \ {d} :
         (LineOn(c)' <=> LineOn(c)) /\ (Live' \/ After(c)' => Live \/ After(c))
    /\ d \in Switched => (LineOn(d)' <=> tf)

LEMMA ControlMoves ==
  ASSUME Program, ControlStep
  PROVE  \E d \in ControlName, tf \in BOOLEAN : SetControlPin(d, tf) /\ Moves(d, tf)
<1> DEFINE Goal == \E d \in ControlName, tf \in BOOLEAN : SetControlPin(d, tf) /\ Moves(d, tf)
<1>0. UNCHANGED <<ret, configured>>
  BY DEF ControlStep, flow
<1>a. ASSUME NEW from, NEW d \in ControlName, NEW tf \in BOOLEAN, NEW to,
             Called(from, d, tf, to), Called(from, d, tf, to) => Moves(d, tf)
      PROVE  Goal
  BY <1>a, Zenon DEF Called
<1>b. (DataSize = 1) \in BOOLEAN
  OBVIOUS
<1>c. \A c \in Switched : Statement[c] \in 3..9
  BY StatementOrder DEF Switched
<1>d. {"be", "rst", "we", "re", "oe", "wp", "wi", "ri", "ce"} \subseteq Preparing
  BY DEF Preparing
<1> USE <1>0, <1>c, <1>d DEF LineOn, Live, After, Switched, InRead, Strobing, ControlName
<1>1. /\ Called("be", "be", DataSize = 1, "rst") => Moves("be", DataSize = 1)
      /\ Called("rst", "rst", FALSE, "we") => Moves("rst", FALSE)
      /\ Called("we", "we", FALSE, "re") => Moves("we", FALSE)
      /\ Called("re", "re", FALSE, "oe") => Moves("re", FALSE)
      /\ Called("oe", "oe", FALSE, "wp") => Moves("oe", FALSE)
      /\ Called("wp", "wp", FALSE, "wi") => Moves("wp", FALSE)
      /\ Called("wi", "wi", FALSE, "ri") => Moves("wi", FALSE)
      /\ Called("ri", "ri", FALSE, "ce") => Moves("ri", FALSE)
      /\ Called("ce", "ce", FALSE, "power") => Moves("ce", FALSE)
  <2>1. Called("be", "be", DataSize = 1, "rst") => Moves("be", DataSize = 1)
    BY StatementOrder DEF Called, Moves
  <2>2. Called("rst", "rst", FALSE, "we") => Moves("rst", FALSE)
    BY StatementOrder DEF Called, Moves
  <2>3. Called("we", "we", FALSE, "re") => Moves("we", FALSE)
    BY StatementOrder DEF Called, Moves
  <2>4. Called("re", "re", FALSE, "oe") => Moves("re", FALSE)
    BY StatementOrder DEF Called, Moves
  <2>5. Called("oe", "oe", FALSE, "wp") => Moves("oe", FALSE)
    BY StatementOrder DEF Called, Moves
  <2>6. Called("wp", "wp", FALSE, "wi") => Moves("wp", FALSE)
    BY StatementOrder DEF Called, Moves
  <2>7. Called("wi", "wi", FALSE, "ri") => Moves("wi", FALSE)
    BY StatementOrder DEF Called, Moves
  <2>8. Called("ri", "ri", FALSE, "ce") => Moves("ri", FALSE)
    BY StatementOrder DEF Called, Moves
  <2>9. Called("ce", "ce", FALSE, "power") => Moves("ce", FALSE)
    BY StatementOrder DEF Called, Moves
  <2> QED
    BY ONLY <2>1, <2>2, <2>3, <2>4, <2>5, <2>6, <2>7, <2>8, <2>9
<1>4. /\ Called("strobe_oe", "oe", FALSE, "strobe_addr") => Moves("oe", FALSE)
      /\ Called("strobe_off", "we", FALSE, "strobe_next") => Moves("we", FALSE)
      /\ Called("read_oeoff", "oe", FALSE, "read_reoff") => Moves("oe", FALSE)
      /\ Called("read_reoff", "re", FALSE, "read_send") => Moves("re", FALSE)
      /\ Called("read_end", "ri", FALSE, "recv") => Moves("ri", FALSE)
      /\ Called("write_end", "wi", FALSE, "recv") => Moves("wi", FALSE)
  BY StatementOrder DEF Called, Moves, Preparing
<1>5. /\ Called("select", "ce", TRUE, "dispatch") => Moves("ce", TRUE)
      /\ Called("strobe_on", "we", TRUE, "strobe_off") => Moves("we", TRUE)
      /\ Called("read_begin", "ri", TRUE, "read_loop") => Moves("ri", TRUE)
      /\ Called("read_oe", "oe", TRUE, "read_re") => Moves("oe", TRUE)
      /\ Called("read_re", "re", TRUE, "read_sample") => Moves("re", TRUE)
      /\ Called("write_begin", "wi", TRUE, "write_loop") => Moves("wi", TRUE)
  BY StatementOrder DEF Called, Moves, Preparing
<1>6. CASE Called("be", "be", DataSize = 1, "rst")
  BY ONLY <1>a, <1>b, <1>1, <1>6, Zenon DEF ControlName
<1>7. CASE Releases
  BY ONLY <1>a, <1>1, <1>4, <1>7, Zenon DEF Releases, ControlName
<1>8. CASE Asserts
  BY ONLY <1>a, <1>5, <1>8, Zenon DEF Asserts, ControlName
<1> QED
  BY ONLY <1>6, <1>7, <1>8, ControlStep, ControlCases

\* A step that is not a call of set_control_pin leaves the lines as they are due.
Kept ==
    \A c \in Switched :
        Live' \/ After(c)' => (Live \/ After(c)) /\ (LineOn(c)' <=> LineOn(c))

LEMMA LevelsKept ==
  ASSUME Levels, Kept, UNCHANGED table,
         \A c \in Switched : Control[c].pin \in ValidPins => (Control[c].pin \in shOut' <=> Control[c].pin \in shOut)
  PROVE  Levels'
<1>1. ValidPins' = ValidPins
  BY DEF ValidPins, table
<1> QED
  BY <1>1 DEF Levels, Kept

LEMMA LevelsNext ==
  ASSUME ProperTarget, Program, Board, Board', Levels, [Next]_vars
  PROVE  Levels'
<1> USE DEF ProperTarget, table, shadow, chips, driverVars, flow, host, target
<1>a. /\ \A c \in Switched : Control[c].pin \notin Lines
      /\ AddrPins \union DataPins \union Vcc \union Gnd \subseteq Lines
  BY PinsApart DEF Switched, ControlName
<1>b. pc \in Strobing \union Reading \union WritingWords => configured
  BY DEF Program, ProgramTypes, ActionRuns, Strobing, Reading, InRead, WritingWords, Preparing
<1>c. pc \in Strobing => ret \in {"recv", "read_ddr", "write_ack"} /\ (ret = "write_ack" <=> hconfig.action = "WRITE")
  BY DEF Program, ProgramTypes, ActionRuns
<1>d. \A c \in Switched : Statement[c] \in 3..9
  BY StatementOrder DEF Switched
<1>1. CASE ControlStep
  <2>1. PICK d \in ControlName, tf \in BOOLEAN : SetControlPin(d, tf) /\ Moves(d, tf)
    BY <1>1, ControlMoves
  <2>2. UNCHANGED table /\ ValidPins' = ValidPins
    BY <1>1 DEF ControlStep, ValidPins
  <2>3. PICK hl \in BOOLEAN : SetPinImmediate(Control[d].pin, hl) /\ hl = LevelFor(Control[d].active, tf)
    <3>1. LevelFor(Control[d].active, tf) \in BOOLEAN
      BY Zenon DEF LevelFor
    <3> QED
      BY <2>1, <3>1, Zenon DEF SetControlPin
  <2>4. ASSUME NEW c \in Switched, Control[c].pin \in ValidPins, Live' \/ After(c)'
        PROVE  Control[c].pin \in shOut' <=> ~LineOn(c)'
    <3>1. CASE c = d
      <4>1. (LineOn(d)' <=> tf) /\ (hl <=> ~tf)
        BY <2>1, <2>3, <3>1, LevelSet DEF Moves
      <4>2. Control[d].pin \in shOut' <=> hl
        BY <2>3, <2>4, <3>1, PinSwitched
      <4> QED
        BY <3>1, <4>1, <4>2
    <3>2. CASE c # d
      <4>1. Live \/ After(c)
        BY <2>1, <2>4, <3>2 DEF Moves
      <4>2. LineOn(c)' <=> LineOn(c)
        BY <2>1, <2>4, <3>2 DEF Moves
      <4>3. Control[c].pin # Control[d].pin
        BY <2>4, <3>2, ValidHit, PinsApart DEF Switched, ControlName
      <4>4. Control[c].pin \in shOut' <=> Control[c].pin \in shOut
        BY <2>3, <4>3, PinSwitched
      <4> QED
        BY <2>4, <4>1, <4>2, <4>4 DEF Levels
    <3> QED
      BY <3>1, <3>2
  <2> QED
    BY <2>2, <2>4 DEF Levels
<1>2. CASE SupplyPower
  <2>1. Kept
    BY <1>2, <1>d, StatementOrder DEF SupplyPower, Kept, LineOn, Live, After, Strobing, InRead, Preparing
  <2>2. \A c \in Switched : Control[c].pin \in shOut' <=> Control[c].pin \in shOut
    BY <1>2, <1>a DEF SupplyPower, SupplyLevels, ValidOnly
  <2> QED
    BY <1>2, <2>1, <2>2, LevelsKept DEF SupplyPower
<1>3. CASE CommitDirections \/ CommitLevels
  <2>1. Kept
    BY <1>3, <1>d, StatementOrder
    DEF CommitDirections, CommitLevels, Kept, LineOn, Live, After, Strobing, InRead, Preparing
  <2> QED
    BY <1>3, <2>1, LevelsKept DEF CommitDirections, CommitLevels
<1>4. CASE Dispatch
  <2>1. Kept
    BY <1>4, <1>d, StatementOrder DEF Dispatch, Kept, LineOn, Live, After, Strobing, InRead, Preparing
  <2> QED
    BY <1>4, <2>1, LevelsKept DEF Dispatch
<1>5. CASE StrobeDone \/ StrobeReady \/ StrobeNext
  <2>1. Kept
    BY <1>5, <1>b, <1>c DEF StrobeDone, StrobeReady, StrobeNext, Kept, LineOn, Live, After, Strobing, InRead, Preparing
  <2> QED
    BY <1>5, <2>1, LevelsKept DEF StrobeDone, StrobeReady, StrobeNext
<1>6. ASSUME NEW pins, NEW positions, SetLines(pins, positions),
             \A k \in DOMAIN pins : pins[k] \in AddrPins \union DataPins, positions \subseteq DOMAIN pins,
             UNCHANGED table, Kept
      PROVE  Levels'
  <2>1. \A c \in Switched : Control[c].pin \in shOut' <=> Control[c].pin \in shOut
    BY <1>a, <1>6 DEF SetLines
  <2> QED
    BY <1>6, <2>1, LevelsKept
<1>7. CASE StrobeAddress
  <2>1. Kept
    BY <1>7, <1>b DEF StrobeAddress, Kept, LineOn, Live, After, Strobing, InRead, Preparing
  <2> QED
    BY <1>6, <1>7, <2>1 DEF StrobeAddress, AddrPins, Bits
<1>8. CASE StrobeData
  <2>1. Kept
    BY <1>8, <1>b DEF StrobeData, Kept, LineOn, Live, After, Strobing, InRead, Preparing
  <2>2. Head(todo).word \subseteq DOMAIN Data
    BY <1>8, HeadIsCommand DEF StrobeData, Strobing, Word
  <2> QED
    BY <1>6, <1>8, <2>1, <2>2 DEF StrobeData, DataPins
<1>9. CASE ReadLoop
  <2>1. Kept
    BY <1>9, <1>b DEF ReadLoop, Kept, LineOn, Live, After, Strobing, Reading, InRead, Preparing
  <2>2. CASE SetLines(Addr, Bits(Current))
    BY <1>6, <1>9, <2>1, <2>2 DEF ReadLoop, AddrPins, Bits
  <2>3. CASE UNCHANGED shOut
    BY <1>9, <2>1, <2>3, LevelsKept DEF ReadLoop
  <2> QED
    BY <1>9, <2>2, <2>3 DEF ReadLoop
<1>10. CASE ReadDdr \/ WriteDdr
  <2>1. Kept
    BY <1>10, <1>b
    DEF ReadDdr, WriteDdr, SetDataDirection, Kept, LineOn, Live, After, Strobing, Reading, WritingWords, InRead, Preparing
  <2> QED
    BY <1>10, <2>1, LevelsKept DEF ReadDdr, WriteDdr, SetDataDirection
<1>11. CASE ReadSample \/ ReadSend \/ WriteAck \/ WriteLoopEnd \/ \E w \in Word : WriteWord(w)
  <2>1. Kept
    BY <1>11, <1>b
    DEF ReadSample, ReadSend, WriteAck, WriteLoopEnd, WriteWord, AfterWrites, Kept, LineOn, Live, After,
        Strobing, Reading, WritingWords, InRead, Preparing
  <2> QED
    BY <1>11, <2>1, LevelsKept DEF ReadSample, ReadSend, WriteAck, WriteLoopEnd, WriteWord
<1>12. CASE (\E n \in PinCounts : SetPinCount(n)) \/ Enter \/ Leave \/ Disable
  <2>1. ~Live' /\ pc' \notin Preparing
    BY <1>12 DEF SetPinCount, Enter, Leave, Disable, Live, Preparing
  <2> QED
    BY <2>1 DEF Levels, After
<1>13. ASSUME NEW r \in Requests, Configure(r) \/ SkipConfigure(r) PROVE Levels'
  <2>1. Kept
    <3>1. CASE pc = "recv" /\ pc' = "be" /\ UNCHANGED <<configured, ret>>
      BY <3>1, <1>d, StatementOrder DEF Kept, LineOn, Live, After, Strobing, InRead
    <3>2. CASE pc = "recv" /\ pc' = "dispatch" /\ configured /\ UNCHANGED <<configured, ret>>
      BY <3>2 DEF Kept, LineOn, Live, Strobing, InRead
    <3> QED
      BY <1>13, <3>1, <3>2 DEF Configure, SkipConfigure, Receive
  <2> QED
    BY <1>13, <2>1, LevelsKept DEF Configure, SkipConfigure
<1>14. CASE TargetReady \/ UNCHANGED vars
  <2>1. Kept
    BY <1>14 DEF TargetReady, vars, Kept, LineOn, Live, After
  <2> QED
    BY <1>14, <2>1, LevelsKept DEF TargetReady, vars
<1> QED
  BY <1>1, <1>2, <1>3, <1>4, <1>5, <1>7, <1>8, <1>9, <1>10, <1>11, <1>12, <1>13, <1>14
  DEF Next, Session, Firmware

LEMMA LettingGoNext ==
  ASSUME ProperTarget, Program, Board, Lined, [Next]_vars
  PROVE  LettingGo'
<1> USE DEF table, shadow, chips, driverVars, flow, host, target
<1>1. CASE pc' # "release"
  BY <1>1 DEF LettingGo
<1>2. CASE Leave
  <2>1. UNCHANGED <<drv, latch, numPins, inuse>> /\ pc = "recv" /\ pc' = "release"
    BY <1>2 DEF Leave
  <2>2. ValidPins' = ValidPins /\ Outputs' = Outputs
    BY <2>1 DEF ValidPins, Outputs
  <2>3. CASE ~Live
    BY <2>1, <2>3 DEF LettingGo, Lined, Driven
  <2>4. CASE Live
    <3>1. Outputs \subseteq drv /\ latch \intersect ValidPins = shOut /\ Vcc \subseteq shOut /\ Gnd \intersect shOut = {}
      BY <2>4 DEF Lined, Driven, Shown
    <3>2. Gnd \subseteq ValidPins
      BY <2>1, <2>4, PinsApart DEF ProperTarget, Live, Requested
    <3>3. ASSUME NEW c \in Switched, Control[c].pin \in ValidPins PROVE Control[c].pin \in latch <=> c # "ce"
      <4>1. LineOn(c) <=> c = "ce"
        BY <2>1 DEF LineOn, Switched, InRead, Strobing
      <4> QED
        BY <2>4, <3>1, <3>3, <4>1 DEF Lined, Levels
    <3> QED
      BY <2>1, <2>2, <3>1, <3>2, <3>3 DEF LettingGo
  <2> QED
    BY <2>3, <2>4
<1>3. CASE Disable
  <2>1. pc = "release" /\ released' = released + 1 /\ drv' = drv \ PinsOf(released) /\ UNCHANGED <<latch, table>>
    BY <1>3, DisableLetsGo
  <2>2. ValidPins' = ValidPins /\ Outputs' = Outputs
    BY <2>1 DEF ValidPins, Outputs
  <2>3. ASSUME drv # {}, NEW p \in Outputs, released + 1 <= PortOf(p) PROVE p \in drv'
    <3>1. p \in Pin
      BY BoardConstants, WiringAssumption DEF Outputs, Lines, AddrPins, Board, Steady, ValidPins
    <3>2. PortOf(p) \in Int /\ released \in Int
      BY <3>1, PortRange DEF Board
    <3>3. p \in drv /\ PortOf(p) # released
      BY <2>1, <2>3, <3>2 DEF Lined, LettingGo
    <3> QED
      BY <2>1, <3>3 DEF PinsOf
  <2>4. drv' # {} => drv # {}
    BY <2>1
  <2>5. drv # {} =>
        /\ Vcc \subseteq latch /\ Gnd \intersect latch = {}
        /\ \A c \in Switched : Control[c].pin \in ValidPins => (Control[c].pin \in latch <=> c # "ce")
    BY <2>1 DEF Lined, LettingGo
  <2> QED
    BY <2>1, <2>2, <2>3, <2>4, <2>5 DEF LettingGo
<1>4. CASE TargetReady \/ UNCHANGED vars
  BY <1>4 DEF TargetReady, vars, Lined, LettingGo, Outputs, ValidPins
<1>5. pc' = "release" => Leave \/ Disable \/ TargetReady \/ UNCHANGED vars
  <2>1. ControlStep => pc' # "release"
    BY ControlCases, Zenon DEF Called, Releases, Asserts
  <2>2. StrobeDone => pc' # "release"
    BY DEF StrobeDone, Program, ProgramTypes
  <2> QED
    BY <2>1, <2>2
    DEF Next, Session, Firmware, SupplyPower, CommitDirections, CommitLevels, Dispatch,
        StrobeReady, StrobeAddress, StrobeData, StrobeNext, ReadDdr, ReadLoop, ReadSample, ReadSend,
        WriteDdr, WriteWord, WriteAck, WriteLoopEnd, AfterWrites, SetPinCount, Enter, Configure, SkipConfigure
<1> QED
  BY <1>1, <1>2, <1>3, <1>4, <1>5

-----------------------------------------------------------------------------
(* What the lines of a proper target show.                                 *)

LEMMA LinedInit == Init => Lined
<1> SUFFICES ASSUME Init PROVE Lined
  OBVIOUS
<1>1. pc = "idle" /\ shDrv = {} /\ drv = {} /\ configured = FALSE
  BY DEF Init, DriverState
<1> QED
  BY <1>1 DEF Lined, Driven, DataDirected, Shown, Levels, LettingGo, Live, Requested, After,
              Strobing, Reading, InRead, WritingWords, Preparing

LEMMA LinedInvariance == ASSUME ProperTarget PROVE Spec => [](Program /\ Board /\ Lined)
<1>1. Init => Lined
  BY LinedInit
<1>2. Program /\ Board /\ (Program /\ Board)' /\ Lined /\ [Next]_vars => Lined'
  BY DrivenNext, DataDirectedNext, ShownNext, LevelsNext, LettingGoNext DEF Lined
<1>3. Spec => []Lined
  BY <1>1, <1>2, BoardInvariance, PTL DEF Spec
<1> QED
  BY <1>3, BoardInvariance, PTL

\* A line is asserted where it is due, and nowhere else; at the end of a session
\* the chip may still be selected.
LEMMA LineAsserted ==
  ASSUME ProperTarget, Program, Board, Lined, NEW c \in Switched, Asserted(c)
  PROVE  (Live /\ LineOn(c)) \/ (pc = "release" /\ c = "ce")
<1>1. Control[c].pin \in drv /\ Control[c].pin \notin latch
  BY DEF ProperTarget, ActiveLow, Switched, Asserted
<1>2. Control[c].pin \in ValidPins /\ Control[c].pin \notin Vcc
  BY <1>1, PinsApart DEF ProperTarget, Board, Switched, ControlName
<1>3. CASE Live
  BY <1>1, <1>2, <1>3 DEF Lined, Shown, Levels
<1>5. CASE pc = "release"
  BY <1>1, <1>2, <1>5 DEF Lined, LettingGo
<1>4. CASE ~Live /\ pc # "release"
  <2>1. pc = "io"
    BY <1>1, <1>4 DEF Lined, Driven
  <2>2. Statement[c] \in 3..9
    BY StatementOrder DEF Switched
  <2>3. After(c) /\ ~LineOn(c)
    BY <2>1, <2>2, StatementOrder DEF After, Preparing, LineOn, InRead, Strobing
  <2>4. Control[c].pin \in shOut
    BY <1>2, <2>3 DEF Lined, Levels
  <2> QED
    BY <1>1, <1>2, <2>1, <2>4 DEF Lined, Shown
<1> QED
  BY <1>3, <1>4, <1>5

LEMMA LineDriven ==
  ASSUME ProperTarget, Board, Lined, Live, NEW c \in Switched, Control[c].pin \in ValidPins, LineOn(c)
  PROVE  Asserted(c)
<1>1. Control[c].active = 0
  BY DEF ProperTarget, ActiveLow, Switched
<1>2. Control[c].pin \in drv
  <2>1. c \in ControlName \ {"by", "wp"}
    BY DEF Switched, ControlName
  <2> QED
    BY <2>1 DEF Lined, Driven, Outputs
<1>3. Control[c].pin \notin latch
  BY DEF Lined, Shown, Levels
<1> QED
  BY <1>1, <1>2, <1>3 DEF Asserted

LEMMA ConnectedValid ==
  ASSUME Program, Board, Live, NEW c, Connected(c)
  PROVE  Control[c].pin \in ValidPins
<1>1. numPins \in PinCounts /\ inuse = PinsOfDevices(FirstGap)
  BY DEF Board, Steady
<1>2. \A p \in Lines : p < numPins
  BY DEF Live, Program, ProgramTypes, LinesValid, AreValidPins, IsValidPin
<1> QED
  BY <1>1, <1>2 DEF Connected, ValidPins

\* Write enable is asserted at the strobe of a word and nowhere else.
THEOREM WriteEnable == ASSUME ProperTarget PROVE Spec => []WriteEnableOnlyInStrobe
<1>1. Program /\ Board /\ Lined => WriteEnableOnlyInStrobe
  BY LineAsserted DEF WriteEnableOnlyInStrobe, LineOn, Switched
<1> QED
  BY <1>1, LinedInvariance, PTL

\* Board and chip never drive the data lines against each other.
THEOREM Contention == ASSUME ProperTarget PROVE Spec => []NoContention
<1>1. Program /\ Board /\ Lined => NoContention
  <2> SUFFICES ASSUME Program, Board, Lined, Answering PROVE \A k \in DOMAIN Data : Data[k] \notin drv
    BY DEF NoContention
  <2>1. LineOn("oe") \/ LineOn("re")
    BY LineAsserted DEF Answering, Switched
  <2>2. pc \in Reading \ {"read_ddr"}
    BY <2>1 DEF LineOn, Reading, InRead
  <2> QED
    BY <2>2 DEF Lined, DataDirected, DataPins
<1> QED
  BY <1>1, LinedInvariance, PTL

\* The chip is selected only while it is supplied and addressed.
THEOREM Selected == ASSUME ProperTarget PROVE Spec => []SelectedOnlyReady
<1>1. Program /\ Board /\ Lined => SelectedOnlyReady
  <2> SUFFICES ASSUME Program, Board, Lined, Asserted("ce"), pc = "release" => DeselectedFirst
               PROVE  Supplied /\ AddressDriven
    BY DEF SelectedOnlyReady
  <2>0. CASE pc = "release"
    <3>1. Control["ce"].pin \in drv /\ released <= PortOf(Control["ce"].pin)
      BY <2>0 DEF Asserted, Board
    <3>2. drv \subseteq Pin /\ released \in Int
      BY BoardConstants DEF Board, Steady, ValidPins
    <3>3. ASSUME NEW p \in AddrPins \union Vcc \union Gnd PROVE p \in drv
      <4>1. PortOf(Control["ce"].pin) <= PortOf(p) /\ p \in Pin
        BY <2>0, WiringAssumption DEF DeselectedFirst, Lines, AddrPins
      <4>2. released <= PortOf(p)
        BY <3>1, <3>2, <4>1, PortRange
      <4> QED
        BY <2>0, <3>1, <4>2 DEF Lined, LettingGo, Outputs
    <3>4. Vcc \subseteq latch /\ Gnd \intersect latch = {}
      BY <2>0, <3>1 DEF Lined, LettingGo
    <3> QED
      BY <3>3, <3>4 DEF Supplied, AddressDriven, AddrPins
  <2> SUFFICES ASSUME pc # "release" PROVE Supplied /\ AddressDriven
    BY <2>0
  <2>1. Live
    BY LineAsserted DEF Switched
  <2>2. Lines \subseteq ValidPins
    BY <2>1, PinsApart DEF ProperTarget, Live, Requested, Program, ProgramTypes
  <2>3. Outputs \subseteq drv /\ latch \intersect ValidPins = shOut /\ Vcc \subseteq shOut /\ Gnd \intersect shOut = {}
    BY <2>1 DEF Lined, Driven, Shown
  <2>4. Vcc \union Gnd \subseteq Lines
    BY DEF Lines
  <2>5. Supplied
    BY <2>2, <2>3, <2>4 DEF Supplied, Outputs
  <2>6. AddressDriven
    BY <2>3 DEF AddressDriven, Outputs, AddrPins
  <2> QED
    BY <2>5, <2>6
<1> QED
  BY <1>1, LinedInvariance, PTL

\* WI and RI frame a Write() and a Read() wherever they are connected.
THEOREM Indicators ==
  ASSUME ProperTarget, Connected("wi"), Connected("ri")
  PROVE  Spec => []IndicatorsFrame
<1>1. Program /\ Board /\ Lined => IndicatorsFrame
  <2> SUFFICES ASSUME Program, Board, Lined PROVE IndicatorsFrame
    OBVIOUS
  <2>1. \A c \in Switched \ {"ce"} : Asserted(c) => Live /\ LineOn(c)
    BY LineAsserted
  <2>2. \A c \in {"wi", "ri"} : Live /\ LineOn(c) => Asserted(c)
    BY LineDriven, ConnectedValid DEF Switched
  <2>3. /\ pc \in Strobing => (ret = "write_ack" <=> hconfig.action = "WRITE")
        /\ pc \in Reading => hconfig.action = "READ" /\ configured
        /\ pc \in WritingWords => hconfig.action = "WRITE" /\ configured
    BY DEF Program, ActionRuns, ProgramTypes, Strobing, Reading, InRead, WritingWords, Preparing
  <2>4. Asserted("wi") => hconfig.action = "WRITE" /\ Serving
    BY <2>1, <2>3 DEF LineOn, Switched, WritingWords, Strobing, Serving
  <2>5. Asserted("ri") => hconfig.action = "READ" /\ Serving
    BY <2>1, <2>3 DEF LineOn, Switched, Reading, InRead, Serving
  <2>6. Writing => (Asserted("wi") <=> hconfig.action = "WRITE") /\ ~Asserted("ri")
    <3>1. Writing => Live /\ pc = "strobe_off"
      BY <2>1 DEF Writing, LineOn, Switched
    <3>2. pc = "strobe_off" => (LineOn("wi") <=> hconfig.action = "WRITE") /\ ~LineOn("ri")
      BY <2>3 DEF LineOn, Strobing, InRead
    <3> QED
      BY <2>1, <2>2, <3>1, <3>2 DEF Switched
  <2>7. Answering \/ pc = "read_sample" => Asserted("ri")
    <3>1. Answering => Live /\ (LineOn("oe") \/ LineOn("re"))
      BY <2>1 DEF Answering, Switched
    <3>2. pc = "read_sample" => Live
      BY <2>3 DEF Live, Reading, InRead
    <3>3. LineOn("oe") \/ LineOn("re") \/ pc = "read_sample" => LineOn("ri")
      BY DEF LineOn, InRead
    <3> QED
      BY <2>2, <3>1, <3>2, <3>3
  <2> QED
    BY <2>4, <2>5, <2>6, <2>7 DEF IndicatorsFrame
<1> QED
  BY <1>1, LinedInvariance, PTL

-----------------------------------------------------------------------------
(* What the address and data lines show while a word is transferred.       *)

\* While commands are left to be strobed the board drives the data lines.
DataLeft == pc \in Strobing /\ todo # <<>> => DataPins \subseteq drv

\* The address and the word of the write in progress, the address of the read.
Addressed ==
    /\ pc \in {"strobe_data", "strobe_on", "strobe_off"} =>
         \A k \in DOMAIN Addr : Addr[k] \in shOut <=> k \in Bits(Head(todo).addr)
    /\ pc \in {"strobe_on", "strobe_off"} =>
         \A k \in DOMAIN Data : Data[k] \in shOut <=> k \in Head(todo).word
    /\ pc \in {"read_oe", "read_re", "read_sample"} =>
         \A k \in DOMAIN Addr : Addr[k] \in shOut <=> k \in Bits(Current)

LEMMA DataLeftNext ==
  ASSUME ProperTarget, CommandsReconfigured, Program, Board, Lined, DataLeft, [Next]_vars
  PROVE  DataLeft'
<1> USE DEF DataLeft, chips, driverVars, flow, host, target, Strobing
<1>a. pc \in {"power", "ddr", "io", "recv", "idle", "release"} \union Preparing \union Reading \union WritingWords \union Strobing
  BY DEF Program, ProgramTypes
<1>1. CASE ControlStep
  <2>1. UNCHANGED <<drv, todo>>
    BY <1>1 DEF ControlStep
  <2>2. pc' \in Strobing => pc \in Strobing
    BY <1>1, ControlCases, Zenon DEF Called, Releases, Asserts
  <2> QED
    BY <2>1, <2>2
<1>2. CASE SupplyPower \/ CommitDirections \/ CommitLevels
  BY <1>2 DEF SupplyPower, CommitDirections, CommitLevels
<1>3. CASE Dispatch
  <2>1. hconfig \in Requests
    BY DEF Program, ProgramTypes
  <2>2. CASE hconfig.action = "WRITE"
    BY <1>3, <2>2 DEF Dispatch
  <2>3. CASE hconfig.action # "WRITE" /\ hconfig.commands = <<>>
    BY <1>3, <2>3 DEF Dispatch
  <2>4. CASE hconfig.reconfigure
    BY <1>3, <2>4 DEF Dispatch, Lined, DataDirected
  <2> QED
    BY <2>1, <2>2, <2>3, <2>4 DEF CommandsReconfigured
<1>4. CASE StrobeDone
  BY <1>4 DEF StrobeDone, Program, ProgramTypes
<1>5. CASE StrobeReady \/ StrobeAddress \/ StrobeData
  BY <1>5 DEF StrobeReady, StrobeAddress, StrobeData
<1>6. CASE StrobeNext
  BY <1>6 DEF StrobeNext, Program, CommandsLeft
<1>7. CASE ReadDdr \/ WriteDdr \/ ReadLoop \/ ReadSample \/ ReadSend \/ WriteAck \/ WriteLoopEnd
  BY <1>7 DEF ReadDdr, WriteDdr, ReadLoop, ReadSample, ReadSend, WriteAck, WriteLoopEnd, AfterWrites
<1>8. ASSUME NEW w \in Word, WriteWord(w) PROVE DataLeft'
  BY <1>8 DEF WriteWord, Lined, DataDirected, WritingWords
<1>9. CASE Session \/ Disable
  BY <1>9 DEF Session, SetPinCount, Enter, Leave, Disable, Configure, SkipConfigure
<1>10. CASE TargetReady \/ UNCHANGED vars
  BY <1>10 DEF TargetReady, vars
<1> QED
  BY <1>1, <1>2, <1>3, <1>4, <1>5, <1>6, <1>7, <1>8, <1>9, <1>10 DEF Next, Firmware

\* A call of set_control_pin changes no line of the address or the data.
LEMMA ControlKeepsLines ==
  ASSUME OwnPins, WholeChips, Program, Board, ControlStep
  PROVE  \A p \in Lines : p \in shOut' <=> p \in shOut
<1>1. PICK c \in ControlName, tf \in BOOLEAN : SetControlPin(c, tf)
  BY ControlCases, Zenon DEF Called, Releases, Asserts, ControlName
<1>2. PICK hl \in BOOLEAN : SetPinImmediate(Control[c].pin, hl)
  <2>1. LevelFor(Control[c].active, tf) \in BOOLEAN
    BY Zenon DEF LevelFor
  <2> QED
    BY <1>1, <2>1 DEF SetControlPin
<1>3. Control[c].pin \notin Lines
  BY PinsApart
<1> QED
  BY <1>2, <1>3, PinSwitched

LEMMA AddressedNext ==
  ASSUME ProperTarget, Program, Board, Lined, Addressed, [Next]_vars
  PROVE  Addressed'
<1> USE DEF Addressed, driverVars, shadow, flow, host, target
<1>a. (\A k \in DOMAIN Addr : Addr[k] \in Lines) /\ (\A k \in DOMAIN Data : Data[k] \in Lines)
  BY DEF Lines
<1>1. CASE ControlStep
  <2>1. UNCHANGED <<todo, hconfig, j>>
    BY <1>1 DEF ControlStep
  <2>2. /\ \A k \in DOMAIN Addr : Addr[k] \in shOut' <=> Addr[k] \in shOut
        /\ \A k \in DOMAIN Data : Data[k] \in shOut' <=> Data[k] \in shOut
    BY <1>1, <1>a, ControlKeepsLines DEF ProperTarget
  <2>3. /\ pc' # "strobe_data"
        /\ pc' \in {"strobe_on", "strobe_off"} => pc = "strobe_on"
        /\ pc' \in {"read_oe", "read_re", "read_sample"} => pc \in {"read_oe", "read_re"}
    BY <1>1, ControlCases, Zenon DEF Called, Releases, Asserts
  <2>4. Current' = Current /\ Bits(Current)' = Bits(Current) /\ Head(todo)' = Head(todo)
    BY <2>1 DEF Current, Bits
  <2> QED
    BY <2>1, <2>2, <2>3, <2>4 DEF Bits
<1>2. CASE StrobeAddress
  <2>1. shOut' = (shOut \ {Addr[k] : k \in DOMAIN Addr}) \union {Addr[k] : k \in Bits(Head(todo).addr)}
    BY <1>2 DEF StrobeAddress, SetLines
  <2>2. Bits(Head(todo).addr) \subseteq DOMAIN Addr
    BY DEF Bits
  <2>3. \A k \in DOMAIN Addr : Addr[k] \in shOut' <=> k \in Bits(Head(todo).addr)
    BY <2>1, <2>2 DEF ProperTarget, OwnPins
  <2> QED
    BY <1>2, <2>3 DEF StrobeAddress, Bits
<1>3. CASE StrobeData
  <2>1. shOut' = (shOut \ {Data[k] : k \in DOMAIN Data}) \union {Data[k] : k \in Head(todo).word}
    BY <1>3 DEF StrobeData, SetLines
  <2>2. Head(todo).word \subseteq DOMAIN Data
    BY <1>3, HeadIsCommand DEF StrobeData, Strobing, Word
  <2>3. \A k \in DOMAIN Data : Data[k] \in shOut' <=> k \in Head(todo).word
    BY <2>1, <2>2 DEF ProperTarget, OwnPins
  <2>4. \A k \in DOMAIN Addr : Addr[k] \in shOut' <=> Addr[k] \in shOut
    <3>1. \A k \in DOMAIN Addr : Addr[k] \notin DataPins
      BY DEF ProperTarget, OwnPins, AddrPins
    <3> QED
      BY <2>1, <2>2, <3>1 DEF DataPins
  <2> QED
    BY <1>3, <2>3, <2>4 DEF StrobeData, Bits
<1>4. CASE ReadLoop
  <2>1. CASE SetLines(Addr, Bits(Current)) /\ pc' = "read_oe"
    <3>1. shOut' = (shOut \ {Addr[k] : k \in DOMAIN Addr}) \union {Addr[k] : k \in Bits(Current)}
      BY <2>1 DEF SetLines
    <3>2. Bits(Current) \subseteq DOMAIN Addr
      BY DEF Bits
    <3>3. \A k \in DOMAIN Addr : Addr[k] \in shOut' <=> k \in Bits(Current)
      BY <3>1, <3>2 DEF ProperTarget, OwnPins
    <3> QED
      BY <1>4, <2>1, <3>3 DEF ReadLoop, Bits, Current
  <2>2. CASE pc' = "read_end"
    BY <2>2
  <2> QED
    BY <1>4, <2>1, <2>2 DEF ReadLoop
<1>5. CASE SupplyPower \/ CommitDirections \/ CommitLevels \/ Dispatch \/ StrobeReady \/ StrobeNext
  BY <1>5 DEF SupplyPower, CommitDirections, CommitLevels, Dispatch, StrobeReady, StrobeNext
<1>6. CASE StrobeDone
  BY <1>6 DEF StrobeDone, Program, ProgramTypes
<1>7. CASE ReadDdr \/ WriteDdr \/ ReadSample \/ ReadSend \/ WriteAck \/ WriteLoopEnd \/ \E w \in Word : WriteWord(w)
  BY <1>7 DEF ReadDdr, WriteDdr, ReadSample, ReadSend, WriteAck, WriteLoopEnd, WriteWord, AfterWrites
<1>8. CASE Session \/ Disable
  BY <1>8 DEF Session, SetPinCount, Enter, Leave, Disable, Configure, SkipConfigure
<1>9. CASE TargetReady \/ UNCHANGED vars
  BY <1>9 DEF TargetReady, vars, Bits, Current
<1> QED
  BY <1>1, <1>2, <1>3, <1>4, <1>5, <1>6, <1>7, <1>8, <1>9 DEF Next, Firmware

LEMMA StrobedInvariance ==
  ASSUME ProperTarget, CommandsReconfigured
  PROVE  Spec => [](Program /\ Board /\ Lined /\ DataLeft /\ Addressed)
<1>1. Init => DataLeft /\ Addressed
  BY DEF Init, DataLeft, Addressed, Strobing
<1>2. Program /\ Board /\ Lined /\ DataLeft /\ Addressed /\ [Next]_vars => (DataLeft /\ Addressed)'
  BY DataLeftNext, AddressedNext
<1> QED
  BY <1>1, <1>2, LinedInvariance, PTL DEF Spec

\* While write enable is asserted, the lines show the write in progress.
LEMMA StrobeShows ==
  ASSUME ProperTarget, Program, Board, Lined, DataLeft, Addressed, Live, pc = "strobe_off"
  PROVE  /\ AddressDriven /\ DataDriven /\ todo # <<>>
         /\ AddressLines = Bits(Head(todo).addr)
         /\ DataLines = {Head(todo).word}
<1>1. todo # <<>> /\ Head(todo).word \in Word
  BY HeadIsCommand DEF Strobing
<1>2. /\ \A k \in DOMAIN Addr : Addr[k] \in ValidPins
      /\ \A k \in DOMAIN Data : Data[k] \in ValidPins
  BY PinsApart DEF ProperTarget, Requested, Lines
<1>3. AddressDriven /\ DataDriven
  BY <1>1 DEF AddressDriven, DataDriven, Lined, Driven, Outputs, AddrPins, DataLeft, DataPins, Strobing
<1>4. latch \intersect ValidPins = shOut
  BY DEF Lined, Shown
<1>5. AddressLines = Bits(Head(todo).addr)
  BY <1>2, <1>4 DEF AddressLines, Addressed, Bits
<1>6. DataLines = {Head(todo).word}
  <2>1. \A k \in DOMAIN Data : Data[k] \in drv /\ (Data[k] \in latch <=> k \in Head(todo).word)
    BY <1>2, <1>3, <1>4 DEF DataDriven, Addressed
  <2>2. ASSUME NEW w \in DataLines PROVE w = Head(todo).word
    BY <1>1, <2>1, <2>2 DEF DataLines, Word
  <2>3. Head(todo).word \in DataLines
    BY <1>1, <2>1 DEF DataLines
  <2> QED
    BY <2>2, <2>3
<1> QED
  BY <1>1, <1>3, <1>5, <1>6

\* Every strobe writes the word that was asked for at its address.
THEOREM Strobe == ASSUME ProperTarget, CommandsReconfigured PROVE Spec => []StrobeAsAsked
<1>1. Program /\ Board /\ Lined /\ DataLeft /\ Addressed => StrobeAsAsked
  <2> SUFFICES ASSUME Program, Board, Lined, DataLeft, Addressed, Writing PROVE StrobeAsAsked
    BY DEF StrobeAsAsked
  <2>1. Live /\ pc = "strobe_off"
    BY LineAsserted DEF Writing, LineOn, Switched
  <2> QED
    BY <2>1, StrobeShows DEF StrobeAsAsked
<1> QED
  BY <1>1, StrobedInvariance, PTL

-----------------------------------------------------------------------------
(* The chip while it is accessed.                                          *)

\* The chip is written only where the strobe ends: nothing else disturbs it.
LEMMA WritingWhere ==
  ASSUME ProperTarget
  PROVE  Program /\ Board /\ Lined => (Writing => pc = "strobe_off")
  BY LineAsserted DEF Writing, LineOn, Switched

LEMMA Undisturbed ==
  ASSUME ProperTarget, Program, Board, Lined, TargetReacts, pc # "strobe_off"
  PROVE  UNCHANGED target
  BY WritingWhere DEF TargetReacts

\* The chip is idle from the end of the busy wait on.
Accessing == {"strobe_oe", "strobe_addr", "strobe_data", "strobe_on", "strobe_off", "read_oe", "read_re", "read_sample"}
Awaited == pc \in Accessing => busy = FALSE

LEMMA PolledIdle ==
  ASSUME ProperTarget, Connected("by"), Program, Board, Lined, Flags, Live, Polled
  PROVE  busy = FALSE
<1>1. Control["by"].pin \in ValidPins
  BY ConnectedValid
<1>2. IsValidPin(Control["by"].pin) /\ Control["by"].pin \notin drv
  BY <1>1 DEF ValidPins, IsValidPin, Lined, Driven
<1> QED
  BY <1>2, Zenon DEF Polled, IsBusy, Flags

LEMMA AwaitedNext ==
  ASSUME ProperTarget, Connected("by"), Program, Board, Lined, Flags, Awaited, [Next]_vars
  PROVE  Awaited'
<1> USE DEF Awaited, Accessing, target
<1>a. pc \in {"strobe", "read_loop"} => Live
  BY DEF Program, ActionRuns, Live, Strobing, Reading, WritingWords, Preparing
<1>1. CASE ControlStep
  <2>1. pc' \in Accessing => pc \in Accessing /\ pc # "strobe_off"
    BY <1>1, ControlCases, Zenon DEF Called, Releases, Asserts
  <2>2. pc # "strobe_off" => UNCHANGED target
    BY <1>1, Undisturbed DEF ControlStep
  <2> QED
    BY <2>1, <2>2
<1>2. CASE StrobeReady
  BY <1>2, <1>a, PolledIdle DEF StrobeReady
<1>3. CASE StrobeAddress \/ StrobeData
  BY <1>3, Undisturbed DEF StrobeAddress, StrobeData
<1>4. CASE ReadLoop
  <2>1. CASE Polled /\ TargetReacts
    BY <1>4, <1>a, <2>1, PolledIdle, Undisturbed DEF ReadLoop
  <2>2. CASE pc' = "read_end"
    BY <2>2
  <2> QED
    BY <1>4, <2>1, <2>2 DEF ReadLoop
<1>5. CASE TargetReady \/ UNCHANGED vars
  BY <1>5 DEF TargetReady, vars
<1>6. CASE SupplyPower \/ CommitDirections \/ CommitLevels \/ Dispatch \/ StrobeNext \/ ReadDdr \/ WriteDdr
  BY <1>6 DEF SupplyPower, CommitDirections, CommitLevels, Dispatch, StrobeNext, ReadDdr, WriteDdr
<1>7. CASE StrobeDone
  BY <1>7 DEF StrobeDone, Program, ProgramTypes
<1>8. CASE ReadSample \/ ReadSend \/ WriteAck \/ WriteLoopEnd \/ \E w \in Word : WriteWord(w)
  BY <1>8 DEF ReadSample, ReadSend, WriteAck, WriteLoopEnd, WriteWord, AfterWrites
<1>9. CASE Session \/ Disable
  BY <1>9 DEF Session, SetPinCount, Enter, Leave, Disable, Configure, SkipConfigure
<1> QED
  BY <1>1, <1>2, <1>3, <1>4, <1>5, <1>6, <1>7, <1>8, <1>9 DEF Next, Firmware

\* The chip is neither written nor read while it is busy.
THEOREM BusyWait == ASSUME ProperTarget, Connected("by") PROVE Spec => []NoAccessWhileBusy
<1>1. Init => Awaited
  BY DEF Init, Awaited, Accessing
<1>2. Program /\ Board /\ Flags /\ Lined /\ Awaited /\ [Next]_vars => Awaited'
  BY AwaitedNext
<1>3. Program /\ Board /\ Lined /\ Awaited => NoAccessWhileBusy
  <2> SUFFICES ASSUME Program, Board, Lined, Awaited, Writing \/ pc = "read_sample" PROVE busy = FALSE
    BY Zenon DEF NoAccessWhileBusy
  <2>1. pc \in {"strobe_off", "read_sample"}
    BY WritingWhere
  <2> QED
    BY <2>1 DEF Awaited, Accessing
<1>4. Spec => []Awaited
  BY <1>1, <1>2, BoardInvariance, LinedInvariance, PTL DEF Spec
<1> QED
  BY <1>3, <1>4, LinedInvariance, PTL

-----------------------------------------------------------------------------
(* Through its pins the target is the memory of module TargetMemory.       *)

\* The word on its way to the host is the one the chip holds.
Sampled ==
    /\ pc \in {"read_oeoff", "read_reoff", "read_send"} => data = mem[Bits(Current)]
    /\ pc = "write_ack" => ret = "write_ack"

\* What the firmware reads on the data lines is what the chip holds.
LEMMA SampleIsMemory ==
  ASSUME ProperTarget, Connected("ce"), Connected("oe") \/ Connected("re"),
         Program, Board, Lined, Addressed, ReadSample
  PROVE  data' = mem[Bits(Current)]
<1>1. pc = "read_sample" /\ Live
  BY DEF ReadSample, Live, Program, ActionRuns, Preparing
<1>2. Answering
  <2>1. Asserted("ce") /\ (Asserted("oe") \/ Asserted("re"))
    BY <1>1, LineDriven, ConnectedValid DEF LineOn, Switched
  <2>2. ~Asserted("we")
    BY <1>1, LineAsserted DEF LineOn, Switched
  <2> QED
    BY <2>1, <2>2 DEF Answering
<1>3. ~DataDriven
  <2>1. 1 \in DOMAIN Data
    BY WiringAssumption
  <2>2. Data[1] \in DataPins /\ DataPins \intersect drv = {}
    BY <1>1, <2>1 DEF DataPins, Lined, DataDirected, Reading, InRead
  <2> QED
    BY <2>1, <2>2 DEF DataDriven
<1>4. Lines \subseteq ValidPins /\ latch \intersect ValidPins = shOut
  BY <1>1, PinsApart DEF ProperTarget, Requested, Lined, Shown
<1>5. AddressLines = Bits(Current)
  BY <1>1, <1>4 DEF AddressLines, Addressed, Bits, Lines
<1>6. mem[Bits(Current)] \in Word
  BY DEF Program, ProgramTypes, Bits, Address
<1>7. ASSUME NEW k \in DOMAIN Data PROVE DeviceOf(Data[k]) < numDevices
  <2>1. Data[k] \in ValidPins
    BY <1>4 DEF Lines
  <2>2. PortOf(Data[k]) \in Int /\ PortOf(Data[k]) < 2 * numDevices /\ numDevices \in Int
    <3>1. PortOf(Data[k]) \in PortsOfDevices(numDevices)
      BY <2>1, ValidHit DEF ProperTarget
    <3>2. numPins \in Nat
      BY WiringAssumption DEF Board, Steady
    <3>3. numDevices \in Nat
      BY <3>2, BoardAssumption, DivNat DEF Board, Steady, PinsPerDevice
    <3>4. Data[k] \in Int /\ PinsPerRegister \in Nat \ {0}
      <4>1. Data[k] \in Pin
        BY <2>1, ValidHit DEF ProperTarget
      <4> QED
        BY <4>1, BoardAssumption DEF Pin
    <3> QED
      BY <3>1, <3>3, <3>4 DEF PortsOfDevices, PortOf
  <2> QED
    BY <2>2 DEF DeviceOf
<1>8. data' = {k \in mem[Bits(Current)] : DeviceOf(Data[k]) < numDevices}
  BY <1>2, <1>3, <1>5 DEF ReadSample
<1> QED
  BY <1>6, <1>7, <1>8 DEF Word

LEMMA SampledNext ==
  ASSUME ProperTarget, Connected("ce"), Connected("oe") \/ Connected("re"),
         Program, Board, Lined, Addressed, Sampled, [Next]_vars
  PROVE  Sampled'
<1> USE DEF Sampled, driverVars, flow, host, target, Current, Bits
<1>1. CASE ControlStep
  <2>1. UNCHANGED <<hconfig, data, j, ret>>
    BY <1>1 DEF ControlStep
  <2>2. pc' # "write_ack" /\
        (pc' \in {"read_oeoff", "read_reoff", "read_send"} => pc \in {"read_oeoff", "read_reoff"})
    BY <1>1, ControlCases, Zenon DEF Called, Releases, Asserts
  <2>3. pc \in {"read_oeoff", "read_reoff"} => UNCHANGED mem
    BY <1>1, Undisturbed DEF ControlStep
  <2> QED
    BY <2>1, <2>2, <2>3
<1>2. CASE ReadSample
  BY <1>2, SampleIsMemory DEF ReadSample
<1>3. CASE SupplyPower \/ CommitDirections \/ CommitLevels \/ Dispatch \/ StrobeReady \/ StrobeAddress
        \/ StrobeData \/ StrobeNext \/ ReadDdr \/ WriteDdr \/ ReadLoop
  BY <1>3
  DEF SupplyPower, CommitDirections, CommitLevels, Dispatch, StrobeReady, StrobeAddress, StrobeData,
      StrobeNext, ReadDdr, WriteDdr, ReadLoop
<1>4. CASE StrobeDone
  BY <1>4 DEF StrobeDone, Program, ProgramTypes
<1>5. CASE ReadSend \/ WriteAck \/ WriteLoopEnd \/ \E w \in Word : WriteWord(w)
  BY <1>5 DEF ReadSend, WriteAck, WriteLoopEnd, WriteWord, AfterWrites
<1>6. CASE Session \/ Disable
  BY <1>6 DEF Session, SetPinCount, Enter, Leave, Disable, Configure, SkipConfigure
<1>7. CASE TargetReady \/ UNCHANGED vars
  BY <1>7 DEF TargetReady, vars
<1> QED
  BY <1>1, <1>2, <1>3, <1>4, <1>5, <1>6, <1>7 DEF Next, Firmware

\* The variables of the memory, as the firmware shows them.
Open == Serving
memoryVars == <<mem, Open, hconfig, Due, sent, Taken>>

LEMMA MemoryVars == Memory!Spec <=> Memory!Init /\ [][Memory!Next]_memoryVars
  BY DEF Memory!Spec, memoryVars, Open

LEMMA MemoryInit == Init => Memory!Init
  BY DEF Init, Memory!Init, Due, Taken, InWord, Preparing, Serving

\* A step that leaves what the memory is made of, and stays in a request or out.
LEMMA Stutters ==
  ASSUME UNCHANGED <<mem, hconfig, sent, Due, Taken>>, pc \in {"idle", "recv", "release"} <=> pc' \in {"idle", "recv", "release"}
  PROVE  UNCHANGED memoryVars
  BY DEF memoryVars, Open, Serving

\* The end of the strobe stores the word at its address.
LEMMA StrobeStores ==
  ASSUME ProperTarget, Connected("ce"), Connected("we"),
         Program, Board, Lined, DataLeft, Addressed, WriteEnableOnlyInStrobe',
         ControlStep, pc = "strobe_off"
  PROVE  Memory!Store
<1>1. Live
  BY DEF Live, Program, ActionRuns, Strobing, Preparing
<1>2. Writing
  BY <1>1, LineDriven, ConnectedValid DEF Writing, LineOn, Switched
<1>3. pc' = "strobe_next" /\ UNCHANGED <<flow, host>>
  BY ControlCases, Zenon DEF Called, Releases, Asserts, ControlStep
<1>4. ~Writing'
  BY <1>3 DEF WriteEnableOnlyInStrobe, Writing
<1>5. mem' = [mem EXCEPT ![Bits(Head(todo).addr)] = Head(todo).word]
  BY <1>1, <1>2, <1>4, StrobeShows DEF ControlStep, TargetReacts
<1>6. Due = todo /\ todo # <<>> /\ Due' = Tail(todo)
  BY <1>1, <1>3, StrobeShows DEF Due, Preparing, flow
<1>7. UNCHANGED <<hconfig, sent, Taken>> /\ (pc \notin {"idle", "recv", "release"}) /\ (pc' \notin {"idle", "recv", "release"})
  BY <1>3 DEF Taken, InWord, flow, host
<1> QED
  BY <1>5, <1>6, <1>7 DEF Memory!Store, Serving

\* The other calls of set_control_pin end a request or show nothing.
LEMMA ControlShows ==
  ASSUME ProperTarget, Program, Board, Lined, ControlStep, pc # "strobe_off"
  PROVE  Memory!End \/ UNCHANGED memoryVars
<1>1. UNCHANGED <<target, flow, host>>
  BY Undisturbed DEF ControlStep
<1> USE <1>1 DEF target, flow, host
<1>2. CASE pc \in {"read_end", "write_end"}
  <2>1. pc' = "recv"
    BY <1>2, ControlCases, Zenon DEF Called, Releases, Asserts
  <2>2. todo = <<>> /\ ~MoreWords /\ (pc = "read_end" => hconfig.action = "READ" /\ Len(sent) = j)
          /\ (pc = "write_end" => hconfig.action = "WRITE")
    BY <1>2 DEF Program, CommandsLeft, WordsCounted, ActionRuns, Strobing, Reading, WritingWords
  <2>3. Due = <<>> /\ UNCHANGED <<Due, Taken>> /\ Taken \in {0, j} /\ (pc = "write_end" => Taken = j)
    BY <1>2, <2>1, <2>2 DEF Due, Taken, InWord, Preparing
  <2>4. hconfig.action = "READ" => ~Memory!Left(Len(sent))
    BY <1>2, <2>2 DEF Memory!Left, MoreWords
  <2>5. hconfig.action = "WRITE" => ~Memory!Left(Taken)
    BY <1>2, <2>2, <2>3 DEF Memory!Left, MoreWords
  <2> QED
    BY <1>2, <2>1, <2>3, <2>4, <2>5 DEF Memory!End, Serving
<1>3. CASE pc \notin {"read_end", "write_end"}
  <2>1. /\ pc \notin {"idle", "recv", "release", "strobe_next"} /\ pc' \notin {"idle", "recv", "release", "strobe_next"}
        /\ pc \in Preparing <=> pc' \in Preparing
        /\ InWord' <=> InWord
    <3>1. pc \notin {"read_end", "write_end", "strobe_off"}
      BY <1>3
    <3>2. CASE Called("be", "be", DataSize = 1, "rst") \/ Asserts
      BY <3>2 DEF Called, Asserts, Preparing, InWord
    <3>3. CASE Releases
      BY <3>1, <3>3 DEF Called, Releases, Preparing, InWord
    <3> QED
      BY <3>2, <3>3, ControlCases
  <2>2. UNCHANGED <<Due, Taken>>
    BY <2>1 DEF Due, Taken
  <2> QED
    BY <2>1, <2>2, Stutters
<1> QED
  BY <1>2, <1>3

LEMMA MemoryStep ==
  ASSUME ProperTarget, Connected("ce"), Connected("we"),
         Program, Board, Lined, DataLeft, Addressed, Sampled, WriteEnableOnlyInStrobe',
         [Next]_vars
  PROVE  [Memory!Next]_memoryVars
<1> USE DEF flow, host, target
<1>a. pc \notin Strobing => todo = <<>>
  BY DEF Program, CommandsLeft
<1>b. pc \in Strobing => \/ hconfig.action = "READ" /\ ret = "read_ddr"
                         \/ hconfig.action = "WRITE" /\ ret = "write_ack"
                         \/ hconfig.action = "COMMAND" /\ ret = "recv"
  BY DEF Program, ActionRuns
<1>1. CASE ControlStep
  BY <1>1, StrobeStores, ControlShows DEF Memory!Next
<1>2. CASE SupplyPower \/ CommitDirections \/ CommitLevels
  <2>1. pc \in {"power", "ddr", "io"} /\ pc' \in {"ddr", "io", "select"} /\ UNCHANGED <<flow, host, target>>
    BY <1>2, Undisturbed DEF SupplyPower, CommitDirections, CommitLevels
  <2>2. UNCHANGED <<Due, Taken>>
    BY <2>1 DEF Due, Taken, InWord, Preparing
  <2> QED
    BY <2>1, <2>2, Stutters
<1>3. CASE Dispatch
  <2>1. UNCHANGED <<Due, Taken>>
    BY <1>3, <1>a DEF Dispatch, Due, Taken, InWord, Preparing, Strobing
  <2> QED
    BY <1>3, <2>1, Stutters DEF Dispatch
<1>4. CASE StrobeDone
  <2>1. pc = "strobe" /\ todo = <<>> /\ pc' = ret /\ UNCHANGED <<flow, host, target>>
    BY <1>4 DEF StrobeDone
  <2>2. Due = <<>> /\ UNCHANGED <<Due, Taken>>
    BY <1>b, <2>1 DEF Due, Taken, InWord, Preparing, Strobing
  <2>3. CASE ret = "recv"
    <3>1. hconfig.action = "COMMAND"
      BY <1>b, <2>1, <2>3 DEF Strobing
    <3> QED
      BY <2>1, <2>2, <2>3, <3>1 DEF Memory!Next, Memory!End, Serving
  <2>4. CASE ret \in {"read_ddr", "write_ack"}
    BY <2>1, <2>2, <2>4, Stutters
  <2> QED
    BY <1>b, <2>1, <2>3, <2>4 DEF Strobing
<1>5. CASE StrobeReady \/ StrobeAddress \/ StrobeData
  <2>1. pc \in {"strobe", "strobe_addr", "strobe_data"} /\ pc' \in {"strobe_oe", "strobe_data", "strobe_on"}
          /\ UNCHANGED <<flow, host, mem>>
    BY <1>5, Undisturbed DEF StrobeReady, StrobeAddress, StrobeData
  <2>2. UNCHANGED <<Due, Taken>>
    BY <2>1 DEF Due, Taken, InWord, Preparing
  <2> QED
    BY <2>1, <2>2, Stutters
<1>6. CASE StrobeNext
  <2>1. UNCHANGED <<Due, Taken>>
    BY <1>6 DEF StrobeNext, NextCommands, Due, Taken, InWord, Preparing
  <2> QED
    BY <1>6, <2>1, Stutters DEF StrobeNext
<1>7. CASE ReadDdr \/ WriteDdr \/ ReadLoop
  <2>1. pc \in {"read_ddr", "write_ddr", "read_loop"} /\ pc' \in {"read_begin", "write_begin", "read_oe", "read_end"}
          /\ UNCHANGED <<flow, host, mem>>
    BY <1>7, Undisturbed DEF ReadDdr, WriteDdr, ReadLoop, SetDataDirection
  <2>2. UNCHANGED <<Due, Taken>>
    BY <2>1 DEF Due, Taken, InWord, Preparing
  <2> QED
    BY <2>1, <2>2, Stutters
<1>8. CASE ReadSample \/ WriteLoopEnd
  <2>1. pc \in {"read_sample", "write_loop"} /\ pc' \in {"read_oeoff", "write_end"}
          /\ UNCHANGED <<flow, hconfig, sent, j, mem>>
    BY <1>8 DEF ReadSample, WriteLoopEnd, AfterWrites
  <2>2. UNCHANGED <<Due, Taken>>
    BY <2>1 DEF Due, Taken, InWord, Preparing
  <2> QED
    BY <2>1, <2>2, Stutters
<1>9. CASE ReadSend
  <2>1. pc = "read_send" /\ pc' = "read_loop" /\ sent' = Append(sent, data) /\ UNCHANGED <<flow, hconfig, mem>>
    BY <1>9 DEF ReadSend
  <2>2. hconfig.action = "READ" /\ Len(sent) = j /\ MoreWords /\ todo = <<>>
    BY <1>a, <2>1 DEF Program, ActionRuns, WordsCounted, Reading, InRead, Strobing
  <2>3. Due = <<>> /\ UNCHANGED <<Due, Taken>>
    BY <2>1, <2>2 DEF Due, Taken, Preparing
  <2>4. data = mem[Bits(hconfig.addr + Len(sent))]
    BY <2>1, <2>2 DEF Sampled, Current
  <2> QED
    BY <2>1, <2>2, <2>3, <2>4 DEF Memory!Next, Memory!Fetch, Memory!Left, MoreWords, Serving
<1>10. ASSUME NEW w \in Word, WriteWord(w) PROVE Memory!Take
  <2>1. pc = "write_loop" /\ MoreWords /\ pc' = "strobe" /\ ret' = "write_ack"
          /\ todo' = Append(hconfig.commands, [addr |-> Current, word |-> w]) /\ UNCHANGED <<hconfig, sent, j, mem>>
    BY <1>10 DEF WriteWord
  <2>2. hconfig.action = "WRITE" /\ todo = <<>>
    BY <1>a, <2>1 DEF Program, ActionRuns, WritingWords, Strobing
  <2>3. Due = <<>> /\ Due' = todo' /\ Taken = j /\ Taken' = j + 1
    BY <2>1, <2>2 DEF Due, Taken, InWord, Preparing
  <2> QED
    BY <2>1, <2>2, <2>3 DEF Memory!Take, Memory!Left, MoreWords, Current, Serving
<1>11. CASE WriteAck
  <2>1. pc = "write_ack" /\ pc' = "write_loop" /\ j' = j + 1 /\ UNCHANGED <<flow, hconfig, sent, mem>>
    BY <1>11 DEF WriteAck
  <2>2. UNCHANGED <<Due, Taken>>
    BY <2>1 DEF Due, Taken, InWord, Preparing, Sampled
  <2> QED
    BY <2>1, <2>2, Stutters
<1>12. CASE (\E n \in PinCounts : SetPinCount(n)) \/ Enter \/ Leave \/ Disable
  <2>1. pc \in {"idle", "recv", "release"} /\ pc' \in {"idle", "recv", "release"} /\ UNCHANGED <<todo, ret, host, mem>>
    BY <1>12, Undisturbed DEF SetPinCount, Enter, Leave, Disable
  <2>2. UNCHANGED <<Due, Taken>>
    BY <2>1 DEF Due, Taken, InWord, Preparing
  <2> QED
    BY <2>1, <2>2, Stutters
<1>13. ASSUME NEW r \in Requests, Configure(r) \/ SkipConfigure(r) PROVE Memory!Begin
  <2>1. pc = "recv" /\ pc' \in {"be", "dispatch"} /\ hconfig' = r /\ j' = 0 /\ sent' = <<>> /\ UNCHANGED mem
    BY <1>13 DEF Configure, SkipConfigure, Receive
  <2>2. Due' = (IF r.action = "WRITE" THEN <<>> ELSE r.commands) /\ Taken' = 0
    BY <2>1 DEF Due, Taken, InWord, Preparing
  <2> QED
    BY <2>1, <2>2 DEF Memory!Begin, Serving
<1>14. CASE TargetReady \/ UNCHANGED vars
  <2>1. UNCHANGED <<pc, flow, host, mem>>
    BY <1>14 DEF TargetReady, vars
  <2>2. UNCHANGED <<Due, Taken>>
    BY <2>1 DEF Due, Taken, InWord
  <2> QED
    BY <2>1, <2>2, Stutters
<1> QED
  BY <1>1, <1>2, <1>3, <1>4, <1>5, <1>6, <1>7, <1>8, <1>9, <1>10, <1>11, <1>12, <1>13, <1>14
  DEF Next, Session, Firmware, Memory!Next

\* Every write of a request, and nothing else, reaches the chip, and every word
\* the host receives is what the chip holds at that address.
THEOREM Refinement ==
  ASSUME ProperTarget, CommandsReconfigured,
         Connected("ce"), Connected("we"), Connected("oe") \/ Connected("re")
  PROVE  Spec => ImplementsMemory
<1>1. Init => Sampled
  BY DEF Init, Sampled
<1>2. Program /\ Board /\ Lined /\ Addressed /\ Sampled /\ [Next]_vars => Sampled'
  BY SampledNext
<1>3. Spec => []Sampled
  BY <1>1, <1>2, StrobedInvariance, PTL DEF Spec
<1>4. Program /\ Board /\ Lined /\ DataLeft /\ Addressed /\ Sampled /\ WriteEnableOnlyInStrobe' /\ [Next]_vars
        => [Memory!Next]_memoryVars
  BY MemoryStep
<1> QED
  BY <1>3, <1>4, MemoryInit, MemoryVars, StrobedInvariance, WriteEnable, PTL DEF Spec, ImplementsMemory
=============================================================================
