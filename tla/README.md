# Gumbi: specifications, model checking and proofs

Gumbi is a USB board that reads and programs parallel chips. An AVR runs the
firmware (`src/avr`), up to eight MCP23S17 I/O expanders on an SPI bus give it
128 pins, and a Python library (`src/python/gumbi`) on the host drives it over a
virtual serial port. This directory holds TLA+ models of the firmware and of the
host library, the TLC configurations that check them and TLAPS proofs.

Paths below are relative to the repository; in `PROJECT.json` they carry one
more `src/` in front.

## 1. Inventory

### Firmware (`src/avr`)

| part | files | state | operations |
|---|---|---|---|
| main loop | `gumbi.c` | none of its own | read one mode byte, ACK or NACK, run the handler |
| expander driver | `mcp23s17.c`, `common.c` | `gconfig`: pin count, device count, pin table, RAM copy of every expander register | init, enable, disable, scan; set / configure a pin (RAM copy, then commit of the whole port); commits of all, or of some, ports |
| expander chips | hardware | IODIR, OLAT, IOCON | obey writes to their address; power-on reset |
| regulator | `regulator.c` | `gconfig.regulator` | VOLTAGE |
| GPIO mode | `gpio.c` | the session | HIGH, LOW, READ, EXIT |
| parallel mode | `parallel.c` | `hconfig`, `configured`, progress of a read, write or command list | configuration, READ, WRITE, COMMAND, EXIT |
| monitor mode | `monitor.c` | the block count | read n blocks, 0 to leave |
| debug handlers | `debug.c` | none | NOP, PING, ID, INFO, GETPINCOUNT, SETPINCOUNT, SCANBUS, SPEEDTEST, XFER |
| SPI | `spi.c` | SPI registers | init, disable, transfer (polls) |
| virtual serial port | `serial.c`, `LUFA/.../CDCClassDevice.c`, `Endpoint_AVR8.c` | the banks of the two data endpoints, the selected endpoint | blocking `fgetc` that flushes, `fputc` that may drop, a wait with a timeout |
| USB device core | `LUFA/.../USBInterrupt_AVR8.c`, `DeviceStandardReq.c`, `descriptors.c` | `USB_DeviceState`, the control endpoint, `USB_ControlRequest` | two interrupt handlers, every control request with its stages |

### Host (`src/python/gumbi`, `src/python/bin`)

| part | files | state | operations |
|---|---|---|---|
| `Gumbi` | `gumbi.py` | the serial port, `config` | SetMode, ReadAck, Read, Write, ExecuteCommands, PinCount, SetVoltage, Reset, Close |
| `GPIO`, `Parallel`, `Monitor`, debug classes | `gpio.py`, `parallel.py`, `monitor.py`, `debug.py` | the open mode | one session each |
| `Configuration` | `configuration.py` | the class-level `CONFIG` dictionary, `pins_shifted` | parse, SetCommand, SetSetting, Pack |
| `flashbin`, `gumbictl` | `src/python/bin` | `CONFIG` between actions | a list of actions, each in a session of its own |

### Interactions

The host sends a mode byte and waits for `A\n` or `N\n`. In a mode the two sides
exchange fixed-size records (2 bytes in GPIO, 4 in monitor, the 682-byte
`hconfig` in parallel), streams whose length both sides compute for themselves,
and acknowledgements. Nothing frames the stream: the two sides agree only as
long as each consumes exactly what the other sends. The firmware has one
thread and two interrupt handlers: `USB_GEN_vect` changes the device state that
the stream tests, `USB_COM_vect` serves a control request with interrupts
enabled while the main program stands still, and both select endpoints behind
its back. The firmware and the chips share state: the firmware reads its own RAM
copy and never the registers it wrote.

### What makes each part correct

- **Expander driver.** The RAM copies decide which commits are made, so they
  have to agree with the chips wherever a decision reads them; a commit of a
  port changes no other pin; commits reach their own chip only; a scan fits
  the arrays it fills.
- **Main loop and sessions.** Whatever sessions, scans, pin counts and supply
  changes came before, between commands no pin drives anything.
- **Parallel mode.** Board and target never drive the data lines against each
  other; write enable is asserted only over a complete address and word; the
  chip is selected only with its supply on, also while a session ends port by
  port, and not accessed while busy; what a
  read returns and what a write stores is right for every order of requests;
  every request ends.
- **Host link.** Both sides agree at the end of every call on where they are;
  data arrives whole and in order; an exception means what it says; a program
  that ends leaves a board the next one can use; every call returns.
- **Virtual serial port.** A program that keeps the port open and fetches what
  it is sent loses no byte and is sent none it did not ask for, whatever
  requests interrupt the stream; answers leave the board before it waits; with
  nobody there, writes end.
- **USB device core.** Answers have the length the host asked for; a request
  the board supports is served; handlers return to the main program.
- **Configuration.** What is packed for an object comes from that object's file,
  with every pin converted exactly once, to a board pin of its own.

The hard behaviours are the interrupts in the middle of the stream and the waits
inside them, the stale RAM copies, whole-port commits under a target
that watches every line, the busy chip, unframed streams whose lengths both
sides compute for themselves, sessions left halfway, and a dictionary shared by
all objects. `PROJECT.json` lists them line by line under `hazards`; an entry
without a property says what is missing.

## 2. Modules

| module | models | kind |
|---|---|---|
| `Mcp23s17` | `mcp23s17.c`, pin helpers of `common.c`, `regulator.c`, the chips | state and operations, no specification of its own |
| `Gumbi` | `gumbi.c`, `gpio.c`, `monitor.c`, the pin table part of `debug.c`, VOLTAGE | extends `Mcp23s17`; one action per command of the host |
| `PinBoard` | nothing of the code: what GPIO mode promises | abstract specification, implemented by `Gumbi` |
| `SpiBus` | `spi.c`, `write_register`, `read_register` and the address decoding of the chips | extends `Gumbi`; the frames of every operation |
| `Parallel` | `parallel.c` with the target chip | extends `Mcp23s17`; one action per write to the expanders |
| `TargetMemory` | nothing of the code: what parallel mode promises of the target | abstract specification, implemented by `Parallel` |
| `HostLink` | the byte streams of `gumbi.py`, its subclasses and every handler | one action per serial operation, one per record of the firmware |
| `UsbDevice` | the device state, both USB interrupt handlers, the endpoint selection | state and actions, composed by `CdcStream` |
| `CdcStream` | `putchar`, `getchar`, flush and wait of the CDC class, the host's driver | extends `UsbDevice`; one action per test or register access |
| `ControlTransfer` | the control endpoint: every request with its stages and waits | one action per wait of the handler |
| `Configuration` | `configuration.py`, the NORFlash calls of `flashbin.py` | one action per call of the program |
| `MCParallel`, `MCHostLink`, `MCConfiguration` | values of constants for TLC | |
| `Mcp23s17_proofs` | theorems and lemmas about pins, ports and commits | extends `Mcp23s17`, shared by the next two |
| `Gumbi_proofs`, `Parallel_proofs`, `CdcStream_proofs`, `ControlTransfer_proofs`, `Configuration_proofs`, `HostLink_proofs` | theorems and lemmas | each extends the module it is about |

The other modules need no MC module: their constants are numbers and small sets
and are written in the `.cfg` files.

The layers meet in assumptions that another module discharges. `HostLink` takes
the serial port for two reliable byte streams, which `NoByteLost`,
`ReadsWhatWasSent` and `AnswersArrive` of `CdcStream` establish for a program
that listens; `CdcStream` takes a control request for two steps that give the
endpoint back, whose insides are `ControlTransfer`; `Mcp23s17` takes a commit for
one step with one result, which `SpiBus` opens into frames.

### How state and actions correspond to the code

**Registers as sets.** A register is the set of the pins whose bit matters:
`shOut` and `shDrv` are `gconfig.chips[].port[GPIOA/B]` and
`port[IODIRA/B]` in RAM, `latch` and `drv` the same in the chips. IODIR is
inverted, so that `shDrv` and `drv` are the *outputs*. `is_high(p)` is
`p \in shOut`. `SetBit` is the guarded change of the RAM copy, `Commit` is
`commit_settings` for a set of ports, and `SetPinImmediate` /
`ConfigurePinImmediate` commit only when the copy changed, as the code does.
`haen` are the chips that have taken IOCON: only they obey a write to their
own address. `IoInit` is `mcp23s17_io_init`, which commits IOCON and IODIR and
leaves the levels in the chips alone.

**Commands as steps (`Gumbi`).** The firmware reads nothing while it processes a
command, so one action is one command from its last byte to its answer. `Enter`
and `Leave` hold the calls of `mcp23s17_enable` and `mcp23s17_disable`.
`BoardReset` may happen in any mode.

**Frames (`SpiBus`).** `IoInitFrames`, `DirectionFrames` and `LevelFrames` are
the sequences of three-byte frames the same functions put on the bus. `Written`
is what the chips make of one: a chip without HAEN takes the frames for address
0, whatever its own, and the silicon of the errata also looks at A2.

**Writes as steps (`Parallel`).** The target sees every write, so here one step
is one write to the expanders, with `pc` the statement that runs next. The
twenty-one calls of `set_control_pin` are one action over the table `Calls`
(line, state, next statement); `commit_ddr_settings`, `commit_io_settings`,
`set_address` and `set_data` are one step each. The end of a session is not:
`mcp23s17_io_init` writes IODIR device by device and port by port, with the
lines of the later ports still driven, and `Disable` is one step for each port
(`released` counts them). After each of these steps
`TargetReacts` gives the target the chance to see the end of a write pulse: it
takes what the lines show, and a line that floats may be read either way.
`TargetReady` ends a busy period at any moment. `Memory` maps this state to
`TargetMemory`: the stores that are due, the words taken and answered, the
memory.

**Streams (`HostLink`).** `todo` is the list of serial operations a call still
makes, generated by the operators named after the methods; `toBoard` and
`toHost` are the streams. The firmware collects `Want[pc]` bytes in `buf` and
then handles the record in the state it is in, whatever the sender meant by the
bytes. `produced` and `written` are history, to compare with what the call
returns or was given. `Habits` names what programs do against the documented
order; it is empty in the passing run.

**Registers of the stream (`CdcStream`).** `inBytes` and `inReady`, `outBytes` and
`outReady` are the banks of the data endpoints and who owns them (TXINI,
RXOUTI; RWAL is `Room`); `selected` is UENUM. Each read of a flag, of a byte
counter, of the device state, the baud rate or the frame number and each write
to an endpoint register is a step of its own, named by `pc`: `Endpoint_WaitUntilReady`
alone is the four steps `WaitReady`, `WaitState`, `WaitStalled` and `WaitFrame`. An
interrupt may come before each of them, and so may a frame or a fetch of the
host. Where another endpoint may be selected, `Flag` says that anything may be
read. `rem` and `frame` are the timeout, counted in frames of the bus, `got` is
`ReceivedByte`, `caller` the function that waits. The interrupts and requests are
`Interrupt` and `Served`. Three variables are history: `lost`, a byte was lost in
the calm; `stray`, a bus reset interrupted the program, which has selected no
endpoint since; and `calm`, a program has the port open and since then nothing of
`Unsettling` has come, that is VBUS, suspend, wake-up, a bus reset, an address or
SET_CONFIGURATION, so that SET_LINE_ENCODING is the only request in the calm.

**Waits of a request (`ControlTransfer`).** `pc` is the wait the interrupt
handler is in; `setup`, `out`, `inReady`, `stall` are the flags of the control
endpoint. The two loops of `Endpoint_Write_Control_PStream_LE`, both directions
of `Endpoint_ClearStatusStage`, the bank GET_LINE_ENCODING waits for
(`AnswerReady`), the data stage of SET_LINE_ENCODING and the wait of SET_ADDRESS
each end for reasons of their own, and those are their guards.
The host follows its request, stops reading early, gives it up, suspends the bus
or is unplugged at any point.

**Dictionary (`Configuration`).** `CONFIG` outlives objects; `file`,
`pins_shifted` and `package_pins` belong to the current one. `New` is
`__init__` with `_parse_config_file`; every other action is a method of
NORFlash (or Close) with the `Pack` it makes. `asked` is history.

## 3. Runs

| run | module | distinct states | question | answer |
|---|---|---|---|---|
| `gumbi` | `SpiBus` | 12,999 | driver and sessions: types, idle pins, addressing, directions, frames | holds |
| `gumbi_board` | `Gumbi` | 6,438 | level copies, isolation of pins, refinement of `PinBoard` | holds |
| `gumbi_pin_low` | `Gumbi` | | does PinLow drive low? | no |
| `parallel` | `MCParallel` | 20,274 | all of parallel mode, active low lines, mixed requests, refinement of `TargetMemory` | holds |
| `parallel_control_lines` | `MCParallel` | | are released lines inactive when the chip is selected? | WE (active high) and WP are not |
| `parallel_read_commands` | `MCParallel` | | commands before reads with RECONFIGURE=0 | second read floats |
| `host_link` | `MCHostLink` | 104,610 | every documented use of the library | holds |
| `host_reset` | `MCHostLink` | | does a program find the board out of any mode after Reset? | no |
| `configuration` | `MCConfiguration` | 13,013 | pins and commands across objects | holds |
| `config_commands` | `MCConfiguration` | | does a call send the commands its object was given? | no |
| `usb_stream` | `CdcStream` | 285,885 | the stream under every interrupt, opening and closing | holds |
| `usb_control` | `ControlTransfer` | 39,387 | every control request, given up or cut off anywhere | holds, but for the waits named below |

Every property of a passing run is violated by at least one plausible bug; these
bugs are the operators marked "Mutant of" in the modules.

### Properties

`Gumbi` and `SpiBus`: `TypeOK` (the chips that are counted go with the pins that
are, whatever byte SETPINCOUNT brought),
`IdleAllInputs`, `ChipsAddressed`, `DirectionsCoherent` (RAM copy of IODIR =
chips), `LatchesCoherent` (the copy of a port's levels is right or all zero),
`PinIsolation`, `ImplementsPinBoard`, `FramesImplementDriver` (the frames of an
operation, taken one at a time by whichever chips answer, do what `Mcp23s17` says
the operation does).

`Parallel`: `NoContention`, `StrobeAsAsked`, `WriteEnableOnlyInStrobe`,
`SelectedOnlyReady`, `IndicatorsFrame`, `ReleasedWhenIdle`, `NoAccessWhileBusy`,
`ImplementsMemory` (through the pins, the target is the memory of
`TargetMemory`), and `RequestEnds` (liveness).

`HostLink`: `InSync`, `DataDelivered`, `WriteDelivers`, `RaisedOnReject`,
`ClosedBoardListens`, and `CallsReturn` (liveness).

`SelectedOnlyReady` has one condition, and only for the end of a session: chip
enable is on a port no later than those of the supply and the address
(`DeselectedFirst`). The ports are let go in their order, so that with another
wiring a chip that is still selected loses its supply first; nothing in the
code or the documents asks the adapter to be wired so.

`Configuration`: `TypeOK` (the pin keys of the object's own file fit their bytes;
keys the file leaves out are not bounded, see below), `PinsConverted`,
`PinsDistinct`, `OwnCommands`.

`CdcStream`: `NoByteLost`, `EndpointHeld`, `ReadsWhatWasSent`, and the liveness
properties `PutsEnd` and `AnswersArrive`. They differ in what they except:

- `EndpointHeld` holds under every interrupt and every request, SET_CONFIGURATION
  with the endpoints it selects and clears, suspend, wake-up and VBUS included. It
  excepts what follows a bus reset that interrupts the program (`stray`), up to
  the next selection: the handler leaves the control endpoint selected.
- `NoByteLost` is about the calm, to a program that leaves no bank waiting for as
  many frames as the timeout has (`HostDelay` < `StreamTimeout`). The bound is
  sharp: `WaitUntilReady` looks at INReady first and at the frame number last, so
  a bank that is fetched between the two, in the last frame, is still reported
  as a timeout and the byte dropped. It says nothing once the device was
  unsettled: SET_CONFIGURATION empties the banks and clears the baud rate, with
  which `putchar` drops what follows.
- `ReadsWhatWasSent` is about the calm: each byte of the OUT bank is taken once and
  none goes with its bank. An end of file, which needs an unattached port, is a
  step of the model but not in question.
- `PutsEnd` excepts a board that hangs in a request and a silent bus
  whose device state a race has overwritten (`Silent`).

`ControlTransfer`: `TypeOK` (the bank, what is left and what the host has fit the
packet and the `wLength`; no host that is not there has a request),
`AnswerComplete`, `RefusedOnlyAfterGivenUp`, and the liveness
properties `RequestsEnd` and `HandlerReturns`.

`HandlerReturns` is as strong as the code: `Stuck` lists the waits that do not
look for what happened. The second loop of the control stream looks at the device
state but not for a new request; `Endpoint_ClearStatusStage` looks at a detached
cable only; SET_LINE_ENCODING looks at nothing but its data; SET_ADDRESS waits
with interrupts disabled, so that the state it tests cannot change. A host that
gives a request up at such a point leaves the main program standing until the
board is switched off, or until another request or the cable ends the wait.
`RefusedOnlyAfterGivenUp` is the other half: where a wait does look for a new
request, the handler of the old one refuses the new one, so that a host has to
repeat it.

### Bounds, and why they are enough

- `SpiBus.cfg`: four addresses, chips at 0, 1 and 3, so that one lies behind the
  gap where the scan stops and has A2 set in its address (the errata), and one
  answers to address 0 for others; registers of one pin. What these invariants
  depend on is whether a chip is counted, powered and addressed; of the pin
  counts 1, 5 and 9 none is a multiple of a chip, so a chip is half counted, and 9
  is more than the arrays have: `PinCountAssumption` allows any byte, as
  `debug.c:28` does. `GumbiBoard.cfg`, with the counts 3 and 9:
  ports of two pins, because one pin can only disturb another in its port;
  address 1 has no chip, so a pin count may name pins that do not exist.
- `MCParallel`: two expanders of 4-pin ports, one address line, two data lines
  in different chips, control, address and data lines sharing ports. `ByteBits`
  is 1, so a word is two "bytes" and the counts cover one word, two words and an
  odd count; reads and writes run past the last address. Requests mix
  RECONFIGURE 0 and 1 with and without commands. The pin counts are the whole
  board and one chip, where validation fails; the latches start clean, partly
  set and all set. Chip enable is on the first port, the supply on the first and
  the third, the address on the second, so that the end of a session passes through
  states with the chip deselected and the rest driven. Sequences of requests are
  not bounded.
- `MCHostLink`: two chips, 16- and 32-pin configurations, one and two byte
  words, up to two bytes or blocks a call, and at least one for `Sniff` and the
  speed test: `Sniff(0)` is the record that leaves the monitor. The sample bytes are a newline and an
  "A", the bytes that could pass for an acknowledgement. Numbers of four bytes
  are two bytes, `hconfig` is four, `XFER_TEST_SIZE` two: what matters is that a
  record is longer than a byte and both sides agree on it.
- `MCConfiguration`: a board of 16 pins and packages of 8, 6 and none, whose
  files set or leave out the keys that matter; at most `MaxObjects` = 5 objects a
  program. Keys a file leaves out are converted again for every object and grow
  with the number of objects; `MaxObjects` keeps them below a byte.
- `CdcStream.cfg`: a bank of two bytes instead of 16, so that it is empty, partly
  filled and full; two frames of timeout instead of 100, and a host that may use
  all but the last (`HostDelay` = 1, the most that `StreamAssumption` allows);
  packets of up to two bytes from the program (`Packet`), empty ones included.
  The interrupts, and opening and closing of the port, are not bounded.
- `ControlTransfer.cfg`: the real packet of 8 bytes and the real descriptor
  sizes 18, 62, 4, 24, 28 and 42. The lengths a host asks for are 8 (one full
  packet), 9 (ends inside the second), 24 (three full packets, and exactly the
  manufacturer string) and 255 (more than there is, so that 24 bytes need an
  empty packet). Requests follow each other without bound.

`Gumbi`, `Parallel`, `CdcStream` and `ControlTransfer` have no bound on the
length of a behaviour; in `HostLink` only the data of one call is bounded.

### Assumptions about what is not in the source

- The target is a memory that is written when write enable is released and may
  be busy for a while after it.
- A packet of the bus lasts longer than the instructions between two waits of a
  handler (`Settled` in `ControlTransfer`), a SETUP packet is not followed by
  data before the handler acknowledged it (the controller answers NAK), no host
  asks for a descriptor of length 0, and a host that resumes a device sends
  nothing before the device has seen it.
- The driver of the host polls the IN endpoint only while a program has the port
  open.
- A board whose handler hangs is switched off and on by its user (`PowerCycle`).

### Fairness

- `WF(Firmware)`, in `Parallel` and `HostLink`: the firmware is a single loop
  with no scheduler; if it can take its next step it takes it. In `Parallel`
  this includes the next word of a Write, which the library sends without
  waiting for anything but the ACK. Nothing forces a host to start a request.
- `WF(TargetReady)`: a busy chip gets ready. Without it `is_busy` is polled for
  ever: the code has no limit.
- `WF(Library)`: a call that can make its next serial operation makes it. It
  says nothing of calls nobody makes.
- `SF(Main)`, in `CdcStream`: the AVR runs one instruction of the main program
  after the return of every interrupt, so a step that interrupts disable again
  and again is still taken. `WF(Served)`: a handler whose request the host goes on
  with is left. A handler that waits for data nobody sends is not forced to, nor
  one whose bus is suspended again and again.
  `SF(Frame \/ Fetch)`: the bus does not change its state, nor the program open and
  close the port, faster than the bus carries frames and packets, so that one
  that can again and again carry them does. Strong fairness is needed because a
  suspend or a reset disables both for a while. It is fairness of the two
  together: a frame may be due only after a fetch, and a bank that nobody waits
  for is never fetched. Nothing forces the host to open the
  port, and no other interrupt is forced to come.
- `WF(Handler)` and `WF(BusInterrupt)`, in `ControlTransfer`: handlers run to
  their next wait. `WF(Fetch \/ SendData \/ Status \/ Refused)`: a host that does
  not give its request up goes on with it. It is never forced to make one.
- `Gumbi`, `SpiBus` and `Configuration` have no fairness and no liveness
  property: every command is one step.

No run turns deadlock checking off.

## 4. Where code and documentation disagree

1. `mcp23s17.c:81`: enable clears the RAM copy of the levels, not the chips;
   `PinLow` on a pin an earlier session left high commits nothing and the pin
   drives high (`gumbi_pin_low`).
2. `common.c:114`: `~p.active` is true for 0 and for 1; an active high control
   line is never released (`parallel_control_lines`).
3. `parallel.c:53-60`: WP is missing from the outputs, so it is never driven
   (`parallel_control_lines`).
4. `parallel.c:402`: commands of a second read find the data lines as inputs
   (`parallel_read_commands`).
5. `parallel.c:131`: after a rejected configuration the board has left the mode,
   the library has not; Close sends an EXIT record to the main loop, which takes
   its bytes for modes (`host_reset`).
6. `gumbi.py:430`: both statements of Reset are commented out, so the next
   program stays in the mode it finds (`host_reset`).
7. `configuration.py:119`: commands of one object are sent for the next; with
   `--id --read` the chip is read in its ID mode (`config_commands`).

Because of 2 and 4 the run `parallel` has active low lines and no commands
before a read with RECONFIGURE=0; because of 5 the run `host_link` has programs
that stop at an exception.

Three more differences were met and have no run. `configuration.py:78-81` says that
RI is asserted at the beginning of a Read; `parallel.c:402` strobes the commands of
the read before `parallel.c:408` asserts it, and `IndicatorsFrame` asks for RI around
the words only, as the code has it. `parallel.c:478` acknowledges each
byte of a word, so a Write of an odd number of bytes to a 16-bit chip returns
while the firmware waits for the second half; the programs write whole words, and
so does `HostLink`. In `descriptors.c` the lengths of the manufacturer and product
strings (11 and 13 characters) do not match their texts; `ControlTransfer` takes
the lengths, which are what is sent.

## 5. Proofs

TLAPS checks some 9,200 obligations. The theorems hold for every number and width
of chips, every set of pin counts, every wiring that meets the hypotheses named
below, every bank and packet size, every set of files. TLC checked each
inductive invariant as an INVARIANT of the run of its module before it was
proved, and checks the assumptions on every run.

**`Gumbi_proofs`** (450 obligations, and 65 in `Mcp23s17_proofs`) assumes
`BoardAssumption` (the addresses below `FirstGap`
have a chip, `FirstGap` does not) and `PinCountAssumption`, which is the type of the
byte SETPINCOUNT takes and bounds nothing else; that the count of a scan is
such a byte too is a lemma (`ScanFits`). The theorems
`Typing`, `IdleIsSafe`, `Addressing`, `DirectionCoherence` and `LatchCoherence`
follow from one inductive invariant. None of them is inductive alone:

- `TypeOK`, `ChipsAddressed`, `DirectionsCoherent`, `LatchesCoherent`;
- `TableWired`: the pin table and `haen` name chips that exist only. A commit
  for a pin without a chip would change the copy and nothing else, and the copy
  would run ahead of the chips;
- `Commanded`: the copies hold bits of pins of the table only, and none in the
  main loop. It turns "copy = chips" into "nothing drives" between sessions,
  and keeps it true through a change of the supply;
- `Unpowered`: a chip without power drives and remembers nothing. The code
  writes to unpowered chips freely; coherence is claimed only with power on,
  and this is what makes it come back with the power.

Each handler has a lemma of its own, over `SetPinImmediateKeeps`,
`ConfigurePinImmediateKeeps` and `IoInitKeeps`. `Isolation` and `Refinement` use
the same invariant: a commit changes the pin's own port only (`CommitPort`), and
a port is stale in `PinBoard` exactly when copy and latches differ, in which case
the copy is all zero. That is why the first pin set high in such a port pulls
the others low, and a pin set low may stay high: the promise of `PinBoard` is the
strongest one the code keeps, and finding 1 is what it does not promise.

**`Parallel_proofs`** (1,898 obligations) proves every safety property of the run
`parallel`, and that `Parallel` implements `TargetMemory`. Some of it holds for
any wiring; the rest needs what the code does not check and leaves to whoever
wires the adapter and writes the configuration. Those are the hypotheses,
defined at the end of `Parallel`; `MCParallel` asserts (`TargetAsProved`) that
the constants of the passing run meet them.

| theorem | property | hypotheses |
|---|---|---|
| `Typing`, `LetGo` | `TypeOK`, `ReleasedWhenIdle` | none |
| `WriteEnable`, `Contention`, `Selected` | `WriteEnableOnlyInStrobe`, `NoContention`, `SelectedOnlyReady` | `ProperTarget` |
| `Indicators` | `IndicatorsFrame` | `ProperTarget`, WI and RI connected |
| `Strobe` | `StrobeAsAsked` | `ProperTarget`, `CommandsReconfigured` |
| `BusyWait` | `NoAccessWhileBusy` | `ProperTarget`, BY connected |
| `Refinement` | `ImplementsMemory` | `ProperTarget`, `CommandsReconfigured`; CE, WE, and OE or RE connected |

`Selected` needs no order of the ports because `DeselectedFirst` is part of the property:
without it nothing is claimed of a chip that is still selected while the session
ends.

- `ProperTarget`: every line has a pin of its own (`OwnPins`), the lines that
  `set_control_pin` releases are active low (`ActiveLow`), pin counts are
  multiples of 16 (`WholeChips`). Without `ActiveLow` the theorems are false: the
  run `parallel_control_lines` is the counterexample.
- `CommandsReconfigured`: a read with commands sets RECONFIGURE. Otherwise the
  data pins are still inputs while the commands of the second read are strobed;
  the run `parallel_read_commands` is the counterexample.
- `Connected(c)`: line `c` is on a pin that is valid whenever the lines that
  `is_valid_hconfig` checks are. The code skips a line whose pin is not valid;
  what is claimed of the line then cannot be had.

The inductive invariant has a part for each idea, and each part its own lemma
`...Next`:

- `Program` (types, which statements belong to which action, commands left, words
  counted) and `Board` (`Steady`: the supply is on and the chips of the scan stay;
  `ValidPins`: only valid pins are driven or set, none between sessions) hold for
  any wiring;
- `Lined`: `Driven` (the outputs are outputs in the chips from the commit of the
  directions on, and the busy line never), `DataDirected` (the data lines are
  inputs from the start of a read and outputs in a write), `Shown` (the latches
  equal the RAM copy once the levels are committed), `Levels` (a control line is
  low at the statements where it is due, high at all others), `LettingGo` (at the
  end of a session the ports not yet let go show what they showed before). It is
  coherence
  as in `Gumbi`, restated for a board that is between two of its writes: where
  the copy may run ahead of the chips is a set of values of `pc`;
- `DataLeft` and `Addressed`: the data and address lines hold the command that is
  strobed or the word that is transferred;
- `Awaited`: the target has not been touched since it was last polled idle;
  `Sampled`: the word on its way to the host is the one in memory.

`LineAsserted` and `LineDriven` turn `Lined` into "a line is asserted at the target
exactly where the program is between its two calls", from which the properties
follow. The refinement maps the address and the words that are `Due` and `Taken`
to the state of `TargetMemory`; `StrobeStores` shows that the release of write
enable is its `Store`, `MemoryStep` goes through the actions.

**`CdcStream_proofs`** (577) proves `TypeOK`, `NoByteLost`, `EndpointHeld` and
`ReadsWhatWasSent`, for every size of the bank, timeout and delay of the host that
`StreamAssumption` allows. `EndpointHeld` needs that the endpoint the program
selected is in UENUM or, while an interrupt runs, in `saved` (`OwnHeld`, and `Own`
for the one of the two that counts), unless a bus reset came (`stray`).
`NoByteLost` needs that there is room where a byte is written, although the test
for room and the write are separated by interrupts (`RoomHeld`); that the frames
the host has left the bank waiting and those the timeout has left make up the
timeout, and one frame more once a frame is due to be counted; and that past a
look at INReady the timeout still has a frame (`AgeCounts`), which is where
`HostDelay` < `StreamTimeout` is used. `ReadsWhatWasSent` needs that nobody but the
program takes from the OUT bank between its test and its read (`ReadHeld`).
`Connected` says what `calm` means for the device. The lemmas go by the functions
of the code: `PutKeeps`, `WaitKeeps`, `GetKeeps`, `FlushKeeps`, then the host and the
interrupts.

**`ControlTransfer_proofs`** (271) proves `TypeOK`, `AnswerComplete` and
`RefusedOnlyAfterGivenUp`, for every packet size and all lengths a host may ask
for. What the host has, what is in the bank and what the handler has left add up
to the answer (`AnswerAdds`), which holds only while host and handler follow the
same request (`InStep`, `GivenUp`, `SetupFirst`) and are in matching stages
(`Waiting`, `KindServed`, `Staged`). That the answer fits the `wLength`
follows from it (`RestFits`).

**`Configuration_proofs`** (343) assumes `FilesAssumption`. `ConvertedOnce` needs,
besides the property, that the
object's file and package are the current ones (`FileAdopted`), that the file's
pin keys are in the dictionary as they were written before the first `Pack` and
converted after it (`PinsHeld`), and that every packed key exists
(`HasDefaults`). `LinesDistinct` adds that the conversion is injective and stays
on the board (`RealInjective`, `RealOnBoard`). `CommandsOfObject` adds that the
commands of an erase, a write and an ID read are those of the file that was
adopted last (`CommandsHeld`). The attempt to prove `TypeOK` showed that its
first version, converted pins below the size of the board, holds only if a
file names pins its chip has, which nothing checks. What the code needs, and what is proved, is weaker: a
converted pin of the object's own file fits its byte of `hconfig` and is `UNUSED`
only if the file's is. For the keys a file leaves out there is no such theorem:
each object converts what the earlier one left, a pin of the right half grows
each time, and nothing in the code bounds it.

**`HostLink_proofs`** (some 5,600) proves all six safety properties of the run
`host_link`, for every set of pin counts, every transfer size and all data of a
call. One hypothesis is needed, `ProgramsStopAtErrors` (`Habits = {}`): a call that
raises ends its program, as an exception nobody catches does. `Habits` is empty in
the passing run. A program that closes a Parallel object whose configuration was
rejected breaks `ClosedBoardListens`; this is the behaviour `host_reset` starts
from.

None of the six properties is inductive, and their conjunction is not either:
all of them say something only when a call has returned. What holds in between
is that the library and the firmware are in the same conversation. The
invariant (`Types`, `Talking`) says so by the cases of what is under way:

- `Asking`: nothing has been answered yet. The bytes the firmware has collected,
  those on the stream and those the script still sends are one record `r`, and
  the rest of the script is `k` lines, `n` bytes and a continuation `t`. `Expects`
  is the protocol, one disjunct per record of each handler: which `r` the firmware
  in state `pc` takes, the `k` lines and `n` bytes it answers with, and the `t`
  that goes on from the state it is then in. It is also what a reader can compare
  with the handlers. A Write adds how far the data has come (`WriteAsked`).
- `Hearing`: the answer, `k` acknowledgements and then data, is on its way, the
  script starts with reads for exactly these, and what follows is `Quiet`: the
  end of the call, the close of the port, or the next record. The data are the
  bytes of `produced` that the library has not taken.
- `HearingText`: the answers to Info and ID, which are lines without a count.
- `Rejected`: after a NACK the firmware is in the main loop; the reason is still
  on the stream.
- `Closed`: nobody has the port and the main loop waits.

Each action has a lemma (`...Step`); the ones of the library show that a call
starts with a record that `Expects` lists, the ones of the firmware that a
complete record is answered with `k` lines and `n` bytes and that the new state
suits `t`. As scripts are concatenations of unknown length, the lemmas on them
(`SendFirst`, `ReadFirst`, `AckFirst`, `FirstNewline`, `AckedFirst`) say what the
first element of one is and that the rest has the same form.

**Only model-checked.**

- `FramesImplementDriver` of `SpiBus`: it folds over sequences of frames whose
  length depends on a constant, which is induction over data and beyond the
  prover.
- Liveness: `RequestEnds`, `CallsReturn`, `PutsEnd`, `AnswersArrive`, `RequestsEnd`,
  `HandlerReturns`. Fairness and ENABLED are beyond the prover.
- The properties of the five runs that expect a violation are false.

## 6. Not modelled

- LUFA beyond the core the firmware links. The tree has some 55,800 lines, of
  which about 4,000 are the program's own firmware and library; nearly all the
  rest is vendored LUFA for host mode, the UC3 and XMEGA controllers, the other
  device classes and the boards, which the Makefile does not build into this
  firmware or which no statement of it reaches. A model of it would model no
  behaviour of this system. That is also why the mapped lines remain a small
  share of the tree although they are most of the program.
- In the device core: a bus reset in the middle of a control request, after which
  a second request nests in the first; the interrupts of a board that hangs in a
  handler; halted data endpoints (SET_FEATURE is served, its effect on the
  stream is not followed); `USB_USBTask`, which `getchar_Blocking` calls after
  the flush: it selects the control endpoint, finds no SETUP packet because the
  interrupt has taken it, and gives the selection back, which the loop makes anew
  anyway. That the test could see the packet in the very cycle before the
  interrupt is taken, and serve the request twice, is left out.
- SPI register I/O (`spi.c`) below a frame: the polling of SPIF, clock, pins.
- Contents of descriptors, clock, watchdog, LED, delays. Delays matter only to
  the target's timing, which is not modelled.
- Parsing of configuration files and options, INCLUDE, dict configurations, the
  unconverted WI and RI, progress bars, `--word-flip`.
- What commands mean to a flash chip: the target is a memory.
- What the loops and `is_valid_pin` read beyond `gconfig.pins` and `gconfig.chips`
  after a SETPINCOUNT above 128: `Gumbi` takes any count, but follows the pins of
  the arrays only. In parallel mode, a pin count above the board or no multiple of
  16; configurations without data lines.
- A read of the two bytes of the frame number that a new frame tears, which may
  count one frame of the timeout twice.
- In `HostLink`: programs killed inside a call, calls of the base class on an
  object that is in a mode, a second `Go`, `Sniff(0)`, records longer than `hconfig`.

`PROJECT.json` has the hazard of each of these where there is one, with the
reason no property covers it.

## 7. Plan

Done: the driver with its sessions, its frames and its refinement, parallel mode
with the memory it implements, the host link, the configuration, the virtual
serial port and the control endpoint; and proofs of the safety properties of
`Gumbi`, `Parallel`, `CdcStream`, `ControlTransfer`, `Configuration` and `HostLink`
and of the refinements `PinBoard` and `TargetMemory`.

Next: the composition that the layers only assume of each other, as far as it
can be stated without recursion: the service `HostLink` asks of the serial port.
