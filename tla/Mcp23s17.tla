------------------------------ MODULE Mcp23s17 ------------------------------
(***************************************************************************)
(* The MCP23S17 driver of the firmware (src/avr/mcp23s17.c), the part of   *)
(* gconfig it keeps, and the expander chips it writes over SPI.            *)
(*                                                                         *)
(* The driver keeps in RAM a shadow of every register of every possible    *)
(* chip (gconfig.chips) and commits whole 8-bit ports of it to the chips.  *)
(* A register is modelled by the set of pins whose bit matters:            *)
(*   shOut, latch  pins whose GPIO bit is 1  (RAM copy, chip's OLAT)       *)
(*   shDrv, drv    pins whose IODIR bit is 0 (RAM copy, chip): outputs     *)
(* This module declares the state and the driver's operations; Gumbi and   *)
(* Parallel compose them into the handlers of the firmware.                *)
(***************************************************************************)
EXTENDS Integers

CONSTANTS
    MaxDevices,       \* MAX_DEVICES, the hardware addresses on the bus (8)
    PinsPerRegister,  \* PINS_PER_REGISTER, the pins of one port (8)
    Present,          \* the addresses that have a chip on this board
    FirstGap          \* the lowest address that has none

ASSUME BoardAssumption ==
    /\ MaxDevices \in Nat \ {0}
    /\ PinsPerRegister \in Nat \ {0}
    /\ Present \subseteq 0..(MaxDevices - 1)
    /\ FirstGap \in 0..MaxDevices
    /\ 0..(FirstGap - 1) \subseteq Present
    /\ FirstGap = MaxDevices \/ FirstGap \notin Present

VARIABLES
    numPins,     \* gconfig.num_pins
    numDevices,  \* gconfig.num_io_devices
    inuse,       \* the pins whose gconfig.pins[] entry init_pins has filled in
    shOut,       \* gconfig.chips[].port[GPIOA/B]
    shDrv,       \* gconfig.chips[].port[IODIRA/B], inverted
    latch,       \* the chips' output latches
    drv,         \* the chips' IODIR registers, inverted
    haen,        \* the chips that have taken IOCON and use their address pins
    regulator    \* gconfig.regulator, which powers the chips

table  == <<numPins, numDevices, inuse>>
shadow == <<shOut, shDrv>>
chips  == <<latch, drv, haen>>
driverVars == <<table, shadow, chips, regulator>>

-----------------------------------------------------------------------------
(* Pins, ports and chips: the fields addr, reg and bit of struct pin.      *)

PinsPerDevice == PinsPerRegister * 2
MaxPins == MaxDevices * PinsPerDevice

\* gconfig.num_pins and num_io_devices are of type uint8_t; a scan fits.
Byte == 0..255
ASSUME ScanFits == MaxPins \in Byte

Device == 0..(MaxDevices - 1)
Pin == 0..(MaxPins - 1)
PortOf(p) == p \div PinsPerRegister
DeviceOf(p) == PortOf(p) \div 2
Port == {PortOf(p) : p \in Pin}
PinsOf(port) == {p \in Pin : PortOf(p) = port}
PinsOfDevices(n) == {p \in Pin : p < n * PinsPerDevice}
Wired == {p \in Pin : DeviceOf(p) \in Present}

Volt == {"V0", "V18", "V30", "V47"}
Powered == regulator # "V0"

IsValidPin(p) == p < numPins /\ p \in inuse

-----------------------------------------------------------------------------
(* SPI: write_register.  A chip obeys a write to its own address once it   *)
(* has taken IOCON with HAEN set; ChipsAddressed shows that the firmware   *)
(* never commits a port to a powered chip that has not.                    *)

\* commit_settings for every port in ports, from the RAM copy sh.
Commit(reg, sh, ports) ==
    LET hit == {p \in Pin : PortOf(p) \in ports /\ DeviceOf(p) \in haen}
    IN  (reg \ hit) \union (sh \intersect hit)

\* Mutant of SetBit: "=" for "|=", the rest of the port is lost.
SetBitAlone(sh, p, on) ==
    IF ~IsValidPin(p) THEN sh ELSE (sh \ PinsOf(PortOf(p))) \union (IF on THEN {p} ELSE {})

\* The RAM copy sh after set_pin_high, set_pin_low or configure_pin on p: the
\* functions report a change, and only a change is committed at once.
SetBit(sh, p, on) ==
    IF ~IsValidPin(p) THEN sh ELSE IF on THEN sh \union {p} ELSE sh \ {p}

\* Mutant of SetPinImmediate: set_pin_low does not report its change.
SetPinImmediateHighOnly(p, hl) ==
    /\ shOut' = SetBit(shOut, p, hl)
    /\ latch' = IF shOut' = shOut \/ ~hl THEN latch ELSE Commit(latch, shOut', {PortOf(p)})

SetPinImmediate(p, hl) ==
    /\ shOut' = SetBit(shOut, p, hl)
    /\ latch' = IF shOut' = shOut THEN latch ELSE Commit(latch, shOut', {PortOf(p)})

\* Mutant of ConfigurePinImmediate: a pin made an input again is not committed.
ConfigurePinImmediateOutputsOnly(p, out) ==
    /\ shDrv' = SetBit(shDrv, p, out)
    /\ drv' = IF shDrv' = shDrv \/ ~out THEN drv ELSE Commit(drv, shDrv', {PortOf(p)})

ConfigurePinImmediate(p, out) ==
    /\ shDrv' = SetBit(shDrv, p, out)
    /\ drv' = IF shDrv' = shDrv THEN drv ELSE Commit(drv, shDrv', {PortOf(p)})

\* Mutant of IoInit: the IOCON writes are dropped.
IoInitNoIocon ==
    /\ UNCHANGED <<haen, latch>>
    /\ shDrv' = {}
    /\ drv' = {p \in drv : DeviceOf(p) \notin haen'}
    /\ shOut' = {}

\* Mutant of IoInit: the default case, which clears the other registers, is lost.
IoInitKeepGpio ==
    /\ haen' = IF Powered THEN Present ELSE haen
    /\ shDrv' = {}
    /\ drv' = {p \in drv : DeviceOf(p) \notin haen'}
    /\ UNCHANGED <<shOut, latch>>

\* mcp23s17_io_init: IOCON to every chip, then IODIR; the other registers are
\* cleared in RAM only.  mcp23s17_enable and mcp23s17_disable add only the
\* state of the SPI peripheral.
IoInit ==
    /\ haen' = IF Powered THEN Present ELSE haen
    /\ shDrv' = {}
    /\ drv' = {p \in drv : DeviceOf(p) \notin haen'}
    /\ shOut' = {}
    /\ UNCHANGED latch

\* Mutant of ChipCount: the loop counts the address that did not answer.
ChipCountPastGap == IF Powered THEN FirstGap + 1 ELSE 0

ChipCount == IF Powered THEN FirstGap ELSE 0

\* mcp23s17_init, with init_pins: entries once filled in stay filled in.
ScanChips ==
    /\ IoInit
    /\ numDevices' = ChipCount
    /\ numPins' = numDevices' * PinsPerDevice
    /\ inuse' = inuse \union PinsOfDevices(numDevices')

-----------------------------------------------------------------------------
(* Power.  A chip that loses power wakes up with its outputs disabled, its *)
(* latches clear and its address pins ignored.                             *)

PowerOnReset ==
    /\ latch' = {}
    /\ drv' = {}
    /\ haen' = {}

\* set_regulator turns every regulator off before it turns one on: going from
\* one supply to another may or may not reset the chips.
SetRegulator(v) ==
    /\ regulator' = v
    /\ \/ PowerOnReset
       \/ Powered /\ v # "V0" /\ UNCHANGED chips

\* The expanders right after mcp23s17_disable, their latches aside.
DriverState(scanned) ==
    /\ regulator = "V47"
    /\ inuse = scanned
    /\ shOut = {}
    /\ shDrv = {}
    /\ drv = {}
    /\ haen = Present

\* main before its loop: gconfig cleared, 4.7 V, the chips found and initialised.
DriverInit ==
    /\ DriverState(PinsOfDevices(FirstGap))
    /\ numDevices = FirstGap
    /\ numPins = FirstGap * PinsPerDevice
    /\ latch = {}

DriverTypeOK ==
    /\ numPins \in Byte
    /\ numDevices = numPins \div PinsPerDevice
    /\ inuse \in SUBSET Pin
    /\ shOut \in SUBSET Pin
    /\ shDrv \in SUBSET Pin
    /\ latch \in SUBSET Pin
    /\ drv \in SUBSET Pin
    /\ haen \in SUBSET Device
    /\ regulator \in Volt
=============================================================================
