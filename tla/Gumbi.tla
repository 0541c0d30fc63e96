------------------------------- MODULE Gumbi -------------------------------
(***************************************************************************)
(* The firmware's main loop and the handlers that change the pins or the   *)
(* pin table: GPIO mode (src/avr/gpio.c), monitor mode (src/avr/monitor.c),*)
(* SCANBUS and SETPINCOUNT (src/avr/debug.c), VOLTAGE (src/avr/regulator.c)*)
(*                                                                         *)
(* One action is one command of the host, from the moment its bytes are    *)
(* there to the end of its processing: the firmware has one thread and     *)
(* reads nothing in between.  The host may issue the commands in any order *)
(* and may die in any mode: a session that is never closed is a behaviour  *)
(* that stays in its mode.  The bytes themselves are in module HostLink,   *)
(* parallel mode is in module Parallel.                                    *)
(***************************************************************************)
EXTENDS Mcp23s17

CONSTANT PinCounts  \* the values a host passes to SETPINCOUNT
ASSUME PinCountAssumption == PinCounts \subseteq Byte

VARIABLE mode  \* the handler the main loop is in, "idle" in the loop itself

vars == <<mode, driverVars>>

Mode == {"idle", "gpio", "monitor"}

Init == mode = "idle" /\ DriverInit

-----------------------------------------------------------------------------
(* The one-shot handlers, from the main loop.                              *)

Voltage(v) ==
    /\ mode = "idle"
    /\ SetRegulator(v)
    /\ UNCHANGED <<mode, table, shadow>>

ScanBus ==
    /\ mode = "idle"
    /\ ScanChips
    /\ UNCHANGED <<mode, regulator>>

\* Mutant of SetPinCount: the pins are taken for the chips.
SetPinCountAsDevices(n) ==
    /\ mode = "idle"
    /\ numPins' = n
    /\ numDevices' = n
    /\ UNCHANGED <<mode, inuse, shadow, chips, regulator>>

\* The new count is taken as it is, any byte: neither the chips found nor the
\* entries of the pin table change, and a count above MaxPins outruns both
\* tables of gconfig.
SetPinCount(n) ==
    /\ mode = "idle"
    /\ numPins' = n
    /\ numDevices' = n \div PinsPerDevice
    /\ UNCHANGED <<mode, inuse, shadow, chips, regulator>>

-----------------------------------------------------------------------------
(* The modes: mcp23s17_enable on entry, mcp23s17_disable on EXIT.          *)

Enter(m) ==
    /\ mode = "idle"
    /\ mode' = m
    /\ IoInit
    /\ UNCHANGED <<table, regulator>>

GpioHigh(p) ==
    /\ mode = "gpio"
    /\ ConfigurePinImmediate(p, TRUE)
    /\ SetPinImmediate(p, TRUE)
    /\ UNCHANGED <<mode, table, haen, regulator>>

GpioLow(p) ==
    /\ mode = "gpio"
    /\ ConfigurePinImmediate(p, TRUE)
    /\ SetPinImmediate(p, FALSE)
    /\ UNCHANGED <<mode, table, haen, regulator>>

GpioRead(p) ==
    /\ mode = "gpio"
    /\ ConfigurePinImmediate(p, FALSE)
    /\ UNCHANGED <<mode, table, shOut, latch, haen, regulator>>

\* Mutant of Leave: the return path without mcp23s17_disable.
LeaveNoDisable(m) ==
    /\ mode = m
    /\ mode' = "idle"
    /\ UNCHANGED driverVars

Leave(m) ==
    /\ mode = m
    /\ mode' = "idle"
    /\ IoInit
    /\ UNCHANGED <<table, regulator>>

\* The board loses USB power and starts again from main.
BoardReset ==
    /\ mode' = "idle"
    /\ regulator' = "V47"
    /\ numDevices' = FirstGap
    /\ numPins' = FirstGap * PinsPerDevice
    /\ inuse' = PinsOfDevices(FirstGap)
    /\ shOut' = {} /\ shDrv' = {}
    /\ latch' = {} /\ drv' = {} /\ haen' = Present

\* The pins a host names are those of the arrays: what is_valid_pin reads for a
\* pin beyond them, after a SETPINCOUNT that lets it through, has no meaning.
GpioCommand == \E p \in Pin : GpioHigh(p) \/ GpioLow(p) \/ GpioRead(p)

Next ==
    \/ \E v \in Volt : Voltage(v)
    \/ ScanBus
    \/ \E n \in PinCounts : SetPinCount(n)
    \/ \E m \in {"gpio", "monitor"} : Enter(m) \/ Leave(m)
    \/ GpioCommand
    \/ BoardReset

Spec == Init /\ [][Next]_vars

-----------------------------------------------------------------------------
(* Properties                                                              *)

\* The variables keep their types, and whatever byte SETPINCOUNT brings
\* (debug.c:28) the firmware counts the chips that go with its pins, also after
\* the next scan (mcp23s17.c:15-16).  The count itself may exceed the arrays.
TypeOK == mode \in Mode /\ DriverTypeOK

\* Every handler that enables the expanders disables them again on every way
\* back to the main loop: between commands no pin drives anything, whatever
\* the sessions, pin counts and supply changes before (mcp23s17_disable).
IdleAllInputs == mode = "idle" => drv = {}

\* In a mode every powered chip has taken IOCON, so that a commit to its own
\* address reaches it and no other chip: the IOCON writes of mcp23s17_io_init.
ChipsAddressed == mode # "idle" /\ Powered => haen = Present

\* is_output reads the RAM copy of IODIR instead of the chip; with power on
\* the two never differ, or configure_pin would skip a commit that is due.
DirectionsCoherent == Powered => drv = shDrv

\* is_high reads the RAM copy of GPIO instead of the chip.  Unlike IODIR the
\* two may differ, but only in one way: a port whose RAM copy is all zero.  So
\* a pin the firmware believes high is high.
LatchesCoherent ==
    Powered => \A port \in Port :
        \/ latch \intersect PinsOf(port) = shOut \intersect PinsOf(port)
        \/ shOut \intersect PinsOf(port) = {}

Faithful(q) == q \in drv /\ (q \in latch <=> q \in shOut)

\* A command for one pin rewrites the whole port of that pin: every other
\* output that drives what it was told keeps driving it.
PinIsolation ==
    [][\A p \in Pin :
         GpioHigh(p) \/ GpioLow(p) \/ GpioRead(p) =>
           \A q \in Pin \ {p} : Faithful(q) => q \in drv' /\ (q \in latch' <=> q \in latch)]_vars

\* gpio.py:72, "Sets the specified pin low.": once PinLow is acknowledged the
\* pin drives a low level.  The code breaks it after an earlier session.
PinLowDrivesLow ==
    [][\A p \in Pin : GpioLow(p) /\ IsValidPin(p) /\ Powered => p \in drv' /\ p \notin latch']_vars

\* GPIO mode keeps the promise of PinBoard: leftovers of an earlier session are
\* the only reason for which a pin does not drive the level last asked for.
AbstractDrive == [p \in Pin |-> IF p \notin drv THEN "in" ELSE IF p \in latch THEN "high" ELSE "low"]
AbstractStale ==
    {port \in Port : Powered /\ latch \intersect PinsOf(port) # shOut \intersect PinsOf(port)}

Board == INSTANCE PinBoard WITH drive <- AbstractDrive, stale <- AbstractStale
ImplementsPinBoard == Board!Spec
=============================================================================
