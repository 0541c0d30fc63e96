---------------------------- MODULE Gumbi_proofs ----------------------------
(***************************************************************************)
(* Proofs about module Gumbi, for every number of chips, of pins per port, *)
(* for every population of the bus and every set of pin counts.            *)
(***************************************************************************)
EXTENDS Gumbi, Mcp23s17_proofs

-----------------------------------------------------------------------------
(* The inductive invariant.                                                *)

\* Only pins of chips that are there have an entry in the pin table, and only
\* chips that are there have taken IOCON.
TableWired == inuse \subseteq Wired /\ haen \subseteq Present

\* The RAM copies hold bits of pins of the table only, and none in the main loop.
Commanded ==
    /\ shOut \subseteq inuse
    /\ shDrv \subseteq inuse
    /\ mode = "idle" => shOut = {} /\ shDrv = {}

\* A chip without power drives nothing and remembers nothing.
Unpowered == ~Powered => haen = {} /\ latch = {} /\ drv = {}

IInv ==
    /\ TypeOK
    /\ ChipsAddressed
    /\ DirectionsCoherent
    /\ LatchesCoherent
    /\ TableWired
    /\ Commanded
    /\ Unpowered

\* A scan never counts more pins than the arrays of gconfig hold.
LEMMA ScanCounts ==
  /\ ChipCount * PinsPerDevice \in Byte
  /\ (ChipCount * PinsPerDevice) \div PinsPerDevice = ChipCount
  /\ PinsOfDevices(ChipCount) \subseteq Wired
  /\ FirstGap * PinsPerDevice \in Byte
  /\ (FirstGap * PinsPerDevice) \div PinsPerDevice = FirstGap
<1>1. /\ PinsPerDevice \in Nat \ {0} /\ MaxDevices \in Nat
      /\ FirstGap \in 0..MaxDevices
      /\ ChipCount = FirstGap \/ ChipCount = 0
  BY BoardAssumption DEF PinsPerDevice, ChipCount
<1>2. FirstGap * PinsPerDevice \in 0..MaxPins /\ 0 * PinsPerDevice \in 0..MaxPins
  BY <1>1, Z3 DEF MaxPins
<1>3. PinsOfDevices(0) = {}
  BY <1>1, Z3 DEF PinsOfDevices, Pin
<1>4. FirstGap * PinsPerDevice \in Byte /\ 0 * PinsPerDevice \in Byte
  BY <1>1, <1>2, ScanFits DEF Byte
<1>5. /\ (FirstGap * PinsPerDevice) \div PinsPerDevice = FirstGap
      /\ (0 * PinsPerDevice) \div PinsPerDevice = 0
  BY <1>1, DivExact
<1> QED
  BY <1>1, <1>3, <1>4, <1>5, ScannedPinsWired

\* set_pin_immediate keeps the latches in step with the RAM copy, as far as
\* they ever are.
LEMMA SetPinImmediateKeeps ==
  ASSUME IInv, mode # "idle", NEW p \in Pin, NEW hl \in BOOLEAN, SetPinImmediate(p, hl)
  PROVE  /\ shOut' \in SUBSET Pin /\ shOut' \subseteq inuse
         /\ latch' \in SUBSET Pin
         /\ ~Powered => latch' = {}
         /\ Powered => \A port \in Port :
              \/ latch' \intersect PinsOf(port) = shOut' \intersect PinsOf(port)
              \/ shOut' \intersect PinsOf(port) = {}
<1>1. CASE shOut' = shOut
  BY <1>1 DEF IInv, TypeOK, DriverTypeOK, Commanded, Unpowered, LatchesCoherent, SetPinImmediate
<1>2. CASE shOut' # shOut
  <2>1. /\ p \in inuse
        /\ shOut' \in SUBSET Pin /\ shOut' \subseteq inuse
        /\ shOut' \in {shOut \union {p}, shOut \ {p}}
        /\ latch' = Commit(latch, shOut', {PortOf(p)})
    BY <1>2 DEF SetPinImmediate, SetBit, IsValidPin, IInv, TypeOK, DriverTypeOK, Commanded
  <2>2. CASE ~Powered
    BY <2>1, <2>2, CommitUnheard DEF IInv, Unpowered
  <2>3. CASE Powered
    <3>1. DeviceOf(p) \in haen
      BY <2>1, <2>3 DEF IInv, ChipsAddressed, TableWired, Wired
    <3>2. latch' = (latch \ PinsOf(PortOf(p))) \union (shOut' \intersect PinsOf(PortOf(p)))
      BY <2>1, <3>1, CommitPort DEF IInv, TypeOK, DriverTypeOK
    <3>3. ASSUME NEW port \in Port, port # PortOf(p)
          PROVE  /\ latch' \intersect PinsOf(port) = latch \intersect PinsOf(port)
                 /\ shOut' \intersect PinsOf(port) = shOut \intersect PinsOf(port)
      BY <2>1, <3>2, <3>3 DEF PinsOf
    <3>4. latch' \intersect PinsOf(PortOf(p)) = shOut' \intersect PinsOf(PortOf(p))
      BY <3>2
    <3>5. latch' \in SUBSET Pin
      BY <2>1, <3>2 DEF IInv, TypeOK, DriverTypeOK
    <3> QED
      BY <2>1, <2>3, <3>3, <3>4, <3>5 DEF IInv, LatchesCoherent
  <2> QED
    BY <2>2, <2>3
<1> QED
  BY <1>1, <1>2

\* configure_pin_immediate keeps the chips' directions equal to the RAM copy.
LEMMA ConfigurePinImmediateKeeps ==
  ASSUME IInv, mode # "idle", NEW p \in Pin, NEW out \in BOOLEAN, ConfigurePinImmediate(p, out)
  PROVE  /\ shDrv' \in SUBSET Pin /\ shDrv' \subseteq inuse
         /\ drv' \in SUBSET Pin
         /\ ~Powered => drv' = {}
         /\ Powered => drv' = shDrv'
<1>1. CASE shDrv' = shDrv
  BY <1>1 DEF IInv, TypeOK, DriverTypeOK, Commanded, Unpowered, DirectionsCoherent, ConfigurePinImmediate
<1>2. CASE shDrv' # shDrv
  <2>1. /\ p \in inuse
        /\ shDrv' \in SUBSET Pin /\ shDrv' \subseteq inuse
        /\ shDrv' \in {shDrv \union {p}, shDrv \ {p}}
        /\ drv' = Commit(drv, shDrv', {PortOf(p)})
    BY <1>2 DEF ConfigurePinImmediate, SetBit, IsValidPin, IInv, TypeOK, DriverTypeOK, Commanded
  <2>2. CASE ~Powered
    BY <2>1, <2>2, CommitUnheard DEF IInv, Unpowered
  <2>3. CASE Powered
    <3>1. DeviceOf(p) \in haen /\ drv = shDrv
      BY <2>1, <2>3 DEF IInv, ChipsAddressed, TableWired, Wired, DirectionsCoherent
    <3>2. drv' = (drv \ PinsOf(PortOf(p))) \union (shDrv' \intersect PinsOf(PortOf(p)))
      BY <2>1, <3>1, CommitPort DEF IInv, TypeOK, DriverTypeOK
    <3>3. p \in PinsOf(PortOf(p))
      BY DEF PinsOf
    <3>4. drv' = shDrv'
      BY <2>1, <3>1, <3>2, <3>3
    <3> QED
      BY <2>1, <2>3, <3>4
  <2> QED
    BY <2>2, <2>3
<1> QED
  BY <1>1, <1>2

\* mcp23s17_io_init makes every pin an input and every powered chip listen.
LEMMA IoInitKeeps ==
  ASSUME IInv, IoInit
  PROVE  /\ shOut' = {} /\ shDrv' = {} /\ drv' = {} /\ latch' = latch
         /\ Powered => haen' = Present
         /\ ~Powered => haen' = {}
         /\ haen' \subseteq Present /\ haen' \in SUBSET Device
<1>1. Present \subseteq Device
  BY BoardAssumption DEF Device
<1>2. CASE Powered
  <2>1. drv \subseteq Wired
    BY <1>2 DEF IInv, DirectionsCoherent, Commanded, TableWired
  <2> QED
    BY <1>1, <1>2, <2>1 DEF IoInit, Wired
<1>3. CASE ~Powered
  BY <1>3 DEF IInv, Unpowered, IoInit
<1> QED
  BY <1>2, <1>3

-----------------------------------------------------------------------------
(* Every behaviour keeps the inductive invariant.                          *)

\* main leaves the expanders as the invariant says.
LEMMA InitEstablishes == Init => IInv
<1> SUFFICES ASSUME Init PROVE IInv
  OBVIOUS
<1>1. Present \subseteq Device /\ PinsOfDevices(FirstGap) \subseteq Pin
  BY BoardAssumption DEF Device, PinsOfDevices
<1>2. TypeOK
  BY <1>1, ScanCounts DEF TypeOK, DriverTypeOK, Init, DriverInit, DriverState, Mode, Volt
<1>3. TableWired
  BY ScannedPinsWired DEF TableWired, Init, DriverInit, DriverState
<1> QED
  BY <1>2, <1>3 DEF IInv, ChipsAddressed, DirectionsCoherent, LatchesCoherent, Commanded,
                    Unpowered, Powered, Init, DriverInit, DriverState

\* GPIO HIGH and LOW: a pin is made an output, then given its level.
LEMMA DrivePinKeeps ==
  ASSUME IInv, NEW p \in Pin, GpioHigh(p) \/ GpioLow(p)
  PROVE  IInv'
<1>1. PICK hl \in BOOLEAN :
        /\ mode = "gpio" /\ mode' = mode
        /\ ConfigurePinImmediate(p, TRUE)
        /\ SetPinImmediate(p, hl)
        /\ UNCHANGED <<table, haen, regulator>>
  BY DEF GpioHigh, GpioLow
<1>2. mode # "idle"
  BY <1>1
<1>3. /\ shOut' \in SUBSET Pin /\ shOut' \subseteq inuse /\ latch' \in SUBSET Pin
      /\ ~Powered => latch' = {}
      /\ Powered => \A port \in Port :
           \/ latch' \intersect PinsOf(port) = shOut' \intersect PinsOf(port)
           \/ shOut' \intersect PinsOf(port) = {}
  BY <1>1, <1>2, SetPinImmediateKeeps
<1>4. /\ shDrv' \in SUBSET Pin /\ shDrv' \subseteq inuse /\ drv' \in SUBSET Pin
      /\ ~Powered => drv' = {}
      /\ Powered => drv' = shDrv'
  BY <1>1, <1>2, ConfigurePinImmediateKeeps
<1> QED
  BY <1>1, <1>2, <1>3, <1>4
  DEF IInv, TypeOK, DriverTypeOK, ChipsAddressed, DirectionsCoherent, LatchesCoherent,
      TableWired, Commanded, Unpowered, Powered, table

\* GPIO READ: a pin is made an input.
LEMMA ReadPinKeeps ==
  ASSUME IInv, NEW p \in Pin, GpioRead(p)
  PROVE  IInv'
<1>1. /\ mode = "gpio" /\ mode' = mode
      /\ ConfigurePinImmediate(p, FALSE)
      /\ UNCHANGED <<table, shOut, latch, haen, regulator>>
  BY DEF GpioRead
<1>2. mode # "idle"
  BY <1>1
<1>3. /\ shDrv' \in SUBSET Pin /\ shDrv' \subseteq inuse /\ drv' \in SUBSET Pin
      /\ ~Powered => drv' = {}
      /\ Powered => drv' = shDrv'
  BY <1>1, <1>2, ConfigurePinImmediateKeeps
<1> QED
  BY <1>1, <1>2, <1>3
  DEF IInv, TypeOK, DriverTypeOK, ChipsAddressed, DirectionsCoherent, LatchesCoherent,
      TableWired, Commanded, Unpowered, Powered, table

\* Entering and leaving a mode: the expanders are initialised.
LEMMA SwitchModeKeeps ==
  ASSUME IInv, NEW m \in {"gpio", "monitor"}, Enter(m) \/ Leave(m)
  PROVE  IInv'
<1>1. IoInit /\ mode' \in Mode /\ UNCHANGED <<table, regulator>>
  BY DEF Enter, Leave, Mode
<1> QED
  BY <1>1, IoInitKeeps
  DEF IInv, TypeOK, DriverTypeOK, ChipsAddressed, DirectionsCoherent, LatchesCoherent,
      TableWired, Commanded, Unpowered, Powered, table

\* SCANBUS: the expanders are initialised and counted.
LEMMA ScanBusKeeps == ASSUME IInv, ScanBus PROVE IInv'
<1>1. /\ mode = "idle" /\ mode' = mode /\ regulator' = regulator
      /\ IoInit
      /\ numDevices' = ChipCount
      /\ numPins' = ChipCount * PinsPerDevice
      /\ inuse' = inuse \union PinsOfDevices(ChipCount)
  BY DEF ScanBus, ScanChips
<1>2. PinsOfDevices(ChipCount) \subseteq Pin
  BY DEF PinsOfDevices
<1> QED
  BY <1>1, <1>2, ScanCounts, IoInitKeeps
  DEF IInv, TypeOK, DriverTypeOK, ChipsAddressed, DirectionsCoherent, LatchesCoherent,
      TableWired, Commanded, Unpowered, Powered

\* SETPINCOUNT: only the two counts change.
LEMMA SetPinCountKeeps == ASSUME IInv, NEW n \in PinCounts, SetPinCount(n) PROVE IInv'
<1>1. n \in Byte
  BY PinCountAssumption
<1> QED
  BY <1>1
  DEF SetPinCount, shadow, chips, IInv, TypeOK, DriverTypeOK, ChipsAddressed, DirectionsCoherent,
      LatchesCoherent, TableWired, Commanded, Unpowered, Powered

\* VOLTAGE: the chips may lose what they hold, in the main loop only.
LEMMA VoltageKeeps == ASSUME IInv, NEW v \in Volt, Voltage(v) PROVE IInv'
<1>1. /\ mode = "idle" /\ mode' = mode /\ regulator' = v
      /\ UNCHANGED <<numPins, numDevices, inuse, shOut, shDrv>>
      /\ \/ PowerOnReset
         \/ Powered /\ v # "V0" /\ UNCHANGED <<latch, drv, haen>>
  BY DEF Voltage, SetRegulator, table, shadow, chips
<1>2. shOut = {} /\ shDrv = {}
  BY <1>1 DEF IInv, Commanded
<1>3. CASE PowerOnReset
  BY <1>1, <1>2, <1>3
  DEF PowerOnReset, IInv, TypeOK, DriverTypeOK, ChipsAddressed, DirectionsCoherent,
      LatchesCoherent, TableWired, Commanded, Unpowered, Powered
<1>4. CASE Powered /\ v # "V0" /\ UNCHANGED <<latch, drv, haen>>
  BY <1>1, <1>2, <1>4
  DEF IInv, TypeOK, DriverTypeOK, ChipsAddressed, DirectionsCoherent,
      LatchesCoherent, TableWired, Commanded, Unpowered, Powered
<1> QED
  BY <1>1, <1>3, <1>4

\* A reset of the board runs main again.
LEMMA BoardResetKeeps == ASSUME IInv, BoardReset PROVE IInv'
<1>1. Init'
  BY DEF BoardReset, Init, DriverInit, DriverState
<1>2. Init' => IInv'
  BY InitEstablishes, PTL
<1> QED
  BY <1>1, <1>2

\* One step of the main loop, or a stutter.
LEMMA NextKeeps == IInv /\ [Next]_vars => IInv'
<1> SUFFICES ASSUME IInv, [Next]_vars PROVE IInv'
  OBVIOUS
<1>1. ASSUME NEW v \in Volt, Voltage(v) PROVE IInv'
  BY <1>1, VoltageKeeps
<1>2. CASE ScanBus
  BY <1>2, ScanBusKeeps
<1>3. ASSUME NEW n \in PinCounts, SetPinCount(n) PROVE IInv'
  BY <1>3, SetPinCountKeeps
<1>4. ASSUME NEW m \in {"gpio", "monitor"}, Enter(m) \/ Leave(m) PROVE IInv'
  BY <1>4, SwitchModeKeeps
<1>5. ASSUME NEW p \in Pin, GpioHigh(p) \/ GpioLow(p) \/ GpioRead(p) PROVE IInv'
  BY <1>5, DrivePinKeeps, ReadPinKeeps
<1>6. CASE BoardReset
  BY <1>6, BoardResetKeeps
<1>7. CASE UNCHANGED vars
  BY <1>7
  DEF vars, driverVars, table, shadow, chips, IInv, TypeOK, DriverTypeOK, ChipsAddressed,
      DirectionsCoherent, LatchesCoherent, TableWired, Commanded, Unpowered, Powered
<1> QED
  BY <1>1, <1>2, <1>3, <1>4, <1>5, <1>6, <1>7 DEF Next, GpioCommand

LEMMA Invariance == Spec => []IInv
  BY InitEstablishes, NextKeeps, PTL DEF Spec
\* Type correctness: no scan and no SETPINCOUNT outruns gconfig's arrays.
THEOREM Typing == Spec => []TypeOK
<1>1. IInv => TypeOK
  BY DEF IInv
<1> QED
  BY <1>1, Invariance, PTL

\* Between commands every pin of the board is an input.
THEOREM IdleIsSafe == Spec => []IdleAllInputs
<1>1. IInv => IdleAllInputs
  BY DEF IInv, IdleAllInputs, Commanded, DirectionsCoherent, Unpowered
<1> QED
  BY <1>1, Invariance, PTL

\* No commit of a mode goes to a powered chip that does not listen.
THEOREM Addressing == Spec => []ChipsAddressed
<1>1. IInv => ChipsAddressed
  BY DEF IInv
<1> QED
  BY <1>1, Invariance, PTL

\* The RAM copy of the directions and the chips never disagree.
THEOREM DirectionCoherence == Spec => []DirectionsCoherent
<1>1. IInv => DirectionsCoherent
  BY DEF IInv
<1> QED
  BY <1>1, Invariance, PTL

\* The RAM copy of the levels and the chips disagree only on untouched ports.
THEOREM LatchCoherence == Spec => []LatchesCoherent
<1>1. IInv => LatchesCoherent
  BY DEF IInv
<1> QED
  BY <1>1, Invariance, PTL

-----------------------------------------------------------------------------
(* GPIO mode implements PinBoard.                                          *)

\* In a mode, with power on, set_pin_immediate gives its pin the level asked
\* for, unless the port is stale and the level is low; the rest of the port
\* follows the RAM copy as soon as the port is written.
LEMMA SetPinImmediateEffect ==
  ASSUME IInv, mode # "idle", Powered, NEW p \in Pin, IsValidPin(p), NEW hl \in BOOLEAN,
         SetPinImmediate(p, hl)
  PROVE  /\ hl => shOut' = shOut \union {p}
         /\ ~hl => shOut' = shOut \ {p}
         /\ shOut' # shOut =>
              latch' = (latch \ PinsOf(PortOf(p))) \union (shOut' \intersect PinsOf(PortOf(p)))
         /\ shOut' = shOut => latch' = latch
<1>1. p \in inuse /\ DeviceOf(p) \in haen
  BY DEF IsValidPin, IInv, ChipsAddressed, TableWired, Wired
<1>2. latch \in SUBSET Pin /\ shOut' \in SUBSET Pin
  BY SetPinImmediateKeeps DEF IInv, TypeOK, DriverTypeOK
<1> QED
  BY <1>1, <1>2, CommitPort DEF SetPinImmediate, SetBit
\* configure_pin_immediate makes the chips' directions what was asked for.
LEMMA ConfigurePinImmediateEffect ==
  ASSUME IInv, mode # "idle", Powered, NEW p \in Pin, IsValidPin(p), NEW out \in BOOLEAN,
         ConfigurePinImmediate(p, out)
  PROVE  drv' = IF out THEN drv \union {p} ELSE drv \ {p}
<1>1. drv' = shDrv' /\ drv = shDrv
  BY ConfigurePinImmediateKeeps DEF IInv, DirectionsCoherent
<1> QED
  BY <1>1 DEF ConfigurePinImmediate, SetBit

\* A command for a pin that is not valid, or without power, changes no pin.
LEMMA IdleCommand ==
  ASSUME IInv, IInv', NEW p \in Pin, GpioHigh(p) \/ GpioLow(p) \/ GpioRead(p),
         ~IsValidPin(p) \/ ~Powered
  PROVE  UNCHANGED <<AbstractDrive, AbstractStale>>
<1>0. regulator' = regulator
  BY DEF GpioHigh, GpioLow, GpioRead
<1>1. CASE ~Powered
  <2>1. drv = {} /\ drv' = {} /\ ~Powered'
    BY <1>0, <1>1 DEF IInv, Unpowered, Powered
  <2>2. AbstractDrive' = AbstractDrive
    BY <2>1 DEF AbstractDrive
  <2>3. AbstractStale = {} /\ AbstractStale' = {}
    BY <1>1, <2>1 DEF AbstractStale
  <2> QED
    BY <2>2, <2>3
<1>2. CASE ~IsValidPin(p)
  <2>1. UNCHANGED <<drv, latch, shOut>>
    BY <1>2 DEF GpioHigh, GpioLow, GpioRead, SetPinImmediate, ConfigurePinImmediate, SetBit
  <2> QED
    BY <1>0, <2>1 DEF AbstractDrive, AbstractStale, Powered
<1> QED
  BY <1>1, <1>2

\* A pin that is stale is in a port whose RAM copy is all zero.
LEMMA StalePorts ==
  ASSUME IInv, Powered, NEW port \in Port
  PROVE  /\ port \in AbstractStale => shOut \intersect PinsOf(port) = {}
         /\ port \notin AbstractStale => latch \intersect PinsOf(port) = shOut \intersect PinsOf(port)
  BY DEF AbstractStale, IInv, LatchesCoherent

\* GPIO READ of a valid pin lets the pin go.
LEMMA ReadReleases ==
  ASSUME IInv, NEW p \in Pin, GpioRead(p), IsValidPin(p), Powered
  PROVE  Board!Release(p)
<1>1. drv' = drv \ {p} /\ UNCHANGED <<latch, shOut, regulator>>
  BY ConfigurePinImmediateEffect DEF GpioRead
<1>2. AbstractDrive' = [AbstractDrive EXCEPT ![p] = "in"]
  BY <1>1 DEF AbstractDrive
<1>3. AbstractStale' = AbstractStale
  BY <1>1 DEF AbstractStale, Powered
<1> QED
  BY <1>2, <1>3 DEF Board!Release

\* GPIO HIGH of a valid pin drives it high and makes its port fresh.
LEMMA HighDrives ==
  ASSUME IInv, NEW p \in Pin, GpioHigh(p), IsValidPin(p), Powered
  PROVE  Board!High(p)
<1> DEFINE own == PinsOf(PortOf(p))
<1>1. /\ drv' = drv \union {p}
      /\ shOut' = shOut \union {p}
      /\ shOut' # shOut => latch' = (latch \ own) \union (shOut' \intersect own)
      /\ shOut' = shOut => latch' = latch
      /\ regulator' = regulator
  BY ConfigurePinImmediateEffect, SetPinImmediateEffect DEF GpioHigh
<1>2. PortOf(p) \in Port /\ p \in own
  BY DEF Port, PinsOf
<1>3. /\ PortOf(p) \in AbstractStale => shOut \intersect own = {}
      /\ PortOf(p) \notin AbstractStale => latch \intersect own = shOut \intersect own
  BY <1>2, StalePorts
<1>4. latch' \intersect own = shOut' \intersect own
  BY <1>1, <1>2, <1>3
<1>5. \A port \in Port \ {PortOf(p)} :
         /\ latch' \intersect PinsOf(port) = latch \intersect PinsOf(port)
         /\ shOut' \intersect PinsOf(port) = shOut \intersect PinsOf(port)
  BY <1>1 DEF PinsOf
<1>6. AbstractStale' = AbstractStale \ {PortOf(p)}
  BY <1>1, <1>4, <1>5 DEF AbstractStale, Powered
<1>7. ASSUME NEW q \in Pin
      PROVE  AbstractDrive'[q] =
               IF q = p THEN "high"
               ELSE IF PortOf(q) = PortOf(p) /\ PortOf(p) \in AbstractStale
                       /\ AbstractDrive[q] # "in"
                    THEN "low" ELSE AbstractDrive[q]
  <2>0. q \in PinsOf(PortOf(q)) /\ PortOf(q) \in Port
    BY DEF PinsOf, Port
  <2>1. CASE q = p
    BY <1>1, <1>2, <1>4, <2>1 DEF AbstractDrive
  <2>2. CASE q # p /\ PortOf(q) # PortOf(p)
    BY <1>1, <1>5, <2>0, <2>2 DEF AbstractDrive
  <2>3. CASE q # p /\ PortOf(q) = PortOf(p)
    <3>1. q \in own /\ (q \in latch' <=> q \in shOut)
      BY <1>1, <1>4, <2>0, <2>3
    <3> QED
      BY <1>1, <1>3, <2>3, <3>1 DEF AbstractDrive
  <2> QED
    BY <2>1, <2>2, <2>3
<1>8. AbstractDrive' = [q \in Pin |->
               IF q = p THEN "high"
               ELSE IF PortOf(q) = PortOf(p) /\ PortOf(p) \in AbstractStale
                       /\ AbstractDrive[q] # "in"
                    THEN "low" ELSE AbstractDrive[q]]
  BY <1>7 DEF AbstractDrive
<1> QED
  BY <1>6, <1>8 DEF Board!High

\* GPIO LOW of a valid pin drives it low, or at the level its stale port holds.
LEMMA LowDrives ==
  ASSUME IInv, NEW p \in Pin, GpioLow(p), IsValidPin(p), Powered
  PROVE  Board!Low(p)
<1> DEFINE own == PinsOf(PortOf(p))
<1>1. /\ drv' = drv \union {p}
      /\ shOut' = shOut \ {p}
      /\ shOut' # shOut => latch' = (latch \ own) \union (shOut' \intersect own)
      /\ shOut' = shOut => latch' = latch
      /\ regulator' = regulator
  BY ConfigurePinImmediateEffect, SetPinImmediateEffect DEF GpioLow
<1>2. PortOf(p) \in Port /\ p \in own
  BY DEF Port, PinsOf
<1>3. /\ PortOf(p) \in AbstractStale => shOut \intersect own = {}
      /\ PortOf(p) \notin AbstractStale => latch \intersect own = shOut \intersect own
  BY <1>2, StalePorts
<1>4. CASE p \in shOut
  <2>1. latch \intersect own = shOut \intersect own
    BY <1>2, <1>3, <1>4
  <2>2. latch' = latch \ {p}
    BY <1>1, <1>2, <1>4, <2>1
  <2>3. AbstractDrive' = [AbstractDrive EXCEPT ![p] = "low"]
    BY <1>1, <2>2 DEF AbstractDrive
  <2>4. \A port \in Port \ {PortOf(p)} :
         /\ latch' \intersect PinsOf(port) = latch \intersect PinsOf(port)
         /\ shOut' \intersect PinsOf(port) = shOut \intersect PinsOf(port)
    BY <1>1, <2>2 DEF PinsOf
  <2>5. latch' \intersect own = shOut' \intersect own
    BY <1>1, <2>1, <2>2
  <2>6. AbstractStale' = AbstractStale
    BY <1>1, <2>1, <2>4, <2>5 DEF AbstractStale, Powered
  <2> QED
    BY <2>3, <2>6 DEF Board!Low
<1>5. CASE p \notin shOut
  <2>1. shOut' = shOut /\ latch' = latch
    BY <1>1, <1>5
  <2>2. AbstractStale' = AbstractStale
    BY <1>1, <2>1 DEF AbstractStale, Powered
  <2>3. CASE p \in latch
    <3>1. PortOf(p) \in AbstractStale
      BY <1>2, <1>3, <1>5, <2>3
    <3>2. AbstractDrive' = [AbstractDrive EXCEPT ![p] = "high"]
      BY <1>1, <2>1, <2>3 DEF AbstractDrive
    <3> QED
      BY <2>2, <3>1, <3>2 DEF Board!Low
  <2>4. CASE p \notin latch
    <3>1. AbstractDrive' = [AbstractDrive EXCEPT ![p] = "low"]
      BY <1>1, <2>1, <2>4 DEF AbstractDrive
    <3> QED
      BY <2>2, <3>1 DEF Board!Low
  <2> QED
    BY <2>3, <2>4
<1> QED
  BY <1>4, <1>5

\* A step that ends with no pin driven is a ReleaseAll of the abstract board.
LEMMA SilentStep ==
  ASSUME drv' = {} PROVE Board!ReleaseAll
<1>1. AbstractDrive' = [p \in Pin |-> "in"]
  BY DEF AbstractDrive
<1>2. AbstractStale' \in SUBSET Port
  BY DEF AbstractStale
<1> QED
  BY <1>1, <1>2 DEF Board!ReleaseAll

\* Every step of the firmware is a step of the abstract board, or none.
LEMMA StepRefines ==
  IInv /\ IInv' /\ [Next]_vars => [Board!Next]_<<AbstractDrive, AbstractStale>>
<1> SUFFICES ASSUME IInv, IInv', [Next]_vars
             PROVE  [Board!Next]_<<AbstractDrive, AbstractStale>>
  OBVIOUS
<1>1. ASSUME drv' = {} PROVE Board!Next
  BY <1>1, SilentStep DEF Board!Next
<1>2. mode' = "idle" => drv' = {}
  BY DEF IInv, Commanded, DirectionsCoherent, Unpowered
<1>3. ASSUME NEW m \in {"gpio", "monitor"}, Enter(m) PROVE drv' = {}
  BY <1>3, IoInitKeeps DEF Enter
<1>4. ASSUME NEW p \in Pin, GpioHigh(p) \/ GpioLow(p) \/ GpioRead(p)
      PROVE  [Board!Next]_<<AbstractDrive, AbstractStale>>
  <2>1. CASE IsValidPin(p) /\ Powered
    BY <1>4, <2>1, HighDrives, LowDrives, ReadReleases DEF Board!Next
  <2>2. CASE ~(IsValidPin(p) /\ Powered)
    BY <1>4, <2>2, IdleCommand
  <2> QED
    BY <2>1, <2>2
<1>5. CASE UNCHANGED vars
  BY <1>5 DEF vars, driverVars, table, shadow, chips, AbstractDrive, AbstractStale, Powered
<1>6. ASSUME \/ \E v \in Volt : Voltage(v)
             \/ ScanBus
             \/ \E n \in PinCounts : SetPinCount(n)
             \/ \E m \in {"gpio", "monitor"} : Leave(m)
             \/ BoardReset
      PROVE  mode' = "idle"
  BY <1>6 DEF Voltage, ScanBus, SetPinCount, Leave, BoardReset
<1> QED
  BY <1>1, <1>2, <1>3, <1>4, <1>5, <1>6 DEF Next, GpioCommand

\* GPIO mode implements the abstract board: a session behaves as PinBoard
\* says whatever sessions, scans and supply changes came before it.
THEOREM Refinement == Spec => ImplementsPinBoard
<1>1. Init => Board!Init
  <2> SUFFICES ASSUME Init PROVE Board!Init
    OBVIOUS
  <2>1. AbstractDrive = [p \in Pin |-> "in"] /\ AbstractStale = {}
    BY DEF Init, DriverInit, DriverState, AbstractDrive, AbstractStale
  <2> QED
    BY <2>1 DEF Board!Init
<1> QED
  BY <1>1, StepRefines, Invariance, PTL DEF Spec, ImplementsPinBoard, Board!Spec

\* A GPIO command never disturbs another pin that drives what it was told.
THEOREM Isolation == Spec => PinIsolation
<1>1. ASSUME IInv, NEW p \in Pin, GpioHigh(p) \/ GpioLow(p) \/ GpioRead(p),
             NEW q \in Pin \ {p}, Faithful(q)
      PROVE  q \in drv' /\ (q \in latch' <=> q \in latch)
  <2>1. /\ shDrv' \in {shDrv, shDrv \union {p}, shDrv \ {p}}
        /\ drv' \in {drv, Commit(drv, shDrv', {PortOf(p)})}
        /\ shOut' \in {shOut, shOut \union {p}, shOut \ {p}}
        /\ latch' \in {latch, Commit(latch, shOut', {PortOf(p)})}
    BY <1>1 DEF GpioHigh, GpioLow, GpioRead, ConfigurePinImmediate, SetPinImmediate, SetBit
  <2>2. q \in drv /\ q \in shDrv /\ (q \in latch <=> q \in shOut)
    BY <1>1 DEF Faithful, IInv, DirectionsCoherent, Unpowered
  <2> QED
    BY <2>1, <2>2 DEF Commit
<1> DEFINE Isolated ==
      \A p \in Pin :
         GpioHigh(p) \/ GpioLow(p) \/ GpioRead(p) =>
           \A q \in Pin \ {p} : Faithful(q) => q \in drv' /\ (q \in latch' <=> q \in latch)
<1>2. IInv /\ [Next]_vars => [Isolated]_vars
  BY <1>1
<1> HIDE DEF Isolated
<1>3. Spec => [][Isolated]_vars
  BY <1>2, Invariance, PTL DEF Spec
<1> QED
  BY <1>3 DEF PinIsolation, Isolated
=============================================================================
