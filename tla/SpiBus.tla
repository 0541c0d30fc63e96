------------------------------- MODULE SpiBus -------------------------------
(***************************************************************************)
(* The driver on the wire: the frames that its functions put on the SPI    *)
(* bus (spi.c, write_register and read_register of mcp23s17.c) and what    *)
(* the chips make of them.                                                 *)
(*                                                                         *)
(* Module Mcp23s17 takes a commit, an initialisation and a scan as one     *)
(* step with one result.  Here they are sequences of frames.  A chip that  *)
(* has not taken IOCON with HAEN set answers to address 0, whatever its    *)
(* own, and takes the frames that are meant for another.  A byte is the    *)
(* set of its bits that are 1.                                             *)
(***************************************************************************)
EXTENDS Gumbi, SequencesExt

CONSTANT Errata  \* the chips of the silicon that decodes A2 although HAEN is clear
ASSUME ErrataAssumption == Errata \subseteq Present

Bus == [drv |-> drv, latch |-> latch, haen |-> haen]

A2(addr) == 2 * addr >= MaxDevices
Side(p) == PortOf(p) % 2
Bit(p) == p % PinsPerRegister
AllBits == 0..(PinsPerRegister - 1)
HAEN == 3

IOCON_DEFAULT_VALUE == {3, 4, 5}

-----------------------------------------------------------------------------
(* The chips.                                                              *)

Answers(bus, addr) ==
    {c \in Present :
        /\ Powered
        /\ IF c \in bus.haen THEN addr = c
           ELSE IF c \in Errata /\ A2(c) THEN A2(addr) ELSE addr = 0}

\* The chips after one write_register: spi_select, three bytes, spi_release.
Written(bus, f) ==
    LET to   == Answers(bus, f.addr)
        pins == {p \in Pin : DeviceOf(p) \in to /\ Side(p) = f.side}
        ones == {p \in pins : Bit(p) \in f.byte}
    IN  CASE f.reg = "IOCON" ->
               [bus EXCEPT !.haen = IF HAEN \in f.byte THEN @ \union to ELSE @ \ to]
          [] f.reg = "IODIR" -> [bus EXCEPT !.drv = (@ \ pins) \union (pins \ ones)]
          [] f.reg = "GPIO" -> [bus EXCEPT !.latch = (@ \ pins) \union ones]

Sent(bus, frames) == FoldLeft(Written, bus, frames)

-----------------------------------------------------------------------------
(* The driver.                                                             *)

WriteRegister(addr, reg, side, byte) ==
    <<[addr |-> addr, reg |-> reg, side |-> side, byte |-> byte]>>

Iocon(addr) == WriteRegister(addr, "IOCON", 0, IOCON_DEFAULT_VALUE)

\* mcp23s17_io_init: the first chips, the errata, then every address.
IoInitFrames ==
    Iocon(0) \o Iocon(MaxDevices - 1)
      \o FlattenSeq([n \in 1..MaxDevices |->
            WriteRegister(n - 1, "IODIR", 0, AllBits)
              \o WriteRegister(n - 1, "IODIR", 1, AllBits) \o Iocon(n - 1)])

\* commit_settings for the port of p, from the RAM copy with these pins set.
CommitFrame(p, reg, ones) ==
    WriteRegister(DeviceOf(p), reg, Side(p), {Bit(q) : q \in PinsOf(PortOf(p)) \intersect ones})

\* configure_pin_immediate and set_pin_immediate commit only what they change.
DirectionFrames(p, before, after) ==
    IF after = before THEN <<>> ELSE CommitFrame(p, "IODIR", Pin \ after)
LevelFrames(p, before, after) ==
    IF after = before THEN <<>> ELSE CommitFrame(p, "GPIO", after)

\* mcp23s17_chip_count reads IOCON at one address after the other.
IoconRead(bus, addr) == \E c \in Present : Answers(bus, addr) = {c} /\ c \in bus.haen
Counted(bus) ==
    CHOOSE n \in 0..MaxDevices :
        /\ \A addr \in 0..(n - 1) : IoconRead(bus, addr)
        /\ n = MaxDevices \/ ~IoconRead(bus, n)

-----------------------------------------------------------------------------
(* Properties                                                              *)

\* The frames of an operation, sent one by one to chips that may not know their
\* addresses, do together what Mcp23s17 says the operation does: no frame is
\* taken by another chip, none is lost, and the scan counts the chips.
FramesImplementDriver ==
    [][/\ \A m \in {"gpio", "monitor"} :
             Enter(m) \/ Leave(m) => Bus' = Sent(Bus, IoInitFrames)
       /\ ScanBus => /\ Bus' = Sent(Bus, IoInitFrames \o IoInitFrames)
                     /\ numDevices' = Counted(Sent(Bus, IoInitFrames))
       /\ \A p \in Pin :
             GpioHigh(p) \/ GpioLow(p) \/ GpioRead(p) =>
               Bus' = Sent(Bus, DirectionFrames(p, shDrv, shDrv') \o LevelFrames(p, shOut, shOut'))]_vars
=============================================================================
