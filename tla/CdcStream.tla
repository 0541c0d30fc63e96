----------------------------- MODULE CdcStream ------------------------------
(***************************************************************************)
(* The virtual serial port: the stdio stream of the firmware over the two  *)
(* data endpoints of the CDC class (serial.c, CDCClassDevice.c,            *)
(* AVR8/Endpoint_AVR8.c), and a host program that opens and closes it.     *)
(*                                                                         *)
(* pc names the test or the access of putchar, getchar or WaitUntilReady   *)
(* that runs next: one read of a flag, a counter, the device state or the  *)
(* frame number, or one write to an endpoint register.  Between two of     *)
(* them the interrupts of module UsbDevice may come, and the host.  Each   *)
(* endpoint has one bank, which the firmware and the host own in turn.     *)
(* Bytes are counted, not told apart.                                      *)
(***************************************************************************)
EXTENDS UsbDevice

CONSTANTS
    Bank,           \* CDC_TXRX_EPSIZE, the bytes of a bank (16)
    StreamTimeout,  \* USB_STREAM_TIMEOUT_MS, in frames of a millisecond (100)
    HostDelay,      \* the frames a host with an open port may leave a bank waiting
    Packet          \* the most bytes a program writes at once (a bound; at most Bank)

ASSUME StreamAssumption ==
    Bank \in Nat \ {0} /\ StreamTimeout \in Nat \ {0}
    /\ HostDelay \in 0..(StreamTimeout - 1) /\ Packet \in 1..Bank

VARIABLES
    pc,                   \* the test or access of the firmware that runs next
    inBytes, inReady,     \* the IN endpoint: the bytes in its bank, TXINI
    outBytes, outReady,   \* the OUT endpoint: those in its bank, RXOUTI
    got,                  \* ReceivedByte is a byte
    caller,               \* who called WaitUntilReady
    rem,                  \* TimeoutMSRem
    frame,                \* whether the frame number has changed since it was read
    port,                 \* whether a program has the port open
    age,                  \* the frames its host has left a bank waiting
    calm,                 \* history: see Unsettling
    lost,                 \* history: a byte of the firmware was lost in the calm
    stray                 \* history: a bus reset changed the program's endpoint

banks == <<inBytes, inReady, outBytes, outReady>>
waitVars == <<caller, rem, frame>>
hostVars == <<port, age, calm>>
vars == <<usbVars, pc, banks, got, waitVars, hostVars, lost, stray>>

Waits == {"wait_ready", "wait_state", "wait_stalled", "wait_frame"}
Puts == {"put", "put_baud", "put_select", "put_room", "put_clear", "put_wait", "put_write"}
Gets == {"get", "get_baud", "get_select", "get_received", "get_bytes", "get_byte", "get_more",
    "get_clear", "get_none"}
Flushes == {"task", "task_baud", "flush", "flush_baud", "flush_select", "flush_bytes", "flush_room",
    "flush_clear", "flush_full", "flush_wait", "flush_last"}

Init ==
    /\ UsbInit
    /\ pc = "work"
    /\ inBytes = 0 /\ inReady = FALSE /\ outBytes = 0 /\ outReady = FALSE
    /\ got = FALSE
    /\ caller = "put" /\ rem = 0 /\ frame = FALSE
    /\ port = "closed" /\ age = 0 /\ calm = FALSE /\ lost = FALSE /\ stray = FALSE

-----------------------------------------------------------------------------
(* The firmware: putchar and getchar, with the USB tests they make.        *)

\* What a register of another endpoint shows is not known.
Flag(endpoint, value) == IF selected = endpoint THEN {value} ELSE BOOLEAN

Go(from, to) == MainRuns /\ pc = from /\ pc' = to /\ UNCHANGED hostVars
Step(from, to) == Go(from, to) /\ UNCHANGED <<lost, stray>>
\* A step that only tests something.
Test(from, to) == Step(from, to) /\ UNCHANGED <<usbVars, banks, got, waitVars>>
\* A test of a flag of an endpoint.
Branch(from, flag, yes, no) ==
    \/ TRUE \in flag /\ Test(from, yes)
    \/ FALSE \in flag /\ Test(from, no)
Select(from, endpoint, to) ==
    /\ Go(from, to) /\ selected' = endpoint /\ stray' = FALSE
    /\ UNCHANGED <<usbOthers, banks, got, waitVars, lost>>

\* Endpoint_ClearIN hands the bank to the host, empty or not.
ClearIN(from, to) ==
    /\ Step(from, to)
    /\ inReady' = IF selected = "in" THEN FALSE ELSE inReady
    /\ UNCHANGED <<usbVars, inBytes, outBytes, outReady, got, waitVars>>

\* The failures of putchar are ignored: the byte is gone.
EndWait == caller' = "put" /\ rem' = 0 /\ frame' = FALSE
Dropped(from) ==
    /\ Go(from, "work") /\ lost' = calm /\ EndWait
    /\ UNCHANGED <<usbVars, banks, got, stray>>

\* The device state and the baud rate, read one after the other at the start of
\* SendByte, ReceiveByte, USBTask and Flush.
Refused(from, no) == IF no = "work" THEN Dropped(from) ELSE Test(from, no)
Checks(from, second, yes, no) ==
    \/ IF deviceState = "configured" THEN Test(from, second) ELSE Refused(from, no)
    \/ IF baud THEN Test(second, yes) ELSE Refused(second, no)

-----------------------------------------------------------------------------
(* Endpoint_WaitUntilReady.                                                *)

StartWait(from, by) ==
    /\ Step(from, "wait_ready")
    /\ caller' = by /\ rem' = StreamTimeout /\ frame' = FALSE
    /\ UNCHANGED <<usbVars, banks, got>>

Ready(from) ==
    /\ Step(from, IF caller = "put" THEN "put_write" ELSE "flush_last")
    /\ EndWait /\ UNCHANGED <<usbVars, banks, got>>
Fails(from) ==
    \/ caller = "put" /\ Dropped(from)
    \/ caller = "flush" /\ Step(from, "get") /\ EndWait /\ UNCHANGED <<usbVars, banks, got>>

\* The flag of the direction the selected endpoint has.
WaitReady ==
    \/ TRUE \in Flag("in", inReady) /\ Ready("wait_ready")
    \/ FALSE \in Flag("in", inReady) /\ Test("wait_ready", "wait_state")

\* Mutant of StateFails: the loop does not look at the device state.
StateFailsNever == FALSE
StateFails == deviceState \in {"unattached", "suspended"}
WaitState == IF StateFails THEN Fails("wait_state") ELSE Test("wait_state", "wait_stalled")

\* No data endpoint is ever stalled here.
WaitStalled ==
    \/ TRUE \in Flag("in", FALSE) /\ Fails("wait_stalled")
    \/ Test("wait_stalled", "wait_frame")

\* Mutant of TimedOut: one frame early.
TimedOutEarly == frame /\ rem <= 1
TimedOut == frame /\ rem = 0

\* The frame number: unchanged, one more frame, or one too many.
WaitFrame ==
    \/ TimedOut /\ Fails("wait_frame")
    \/ ~frame /\ Test("wait_frame", "wait_ready")
    \/ /\ frame /\ ~TimedOut /\ Step("wait_frame", "wait_ready")
       /\ rem' = rem - 1 /\ frame' = FALSE
       /\ UNCHANGED <<usbVars, banks, got, caller>>

Wait == WaitReady \/ WaitState \/ WaitStalled \/ WaitFrame

-----------------------------------------------------------------------------
(* CDC_Device_SendByte.                                                    *)

\* Mutant of Room: RWAL taken for TXINI.
RoomReadyOnly == inReady
Room == inReady /\ inBytes < Bank

\* With another endpoint selected the byte goes there.
PutWrite ==
    /\ Go("put_write", "work")
    /\ \/ selected = "in" /\ inBytes' = inBytes + 1 /\ UNCHANGED lost
       \/ selected # "in" /\ lost' = calm /\ UNCHANGED inBytes
    /\ UNCHANGED <<usbVars, inReady, outBytes, outReady, got, waitVars, stray>>

Put ==
    \/ Checks("put", "put_baud", "put_select", "work")
    \/ Select("put_select", "in", "put_room")
    \/ Branch("put_room", Flag("in", Room), "put_write", "put_clear")
    \/ ClearIN("put_clear", "put_wait")
    \/ StartWait("put_wait", "put")
    \/ PutWrite

-----------------------------------------------------------------------------
(* CDC_Device_getchar_Blocking with CDC_Device_ReceiveByte and, without a  *)
(* byte, CDC_Device_USBTask.                                               *)

\* An empty bank, and another endpoint, give anything.
GetByte ==
    /\ Step("get_byte", "get_more")
    /\ got' = TRUE
    /\ outBytes' = IF selected = "out" /\ outBytes > 0 THEN outBytes - 1 ELSE outBytes
    /\ UNCHANGED <<usbVars, inBytes, inReady, outReady, waitVars>>

Received(from) ==
    /\ Step(from, IF got THEN "work" ELSE "get_none") /\ got' = FALSE
    /\ UNCHANGED <<usbVars, inBytes, inReady, waitVars>>

\* Mutant of MoreBytes: the rest of a packet is not looked for.
MoreBytesNever == {FALSE}
MoreBytes == Flag("out", outBytes > 0)

\* The bank goes back to the host with its last byte.
GetMore ==
    \/ TRUE \in MoreBytes /\ Received("get_more") /\ UNCHANGED <<outBytes, outReady>>
    \/ FALSE \in MoreBytes /\ Test("get_more", "get_clear")
ClearOUT ==
    /\ Received("get_clear")
    /\ IF selected = "out" THEN outBytes' = 0 /\ outReady' = FALSE ELSE UNCHANGED <<outBytes, outReady>>

\* An end of file, which read_data stores like a byte.
EndOfFile == deviceState = "unattached"

Get ==
    \/ Checks("get", "get_baud", "get_select", "get_none")
    \/ Select("get_select", "out", "get_received")
    \/ Branch("get_received", Flag("out", outReady), "get_bytes", "get_none")
    \/ Branch("get_bytes", Flag("out", outBytes > 0), "get_byte", "get_more")
    \/ GetByte \/ GetMore \/ ClearOUT
    \/ IF EndOfFile THEN Test("get_none", "work") ELSE Test("get_none", "task")

-----------------------------------------------------------------------------
(* CDC_Device_Flush.                                                       *)

\* Mutant of FlushDue: only a full bank is flushed.
FlushDueFullOnly == Flag("in", inBytes = Bank)
FlushDue == Flag("in", inBytes > 0)

\* A bank in the hands of the host counts as a full one; after a full one an
\* empty packet ends the transfer.
Flush ==
    \/ Checks("task", "task_baud", "flush", "get")
    \/ Checks("flush", "flush_baud", "flush_select", "get")
    \/ Select("flush_select", "in", "flush_bytes")
    \/ Branch("flush_bytes", FlushDue, "flush_room", "get")
    \/ Branch("flush_room", Flag("in", Room), "flush_clear", "flush_full")
    \/ ClearIN("flush_clear", "get")
    \/ ClearIN("flush_full", "flush_wait")
    \/ StartWait("flush_wait", "flush")
    \/ ClearIN("flush_last", "get")

\* A handler writes or reads as it needs.
Main == Test("work", "put") \/ Put \/ Test("work", "get") \/ Get \/ Flush \/ Wait

-----------------------------------------------------------------------------
(* The host: its driver polls the IN endpoint while a program has the port *)
(* open, and leaves what is in the bank there when it is closed.           *)

Enumerated == host = "configured" /\ ~idle
Pending == port = "open" /\ Enumerated /\ ~inReady

Open ==
    /\ port = "closed" /\ host = "configured"
    /\ port' = "open" /\ lost' = FALSE /\ UNCHANGED age
    /\ calm' = (/\ Enumerated /\ deviceState = "configured" /\ baud /\ MainRuns /\ pc = "get"
                /\ inBytes = 0 /\ inReady /\ ~outReady)
    /\ UNCHANGED <<usbVars, pc, banks, got, waitVars, stray>>

Close ==
    /\ port = "open"
    /\ port' = "closed" /\ calm' = FALSE /\ lost' = FALSE /\ age' = 0
    /\ UNCHANGED <<usbVars, pc, banks, got, waitVars, stray>>

Fetch ==
    /\ Pending
    /\ inBytes' = 0 /\ inReady' = TRUE /\ age' = 0
    /\ UNCHANGED <<usbVars, pc, outBytes, outReady, got, waitVars, port, calm, lost, stray>>

\* A packet may be empty.
Send ==
    /\ port = "open" /\ Enumerated /\ ~outReady
    /\ outBytes' \in 0..Packet /\ outReady' = TRUE
    /\ UNCHANGED <<usbVars, pc, inBytes, inReady, got, waitVars, hostVars, lost, stray>>

\* The host sends a start of frame each millisecond; it lets at most HostDelay of
\* them pass before it fetches a bank its program waits for.
Frame ==
    /\ host # "off" /\ ~idle /\ request # "hung"
    /\ Pending => age < HostDelay
    /\ frame' = (frame \/ pc \in Waits)
    /\ age' = IF Pending THEN age + 1 ELSE age
    /\ UNCHANGED <<usbVars, pc, banks, got, caller, rem, port, calm, lost, stray>>

-----------------------------------------------------------------------------
(* What the interrupts do to the endpoints.                                *)

\* A disabled endpoint is never ready; the handler of a bus reset enables again
\* every endpoint whose memory the reset has left allocated.
BanksReset(ready) == inBytes' = 0 /\ inReady' = ready /\ outBytes' = 0 /\ outReady' = FALSE

\* What ends the calm: VBUS comes or goes, suspend, wake-up, a bus reset, an
\* address, and SET_CONFIGURATION, which empties the banks and clears the baud
\* rate (CDC_Device_ConfigureEndpoints), so that bytes in them are lost.
Unsettling ==
    \/ (VbusOn \/ VbusOff \/ Suspend \/ WakeUp \/ SetAddress) /\ UNCHANGED <<banks, age, stray>>
    \/ (\E n \in 0..1 : SetConfiguration(n)) /\ UNCHANGED <<banks, age, stray>>
    \/ /\ BusReset /\ (\E ready \in BOOLEAN : BanksReset(ready)) /\ age' = 0
       /\ stray' = (stray \/ MainRuns)

\* What the interrupts do on a board that hangs is not followed.
Interrupt ==
    /\ request # "hung"
    /\ \/ SetLineEncoding /\ UNCHANGED <<banks, age, calm, lost, stray>>
       \/ Unsettling /\ calm' = FALSE /\ lost' = FALSE
    /\ UNCHANGED <<pc, got, waitVars, port>>

\* The handler of a request returns to the program.
Served ==
    /\ \/ Answered /\ UNCHANGED <<banks, age, calm, lost>>
       \/ Configured /\ BanksReset(TRUE) /\ age' = 0 /\ calm' = FALSE /\ lost' = FALSE
    /\ UNCHANGED <<pc, got, waitVars, port, stray>>

\* A board that hangs is switched off and on.
PowerCycle ==
    /\ request = "hung"
    /\ host' = "off" /\ idle' = FALSE
    /\ deviceState' = "unattached" /\ configurationNumber' = 0
    /\ addressed' = FALSE /\ waking' = FALSE
    /\ request' = "none" /\ selected' = "control" /\ saved' = "control"
    /\ baud' = FALSE
    /\ pc' = "work" /\ BanksReset(FALSE) /\ got' = FALSE
    /\ EndWait
    /\ port' = "closed" /\ age' = 0 /\ calm' = FALSE /\ lost' = FALSE /\ stray' = FALSE

Next == Main \/ Open \/ Close \/ Fetch \/ Send \/ Frame \/ Interrupt \/ Served \/ PowerCycle

\* A program that is interrupted again and again still runs an instruction
\* between two interrupts; a request that is served is answered; the host
\* sends frames and fetches what its program waits for.
Spec ==
    /\ Init /\ [][Next]_vars
    /\ SF_vars(Main)
    /\ WF_vars(Served)
    /\ SF_vars(Frame \/ Fetch)

-----------------------------------------------------------------------------
(* Properties                                                              *)

\* The variables keep their types; a bank never holds more than its size, and
\* no frame is counted outside of a wait.
TypeOK ==
    /\ UsbTypeOK
    /\ pc \in {"work"} \union Puts \union Gets \union Flushes \union Waits
    /\ inBytes \in 0..Bank /\ inReady \in BOOLEAN /\ outBytes \in 0..Bank /\ outReady \in BOOLEAN
    /\ got \in BOOLEAN /\ caller \in {"put", "flush"}
    /\ rem \in 0..StreamTimeout /\ frame \in BOOLEAN
    /\ pc \notin Waits => rem = 0 /\ ~frame
    /\ port \in {"open", "closed"} /\ age \in 0..HostDelay
    /\ calm \in BOOLEAN /\ lost \in BOOLEAN /\ stray \in BOOLEAN

\* A program that keeps the port open and leaves no bank for as many frames as
\* the timeout has loses no byte of the firmware: neither to the order of the
\* tests in WaitUntilReady (a bank fetched after the last look at INReady is
\* taken for a timeout at the next frame), nor to control requests between two
\* steps of putchar and of the flush.  Nothing is said once the device was
\* unsettled (Unsettling): SET_CONFIGURATION, for one, drops what is in a bank.
NoByteLost == ~lost

\* Every access finds the endpoint selected that its function selected:
\* a request in between, SET_CONFIGURATION with all the endpoints it selects
\* included, gives it back (USBInterrupt_AVR8.c:259-273), and so does every other
\* interrupt.  The one exception is a bus reset that interrupts the program
\* itself, which selects the control endpoint and leaves it so.
UsesIn == {"put_room", "put_clear", "put_wait", "put_write", "flush_bytes", "flush_room",
    "flush_clear", "flush_full", "flush_wait", "flush_last"} \union Waits
UsesOut == {"get_received", "get_bytes", "get_byte", "get_more", "get_clear"}
EndpointHeld ==
    MainRuns /\ ~stray =>
        /\ pc \in UsesIn => selected = "in"
        /\ pc \in UsesOut => selected = "out"

\* Each byte getchar takes for its caller comes from the OUT bank, each of the
\* bank is taken once, and none is dropped with its bank, as long as the device
\* is not unsettled.  What an end of file brings is not in question here.
ReadsWhatWasSent ==
    [][calm /\ calm' /\ (outBytes' < outBytes \/ (got' /\ ~got)) =>
         outBytes' = outBytes - 1 /\ got' /\ ~got]_vars

\* With the bus silent no frame comes, and a handler or WaitUntilReady waits as
\* long as the device state shows neither: a request that was being served when
\* the bus fell silent has overwritten it (UsbDevice!Configured).
Silent ==
    /\ idle \/ host = "off"
    /\ request = "line_encoding" \/ deviceState \notin {"unattached", "suspended"}

\* putchar ends though nobody fetches: after 100 frames, or as soon as the
\* device is detached or suspended; but not on a silent bus whose state a race
\* has overwritten.
Putting == pc \in Puts \/ (pc \in Waits /\ caller = "put")
PutsEnd == Putting ~> ~Putting \/ request = "hung" \/ Silent

\* An answer reaches the program that waits for it: before the firmware waits
\* for another byte it flushes the bank.
AnswersArrive == calm /\ pc = "get_none" /\ inBytes > 0 ~> inBytes = 0 \/ ~calm
=============================================================================
