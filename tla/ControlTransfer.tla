-------------------------- MODULE ControlTransfer ---------------------------
(***************************************************************************)
(* The control endpoint: one request of the host after the other, with its *)
(* data and status stages, and the handler that serves them in the         *)
(* interrupt USB_COM_vect (DeviceStandardReq.c, CDCClassDevice.c,          *)
(* Template_Endpoint_Control_W.c, Endpoint_AVR8.c).  UsbDevice takes a     *)
(* request as two steps; here each wait of the handler is a step, the host *)
(* may give a request up, and the bus may be suspended or cut off.         *)
(*                                                                         *)
(* A packet of the bus lasts longer than the instructions between two      *)
(* waits of the handler (Settled); the interrupt of the bus comes between  *)
(* any two steps, except while SET_ADDRESS has interrupts disabled.        *)
(***************************************************************************)
EXTENDS Naturals, Functions

CONSTANTS
    Packet,   \* FIXED_CONTROL_ENDPOINT_SIZE
    Lengths   \* the wLength values of a host that asks for a descriptor

ASSUME PacketAssumption == Packet \in Nat /\ Packet >= 7

\* Without a data stage the status stage is the host's to read, for a request
\* of either direction: no host asks for a descriptor of length 0.
ASSUME LengthAssumption == Lengths \subseteq Nat \ {0}

\* CALLBACK_USB_GetDescriptor and the internal serial number; 0 is NO_DESCRIPTOR.
DescriptorSize ==
    [device |-> 18, configuration |-> 62, language |-> 4, manufacturer |-> 24,
     product |-> 28, serial |-> 42, other |-> 0]

Request ==
    [kind : {"descriptor"}, size : Range(DescriptorSize), length : Lengths]
    \union {[kind |-> "answer", size |-> n, length |-> n] : n \in {1, 2, 7}}
    \union [kind : {"address", "configuration", "set", "unknown"}, size : {0}, length : {0}]
    \union {[kind |-> "line_encoding", size |-> 0, length |-> 7]}

None == [kind |-> "none", size |-> 0, length |-> 0]

VARIABLES
    bus,                  \* "attached", "suspended" or "unattached"
    phase,                \* the stage the host is in: "idle", "data" or "status"
    asked,                \* its request
    got,                  \* the bytes of the answer it has
    gaveUp,               \* it gave up a request that is still being served
    setup, out,           \* RXSTPI, RXOUTI
    inReady, inBytes,     \* TXINI and what is in the bank
    stall,                \* STALLRQ
    deviceState,          \* USB_DeviceState, as far as the waits look at it
    pending,              \* the interrupt of the bus is due
    pc,                   \* the wait of the handler, or "main"
    req,                  \* USB_ControlRequest
    left, full            \* Length and LastPacketFull of the stream

hostVars == <<bus, phase, asked, got, gaveUp>>
endpoint == <<setup, out, inReady, inBytes, stall>>
served == <<req, left, full>>
vars == <<hostVars, endpoint, deviceState, pending, pc, served>>

Init ==
    /\ bus = "unattached" /\ phase = "idle" /\ asked = None /\ got = 0 /\ gaveUp = FALSE
    /\ setup = FALSE /\ out = FALSE /\ inReady = TRUE /\ inBytes = 0 /\ stall = FALSE
    /\ deviceState = "unattached" /\ pending = FALSE
    /\ pc = "main" /\ req = None /\ left = 0 /\ full = FALSE

-----------------------------------------------------------------------------
(* The handler.                                                            *)

Lesser(m, n) == IF m < n THEN m ELSE n

Go(from, to) == pc = from /\ pc' = to /\ UNCHANGED <<hostVars, pending>>
Wait(from, to) == Go(from, to) /\ UNCHANGED <<deviceState, served>>

\* Endpoint_ClearSETUP frees the bank of the endpoint; ClearIN hands it over.
\* Mutant of ClearSETUP: forgotten.
ClearSETUPForgotten == UNCHANGED <<setup, inReady, inBytes>>
ClearSETUP == setup' = FALSE /\ inReady' = TRUE /\ inBytes' = 0
ClearIN(n) == inReady' = FALSE /\ inBytes' = n /\ UNCHANGED <<setup, out, stall>>
ClearOUT == out' = FALSE /\ UNCHANGED <<setup, inReady, inBytes, stall>>

Supported(r) == r.kind # "unknown" /\ (r.kind = "descriptor" => r.size # 0)

\* Mutant of AnswerLength: wLength is not looked at.
AnswerLengthWhole(r) == r.size
AnswerLength(r) == Lesser(r.size, r.length)

\* USB_COM_vect reads the request and its handler acknowledges it.
Dispatch ==
    /\ setup /\ req' = asked
    /\ IF Supported(asked)
       THEN /\ ClearSETUP /\ UNCHANGED <<out, stall>>
            /\ Go("main", CASE asked.kind = "descriptor" -> "stream"
                            [] asked.kind = "answer" -> "answer"
                            [] asked.kind = "line_encoding" -> "data_out"
                            [] OTHER -> "status_in")
       ELSE UNCHANGED endpoint /\ Go("main", "tail")
    /\ left' = AnswerLength(asked) /\ full' = FALSE
    /\ UNCHANGED <<deviceState>>

\* The loop of Endpoint_Write_Control_PStream_LE; full asks for an empty packet.
More == left > 0 \/ full
Aborted == deviceState # "attached" \/ setup

Stream ==
    /\ \/ More /\ Aborted /\ Wait("stream", "stream_end")
       \/ More /\ ~Aborted /\ ~out /\ Wait("stream", "fill")
       \/ (More => (~Aborted /\ out)) /\ Wait("stream", "stream_status")
    /\ UNCHANGED endpoint

\* Mutant of Fits: one byte too many.
FitsOneMore == Lesser(left, Packet + 1)
Fits == Lesser(left, Packet)

\* Mutant of Filled: no empty packet after an answer of full packets.
FilledShort(n) == full' = FALSE
Filled(n) == full' = (n = Packet)

Fill ==
    /\ Go("fill", "stream") /\ UNCHANGED <<deviceState, req>>
    /\ IF inReady THEN ClearIN(Fits) /\ left' = left - Fits /\ Filled(Fits)
       ELSE UNCHANGED <<endpoint, left, full>>

\* Its second loop looks at the device state and not for a new request.
\* Mutant of StatusWaitOver: it looks for the status stage only.
StatusWaitOverOutOnly == out
StatusWaitOver == out \/ deviceState # "attached"

StreamStatus ==
    /\ StatusWaitOver
    /\ Wait("stream_status", "stream_end") /\ UNCHANGED endpoint

StreamEnd == Wait("stream_end", "tail") /\ ClearOUT

\* GET_LINE_ENCODING, the answer of 7 bytes, waits for the bank it writes to;
\* GetStatus and GetConfiguration do not.
AnswerReady == req.size = 7 => inReady
Answer == AnswerReady /\ Wait("answer", "status_out") /\ ClearIN(req.size)

\* Endpoint_ClearStatusStage, for a request that reads and for one that writes.
StatusOut ==
    /\ out \/ deviceState = "unattached"
    /\ Wait("status_out", "tail")
    /\ IF out THEN ClearOUT ELSE UNCHANGED endpoint

StatusIn ==
    /\ inReady \/ deviceState = "unattached"
    /\ IF inReady THEN ClearIN(0) ELSE UNCHANGED endpoint
    /\ Go("status_in", IF req.kind = "address" THEN "address_wait" ELSE "tail")
    /\ deviceState' = IF req.kind = "configuration" THEN "attached" ELSE deviceState
    /\ UNCHANGED served

\* SET_LINE_ENCODING waits for its data and looks at nothing else.
DataOut == out /\ Wait("data_out", "status_in") /\ ClearOUT

\* USB_Device_SetAddress, with interrupts disabled; the address itself is
\* left out, the host follows it.
AddressWait ==
    /\ inReady
    /\ Go("address_wait", "tail")
    /\ deviceState' = "attached"
    /\ UNCHANGED <<endpoint, served>>

\* A request that is still there is refused: one nobody serves, or the one that
\* ended the request before it.  After SET_CONFIGURATION the test looks at a
\* data endpoint.
Tail ==
    /\ pc = "tail" /\ pc' = "main" /\ gaveUp' = FALSE
    /\ IF setup /\ req.kind # "configuration"
       THEN ClearSETUP /\ stall' = TRUE /\ UNCHANGED out
       ELSE UNCHANGED endpoint
    /\ req' = None /\ left' = 0 /\ full' = FALSE
    /\ UNCHANGED <<bus, phase, asked, got, pending, deviceState>>

Handler ==
    \/ Dispatch \/ Stream \/ Fill \/ StreamStatus \/ StreamEnd
    \/ Answer \/ StatusOut \/ StatusIn \/ DataOut \/ AddressWait \/ Tail

\* USB_GEN_vect.
Masked == pc = "address_wait" \/ (pc = "status_in" /\ req.kind = "address")

BusInterrupt ==
    /\ pending /\ ~Masked
    /\ pending' = FALSE /\ deviceState' = bus
    /\ UNCHANGED <<hostVars, endpoint, pc, served>>

-----------------------------------------------------------------------------
(* The host.                                                               *)

Reads(r) == r.kind \in {"descriptor", "answer"}

\* The handler is done, or waits for something the host has not done.
Settled ==
    \/ pc = "main"
    \/ pc \in {"stream", "fill", "stream_status", "status_out", "data_out"} /\ ~out
    \/ pc = "address_wait" /\ ~inReady

\* A SETUP packet is always taken.  It lifts a stall, and what it does to a
\* packet in the bank is the controller's.
Setup(r) ==
    /\ bus = "attached" /\ ~pending /\ phase = "idle" /\ Settled
    /\ asked' = r /\ got' = 0 /\ phase' = IF r.length = 0 THEN "status" ELSE "data"
    /\ setup' = TRUE /\ stall' = FALSE
    /\ UNCHANGED <<inReady, inBytes>> \/ (inReady' = TRUE /\ inBytes' = 0)
    /\ UNCHANGED <<bus, gaveUp, out, deviceState, pending, pc, served>>

\* Nothing else is taken before the SETUP packet is acknowledged.
Exchange(stage) ==
    /\ bus = "attached" /\ phase = stage /\ ~setup /\ ~stall
    /\ UNCHANGED <<bus, gaveUp, setup, stall, deviceState, pending, pc, served>>

\* A short packet, or the last byte it asked for, ends the data stage.
Fetch ==
    /\ Exchange("data") /\ Reads(asked) /\ ~inReady
    /\ inReady' = TRUE /\ inBytes' = 0 /\ got' = got + inBytes
    /\ phase' = IF inBytes < Packet \/ got' >= asked.length THEN "status" ELSE "data"
    /\ UNCHANGED <<asked, out>>

SendData ==
    /\ Exchange("data") /\ ~Reads(asked) /\ ~out
    /\ out' = TRUE /\ phase' = "status"
    /\ UNCHANGED <<asked, got, inReady, inBytes>>

Status ==
    /\ Exchange("status")
    /\ IF Reads(asked) THEN ~out /\ out' = TRUE /\ UNCHANGED inReady
       ELSE ~inReady /\ inReady' = TRUE /\ UNCHANGED out
    /\ UNCHANGED inBytes /\ phase' = "idle" /\ asked' = None /\ got' = 0

\* A host that has read enough goes to the status stage.
Stop ==
    /\ Exchange("data") /\ Reads(asked)
    /\ phase' = "status" /\ UNCHANGED <<asked, got, out, inReady, inBytes>>

Refused ==
    /\ bus = "attached" /\ phase # "idle" /\ stall /\ ~setup
    /\ phase' = "idle" /\ asked' = None /\ got' = 0
    /\ UNCHANGED <<bus, gaveUp, endpoint, deviceState, pending, pc, served>>

\* The request of the host, if there is one, comes to nothing; its timeout is
\* longer than the board takes to begin with it.
Leave ==
    /\ pc = "main" => ~setup
    /\ phase' = "idle" /\ asked' = None /\ got' = 0
    /\ gaveUp' = (gaveUp \/ (pc # "main" /\ phase # "idle"))
    /\ UNCHANGED <<endpoint, deviceState, pc, served>>

GiveUp == phase # "idle" /\ Leave /\ UNCHANGED <<bus, pending>>
Detach == bus # "unattached" /\ bus' = "unattached" /\ Leave /\ pending' = TRUE
Suspend == bus = "attached" /\ bus' = "suspended" /\ Leave /\ pending' = TRUE
Resume == bus = "suspended" /\ bus' = "attached" /\ Leave /\ pending' = TRUE

EndpointReset ==
    /\ setup' = FALSE /\ out' = FALSE /\ inReady' = TRUE /\ inBytes' = 0
    /\ stall' = FALSE

\* A host that finds a device resets it.
Attach ==
    /\ bus = "unattached" /\ pc = "main" /\ ~pending
    /\ bus' = "attached" /\ deviceState' = "attached" /\ EndpointReset
    /\ UNCHANGED <<phase, asked, got, gaveUp, pending, pc, served>>

\* The handler waits for something that only another request could bring, or
\* that nothing brings any more.
Stuck ==
    /\ ~out /\ (phase = "idle" \/ setup)
    /\ \/ pc \in {"stream", "fill"} /\ bus = "attached" /\ ~setup /\ ~inReady
       \/ pc = "stream_status" /\ bus = "attached"
       \/ pc = "status_out" /\ bus # "unattached"
       \/ pc = "data_out"
       \/ pc = "address_wait" /\ ~inReady

\* A board that hangs is switched off and on.
PowerCycle ==
    /\ Stuck
    /\ bus' = "unattached" /\ deviceState' = "unattached" /\ pending' = FALSE
    /\ phase' = "idle" /\ asked' = None /\ got' = 0 /\ gaveUp' = FALSE
    /\ EndpointReset
    /\ pc' = "main" /\ req' = None /\ left' = 0 /\ full' = FALSE

Next ==
    \/ Handler \/ BusInterrupt
    \/ \E r \in Request : Setup(r)
    \/ Fetch \/ SendData \/ Status \/ Stop \/ Refused
    \/ GiveUp \/ Detach \/ Suspend \/ Resume \/ Attach \/ PowerCycle

\* The interrupts are served, and a host goes on with a request it does not
\* give up.
Spec ==
    /\ Init /\ [][Next]_vars
    /\ WF_vars(Handler) /\ WF_vars(BusInterrupt)
    /\ WF_vars(Fetch \/ SendData \/ Status \/ Refused)

-----------------------------------------------------------------------------
(* Properties                                                              *)

\* The variables keep their types, and only a host that is there has a request.
\* The bank holds no more than a packet; the answer fits the wLength of its
\* request: what is left of it, and what the host has of it with what lies in
\* the bank.
TypeOK ==
    /\ bus \in {"attached", "suspended", "unattached"} /\ deviceState \in {"attached", "suspended", "unattached"}
    /\ phase \in {"idle", "data", "status"}
    /\ asked \in Request \union {None} /\ req \in Request \union {None}
    /\ phase = "idle" <=> asked = None
    /\ phase # "idle" => bus = "attached"
    /\ pc \in {"main", "stream", "fill", "stream_status", "stream_end", "answer",
               "status_out", "status_in", "data_out", "address_wait", "tail"}
    /\ inBytes \in 0..Packet /\ left \in 0..AnswerLength(req)
    /\ phase = "data" /\ Reads(asked) /\ ~setup /\ ~stall => got + inBytes <= asked.length
    /\ {gaveUp, setup, out, inReady, stall, pending, full} \subseteq BOOLEAN

\* A host that reads an answer to its end has exactly as much of the descriptor
\* as it asked for and there is, also where the size is a multiple of a packet.
AnswerComplete ==
    [][Fetch => /\ got' <= Lesser(asked.size, asked.length)
                /\ phase' = "status" => got' = Lesser(asked.size, asked.length)]_vars

\* A request the board supports is refused only if it follows one that the host
\* gave up while the board served it: the handler that is interrupted by it
\* does not serve it.
RefusedOnlyAfterGivenUp ==
    [][stall' /\ ~stall => ~Supported(req) \/ gaveUp]_vars

\* Every request that the host follows comes to its end.
RequestsEnd == phase # "idle" ~> phase = "idle" \/ Stuck

\* The handler returns to the main program, except from a wait that does not
\* look for what happened: a request given up in its data stage, until the next
\* one; a new request in the status stage; a suspended bus in
\* Endpoint_ClearStatusStage; anything in SET_LINE_ENCODING; a detached cable
\* in SET_ADDRESS.
HandlerReturns == pc # "main" ~> pc = "main" \/ Stuck
=============================================================================
