----------------------------- MODULE UsbDevice ------------------------------
(***************************************************************************)
(* The board as a USB device: the device state of LUFA, its two interrupt  *)
(* handlers and the control requests (AVR8/USBInterrupt_AVR8.c,            *)
(* DeviceStandardReq.c, CDCClassDevice.c).  An interrupt of the bus        *)
(* (USB_GEN_vect) is one step and may come at any moment; a control        *)
(* request (USB_COM_vect) takes two, with interrupts enabled in between    *)
(* and the interrupted program stopped.  Module CdcStream adds the program *)
(* and the endpoints.                                                      *)
(***************************************************************************)
EXTENDS Naturals

VARIABLES
    host,                 \* how far the host has come with the device
    idle,                 \* whether the host has suspended the bus
    deviceState,          \* USB_DeviceState
    configurationNumber,  \* USB_Device_ConfigurationNumber
    addressed,            \* ADDEN in UDADDR
    waking,               \* WAKEUPI is enabled; if not, SUSPI is
    request,              \* the control request being served, or "hung" on one
    selected,             \* UENUM
    saved,                \* PrevSelectedEndpoint of USB_COM_vect
    baud                  \* whether LineEncoding.BaudRateBPS is set

usbOthers == <<host, idle, deviceState, configurationNumber, addressed, waking,
               request, saved, baud>>
usbVars == <<selected, usbOthers>>

Stage == {"off", "attached", "reset", "addressed", "configured"}
DeviceState == {"unattached", "powered", "default", "addressed", "configured", "suspended"}
Endpoint == {"control", "in", "out"}
Request == {"none", "configure", "line_encoding", "hung"}

\* serial_init, before the interrupts are enabled.
UsbInit ==
    /\ host = "off" /\ idle = FALSE
    /\ deviceState = "unattached" /\ configurationNumber = 0
    /\ addressed = FALSE /\ waking = FALSE
    /\ request = "none" /\ selected = "control" /\ saved = "control"
    /\ baud = FALSE

-----------------------------------------------------------------------------
(* USB_GEN_vect.                                                           *)

\* A handler that waits for the data of a request waits for ever if the host
\* gives the request up: the loop looks at nothing else.
GivenUp == request' = IF request = "line_encoding" THEN "hung" ELSE request

VbusOn ==
    /\ host = "off"
    /\ host' = "attached" /\ deviceState' = "powered"
    /\ UNCHANGED <<idle, configurationNumber, addressed, waking, request, selected, saved, baud>>

\* The supply of the port goes while the board keeps its own.
VbusOff ==
    /\ host # "off"
    /\ host' = "off" /\ deviceState' = "unattached" /\ idle' = FALSE
    /\ GivenUp
    /\ UNCHANGED <<configurationNumber, addressed, waking, selected, saved, baud>>

Suspend ==
    /\ host # "off" /\ ~idle /\ ~waking
    /\ idle' = TRUE /\ deviceState' = "suspended" /\ waking' = TRUE
    /\ UNCHANGED <<host, configurationNumber, addressed, request, selected, saved, baud>>

\* The state of a device with this configuration number, as SetConfiguration
\* and the wake-up interrupt take it.
StateFor(number) ==
    IF number # 0 \/ addressed THEN "configured" ELSE "powered"

WakeUp ==
    /\ host # "off" /\ waking
    /\ idle' = FALSE /\ waking' = FALSE
    /\ deviceState' = StateFor(configurationNumber)
    /\ UNCHANGED <<host, configurationNumber, addressed, request, selected, saved, baud>>

\* The control endpoint is configured again and stays selected.
BusReset ==
    /\ host # "off"
    /\ host' = "reset" /\ idle' = FALSE
    /\ deviceState' = "default" /\ configurationNumber' = 0 /\ addressed' = FALSE
    /\ waking' = TRUE
    /\ selected' = "control"
    /\ GivenUp
    /\ UNCHANGED <<saved, baud>>

-----------------------------------------------------------------------------
(* USB_COM_vect and USB_Device_ProcessControlRequest.                      *)

\* SetAddress waits for its status stage with interrupts disabled.
SetAddress ==
    /\ host = "reset" /\ ~idle /\ request = "none"
    /\ host' = "addressed" /\ addressed' = TRUE /\ deviceState' = "addressed"
    /\ UNCHANGED <<idle, configurationNumber, waking, request, selected, saved, baud>>

Setup(r) ==
    /\ ~idle /\ request = "none"
    /\ request' = r
    /\ saved' = selected /\ selected' = "control"
    /\ UNCHANGED <<host, idle, deviceState, addressed, waking, baud>>

\* The number changes before the status stage, the state after it.
SetConfiguration(number) ==
    /\ host \in {"addressed", "configured"}
    /\ Setup("configure")
    /\ configurationNumber' = number

\* The other requests do less here, they only take time; module ControlTransfer
\* has the waits of all of them.
SetLineEncoding ==
    /\ host = "configured"
    /\ Setup("line_encoding")
    /\ UNCHANGED configurationNumber

\* Mutant of Return: the selection of the interrupted program is not restored.
ReturnUnrestored == request' = "none" /\ saved' = "control" /\ UNCHANGED selected
Return == request' = "none" /\ selected' = saved /\ saved' = "control"

\* CDC_Device_ConfigureEndpoints clears the line encoding.
Configured ==
    /\ request = "configure"
    /\ deviceState' = StateFor(configurationNumber)
    /\ host' = IF host \in {"off", "attached", "reset"} THEN host
               ELSE IF configurationNumber = 0 THEN "addressed" ELSE "configured"
    /\ baud' = FALSE
    /\ Return
    /\ UNCHANGED <<idle, configurationNumber, addressed, waking>>

Answered ==
    /\ request = "line_encoding" /\ ~idle
    /\ baud' = TRUE
    /\ Return
    /\ UNCHANGED <<host, idle, deviceState, configurationNumber, addressed, waking>>

\* The interrupted program goes on.
MainRuns == request = "none"

UsbTypeOK ==
    /\ host \in Stage /\ idle \in BOOLEAN
    /\ deviceState \in DeviceState /\ configurationNumber \in 0..1
    /\ addressed \in BOOLEAN /\ waking \in BOOLEAN
    /\ request \in Request
    /\ selected \in Endpoint /\ saved \in Endpoint
    /\ baud \in BOOLEAN
=============================================================================
