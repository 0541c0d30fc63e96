----------------------- MODULE ControlTransfer_proofs -----------------------
(***************************************************************************)
(* Proofs about module ControlTransfer, for every packet size, every       *)
(* length a host asks for, and a host that gives requests up, suspends the *)
(* bus and pulls the cable between any two steps of the handler.           *)
(***************************************************************************)
EXTENDS ControlTransfer, TLAPS

-----------------------------------------------------------------------------
(* The inductive invariant.                                                *)

StreamWaits == {"stream", "fill", "stream_status"}
ReadWaits == StreamWaits \union {"answer", "status_out"}

\* Which request is served where.
KindServed ==
    /\ pc \in StreamWaits \union {"stream_end"} => req.kind = "descriptor"
    /\ pc \in {"answer", "status_out"} => req.kind = "answer"
    /\ pc = "data_out" => req.kind = "line_encoding"
    /\ pc = "address_wait" => req.kind = "address"

\* A host that follows a request is attached, and the device knows.
HostAttached ==
    /\ phase # "idle" => bus = "attached" /\ ~pending
    /\ bus = "attached" /\ ~pending => deviceState = "attached"

\* A SETUP packet is there until the handler takes it or refuses it, and
\* the host gets nothing before; it lifts a stall.
SetupFirst ==
    /\ setup => ~stall /\ got = 0
    /\ stall => pc = "main"
    /\ setup /\ pc = "main" => phase # "idle"
    /\ setup /\ pc # "main" => req.kind # "configuration" /\ (gaveUp \/ ~Supported(req))

\* A request that was given up is followed by another one only with a SETUP
\* packet that waits.
GivenUp ==
    gaveUp => pc # "main" /\ (phase # "idle" => setup)

\* The handler serves the request that the host follows, and the host that has
\* done its part of one has left something for the handler to see.
InStep ==
    pc # "main" /\ ~gaveUp =>
        /\ phase # "idle" => req = asked
        /\ phase = "idle" =>
              /\ pc \in ReadWaits => out
              /\ pc = "address_wait" => inReady
        /\ pc \in {"data_out", "status_in"} => phase # "idle" /\ inReady

\* While the host reads, the handler is in one of its waits, the status stage
\* is still to come, and so for the data of SET_LINE_ENCODING.
Waiting ==
    /\ phase # "idle" /\ Reads(asked) /\ ~setup /\ ~stall => pc \in ReadWaits /\ ~out
    /\ phase = "data" /\ ~Reads(asked) /\ ~setup /\ ~stall => pc = "data_out" /\ ~out
    /\ out => pc \in ReadWaits \union {"stream_end", "data_out"}

\* Only a request with a data stage has one.
Staged == got \in Nat /\ (phase = "data" => asked.length # 0)

\* What the host has, what is in the bank and what is left is the answer, and
\* a short packet is its last.
AnswerAdds ==
    phase = "data" /\ Reads(asked) /\ ~setup /\ ~stall =>
        /\ inReady => inBytes = 0
        /\ pc \in StreamWaits \union {"answer"} => got + inBytes + left = AnswerLength(asked)
        /\ pc \in StreamWaits /\ ~inReady /\ inBytes < Packet => left = 0
        /\ pc = "answer" => got = 0 /\ inReady
        /\ pc = "status_out" => got + inBytes = AnswerLength(asked)

IInv ==
    /\ TypeOK
    /\ KindServed /\ HostAttached /\ SetupFirst /\ GivenUp /\ InStep /\ Waiting /\ Staged /\ AnswerAdds

-----------------------------------------------------------------------------
(* Lemmas about requests and truth values.                                 *)

Kind == {"none", "descriptor", "answer", "address", "configuration", "set", "unknown", "line_encoding"}

LEMMA SizeBounds ==
  /\ DescriptorSize.configuration = 62
  /\ \A n \in Range(DescriptorSize) : n \in 0..62
  BY DEF DescriptorSize, Range

\* What all requests have in common, and their absence.
LEMMA RequestShape ==
  ASSUME NEW r \in Request \union {None}
  PROVE  /\ r.kind \in Kind /\ r.size \in 0..62 /\ r.length \in Nat
         /\ r = None <=> r.kind = "none"
         /\ r.kind = "none" => r.length = 0
         /\ r.kind = "answer" => r.size = r.length /\ r.size \in 1..7
         /\ r.kind = "descriptor" => r.length # 0
         /\ ~Reads(r) /\ r.kind # "line_encoding" => r.length = 0
         /\ AnswerLength(r) \in 0..62
         /\ AnswerLength(r) <= r.length
         /\ r.kind = "answer" => AnswerLength(r) = r.size
<1>1. CASE r = None
  <2>1. None.kind = "none" /\ None.size = 0 /\ None.length = 0
    BY DEF None
  <2> QED
    BY <1>1, <2>1 DEF Kind, Reads, AnswerLength, Lesser
<1>2. CASE r \in [kind : {"descriptor"}, size : Range(DescriptorSize), length : Lengths]
  <2>1. r.kind = "descriptor" /\ r.size \in 0..62 /\ r.length \in Nat \ {0}
    BY <1>2, SizeBounds, LengthAssumption
  <2>2. r # None
    BY <2>1 DEF None
  <2> QED
    BY <2>1, <2>2 DEF Kind, Reads, AnswerLength, Lesser
<1>3. CASE r \in {[kind |-> "answer", size |-> n, length |-> n] : n \in {1, 2, 7}}
  BY <1>3 DEF None, Kind, Reads, AnswerLength, Lesser
<1>4. CASE r \in [kind : {"address", "configuration", "set", "unknown"}, size : {0}, length : {0}]
  BY <1>4 DEF None, Kind, Reads, AnswerLength, Lesser
<1>5. CASE r \in {[kind |-> "line_encoding", size |-> 0, length |-> 7]}
  BY <1>5 DEF None, Kind, Reads, AnswerLength, Lesser
<1> QED
  BY <1>1, <1>2, <1>3, <1>4, <1>5 DEF Request

LEMMA NoneIsNoRequest == None \notin Request
<1>1. ASSUME NEW r \in Request PROVE r.kind # "none"
  BY DEF Request
<1> QED
  BY <1>1 DEF None

\* The variables that are truth values.
Flags ==
    /\ gaveUp \in BOOLEAN /\ setup \in BOOLEAN /\ out \in BOOLEAN /\ inReady \in BOOLEAN
    /\ stall \in BOOLEAN /\ pending \in BOOLEAN /\ full \in BOOLEAN

\* TypeOK without the set of them, and what its last part is for the answer.
Types ==
    /\ bus \in {"attached", "suspended", "unattached"} /\ deviceState \in {"attached", "suspended", "unattached"}
    /\ phase \in {"idle", "data", "status"}
    /\ asked \in Request \union {None} /\ req \in Request \union {None}
    /\ phase = "idle" <=> asked = None
    /\ pc \in {"main", "stream", "fill", "stream_status", "stream_end", "answer",
               "status_out", "status_in", "data_out", "address_wait", "tail"}
    /\ inBytes \in 0..Packet /\ left \in 0..AnswerLength(req)

Rest ==
    /\ Types
    /\ KindServed /\ HostAttached /\ SetupFirst /\ GivenUp /\ InStep /\ Waiting /\ Staged /\ AnswerAdds

\* What the host has and what is in the bank are part of the answer.
Fitting == phase = "data" /\ Reads(asked) /\ ~setup /\ ~stall => got + inBytes <= asked.length

LEMMA RestFits == ASSUME Rest PROVE Fitting
<1> SUFFICES ASSUME phase = "data", Reads(asked), ~setup, ~stall
             PROVE  got + inBytes <= asked.length
  BY DEF Fitting
<1>1. /\ AnswerLength(asked) \in Nat /\ AnswerLength(asked) <= asked.length /\ asked.length \in Nat
      /\ AnswerLength(req) \in Nat
  BY RequestShape DEF Rest, Types
<1>2. got \in Nat /\ inBytes \in Nat /\ left \in Nat
  BY <1>1, PacketAssumption DEF Rest, Types, Staged
<1>3. got + inBytes = AnswerLength(asked) \/ got + inBytes + left = AnswerLength(asked)
  BY DEF Rest, Waiting, AnswerAdds, ReadWaits
<1> QED
  BY <1>1, <1>2, <1>3

LEMMA Parts == IInv <=> Flags /\ Rest
<1>1. {gaveUp, setup, out, inReady, stall, pending, full} \subseteq BOOLEAN <=> Flags
  BY Zenon DEF Flags
<1>2. IInv => Flags /\ Rest
  BY <1>1, Zenon DEF IInv, Rest, TypeOK, Types
<1>3. Flags /\ Rest => IInv
  BY <1>1, RestFits, Zenon DEF IInv, Rest, TypeOK, Types, HostAttached, Fitting
<1> QED
  BY <1>2, <1>3

LEMMA PartsNext == (IInv <=> Flags /\ Rest)'
  BY Parts, PTL

LEMMA NextFlags == ASSUME Flags, [Next]_vars PROVE Flags'
<1> USE DEF Flags, Go, Wait, hostVars, endpoint, served
<1>1. CASE Dispatch \/ Stream \/ Fill \/ StreamStatus \/ StreamEnd \/ Answer
  BY <1>1, Zenon DEF Dispatch, Stream, Fill, Filled, StreamStatus, StreamEnd, Answer, ClearSETUP, ClearIN, ClearOUT
<1>2. CASE StatusOut \/ StatusIn \/ DataOut \/ AddressWait \/ Tail \/ BusInterrupt
  BY <1>2, Zenon DEF StatusOut, StatusIn, DataOut, AddressWait, Tail, BusInterrupt, ClearSETUP, ClearIN, ClearOUT
<1>3. ASSUME NEW r \in Request, Setup(r) PROVE Flags'
  BY <1>3, Zenon DEF Setup
<1>4. CASE Fetch \/ SendData \/ Status \/ Stop \/ Refused
  BY <1>4, Zenon DEF Fetch, SendData, Status, Stop, Refused, Exchange
<1>5. CASE GiveUp \/ Detach \/ Suspend \/ Resume \/ Attach \/ PowerCycle
  BY <1>5, Zenon DEF GiveUp, Detach, Suspend, Resume, Attach, PowerCycle, Leave, EndpointReset
<1>6. CASE UNCHANGED vars
  BY <1>6, Zenon DEF vars
<1> QED
  BY <1>1, <1>2, <1>3, <1>4, <1>5, <1>6 DEF Next, Handler

-----------------------------------------------------------------------------
(* Every step keeps it.                                                    *)

LEMMA InitEstablishes == Init => IInv
<1> SUFFICES ASSUME Init PROVE Flags /\ Rest
  BY Parts
<1>1. Flags
  BY Zenon DEF Init, Flags
<1>2. None \in Request \union {None} /\ None.kind = "none" /\ None.length = 0
      /\ AnswerLength(None) = 0
  BY DEF None, AnswerLength, Lesser
<1>3. Rest
  BY <1>2, PacketAssumption
  DEF Init, Rest, Types, KindServed, HostAttached, SetupFirst, GivenUp, InStep, Waiting, Staged, AnswerAdds,
      StreamWaits, ReadWaits, Reads
<1> QED
  BY <1>1, <1>3

\* The streams: GET_DESCRIPTOR.
LEMMA StreamKeeps ==
  ASSUME Flags, Rest, Flags', Stream \/ Fill \/ StreamStatus \/ StreamEnd
  PROVE  Rest'
<1> USE PacketAssumption
    DEF Flags, Rest, Types, KindServed, HostAttached, SetupFirst, GivenUp, InStep, Waiting, Staged, AnswerAdds,
        StreamWaits, ReadWaits, Go, Wait, hostVars, served, endpoint
<1>1. CASE Stream
  BY <1>1 DEF Stream, Aborted
<1>2. CASE Fill
  <2>1. AnswerLength(req) \in 0..62
    BY RequestShape
  <2> QED
    BY <1>2, <2>1 DEF Fill, ClearIN, Fits, Lesser
<1>3. CASE StreamStatus
  BY <1>3 DEF StreamStatus, StatusWaitOver
<1>4. CASE StreamEnd
  BY <1>4 DEF StreamEnd, ClearOUT
<1> QED
  BY <1>1, <1>2, <1>3, <1>4

\* GET_STATUS and its like, the other requests, and the end of each.
LEMMA OthersKeep ==
  ASSUME Flags, Rest, Flags', Answer \/ StatusOut \/ StatusIn \/ DataOut \/ AddressWait
  PROVE  Rest'
<1> USE PacketAssumption, RequestShape
    DEF Flags, Rest, Types, KindServed, HostAttached, SetupFirst, GivenUp, InStep, Waiting, Staged, AnswerAdds,
        StreamWaits, ReadWaits, Go, Wait, hostVars, served, endpoint
<1>1. CASE Answer
  BY <1>1 DEF Answer, ClearIN
<1>2. CASE StatusOut
  BY <1>2 DEF StatusOut, ClearOUT
<1>3. CASE StatusIn
  BY <1>3 DEF StatusIn, ClearIN, Reads
<1>4. CASE DataOut
  BY <1>4 DEF DataOut, ClearOUT, Reads
<1>5. CASE AddressWait
  BY <1>5 DEF AddressWait
<1> QED
  BY <1>1, <1>2, <1>3, <1>4, <1>5

\* The request is read, and refused at the end if it is still there.
LEMMA EndsKeep ==
  ASSUME Flags, Rest, Flags', Dispatch \/ Tail \/ BusInterrupt
  PROVE  Rest'
<1> USE PacketAssumption, RequestShape
    DEF Flags, Rest, Types, KindServed, HostAttached, SetupFirst, GivenUp, InStep, Waiting, Staged, AnswerAdds,
        StreamWaits, ReadWaits, Go, hostVars, served, endpoint
<1>1. CASE Dispatch
  <2>1. /\ setup /\ pc = "main" /\ req' = asked /\ left' = AnswerLength(asked)
        /\ UNCHANGED <<hostVars, pending, deviceState, out, stall>>
    BY ONLY <1>1 DEF Dispatch, ClearSETUP, Go, endpoint
  <2>2. CASE Supported(asked)
    <3>1. /\ ClearSETUP
          /\ asked.kind = "descriptor" => pc' = "stream"
          /\ asked.kind = "answer" => pc' = "answer"
          /\ asked.kind = "line_encoding" => pc' = "data_out"
          /\ asked.kind \notin {"descriptor", "answer", "line_encoding"} => pc' = "status_in"
      BY ONLY <1>1, <2>2 DEF Dispatch, Go
    <3> QED
      BY <2>1, <2>2, <3>1 DEF ClearSETUP, Reads
  <2>3. CASE ~Supported(asked)
    <3>1. pc' = "tail" /\ UNCHANGED endpoint
      BY ONLY <1>1, <2>3 DEF Dispatch, Go
    <3> QED
      BY <2>1, <2>3, <3>1 DEF Supported
  <2> QED
    BY <2>2, <2>3
<1>2. CASE Tail
  BY <1>2, NoneIsNoRequest DEF Tail, ClearSETUP, None
<1>3. CASE BusInterrupt
  BY <1>3 DEF BusInterrupt
<1> QED
  BY <1>1, <1>2, <1>3

\* The host goes on with its request.
LEMMA ExchangeKeeps ==
  ASSUME Flags, Rest, Flags', Fetch \/ SendData \/ Status \/ Stop \/ Refused
  PROVE  Rest'
<1> USE PacketAssumption, RequestShape
    DEF Flags, Rest, Types, KindServed, HostAttached, SetupFirst, GivenUp, InStep, Waiting, Staged, AnswerAdds,
        StreamWaits, ReadWaits, Exchange, served, endpoint
<1>1. CASE Fetch
  BY <1>1 DEF Fetch
<1>2. CASE SendData
  BY <1>2 DEF SendData
<1>3. CASE Status
  BY <1>3 DEF Status, Reads
<1>4. CASE Stop
  BY <1>4 DEF Stop
<1>5. CASE Refused
  BY <1>5 DEF Refused
<1> QED
  BY <1>1, <1>2, <1>3, <1>4, <1>5

\* The host begins with a request.
LEMMA SetupKeeps ==
  ASSUME Flags, Rest, Flags', NEW r \in Request, Setup(r)
  PROVE  Rest'
  BY PacketAssumption, NoneIsNoRequest
  DEF Setup, Settled, Flags, Rest, Types, KindServed, HostAttached, SetupFirst, GivenUp, InStep, Waiting,
      Staged, AnswerAdds, StreamWaits, ReadWaits, served, endpoint

\* The request comes to nothing, the bus is cut off, and the board comes back.
LEMMA LeaveKeeps ==
  ASSUME Flags, Rest, Flags', GiveUp \/ Detach \/ Suspend \/ Resume
  PROVE  Rest'
  BY PacketAssumption, RequestShape
  DEF GiveUp, Detach, Suspend, Resume, Leave, Flags, Rest, Types, KindServed, HostAttached, SetupFirst, GivenUp,
      InStep, Waiting, Staged, AnswerAdds, StreamWaits, ReadWaits, served, endpoint

LEMMA AttachKeeps ==
  ASSUME Flags, Rest, Flags', Attach \/ PowerCycle
  PROVE  Rest'
  BY PacketAssumption, RequestShape
  DEF Attach, PowerCycle, EndpointReset, Flags, Rest, Types, KindServed, HostAttached, SetupFirst, GivenUp,
      InStep, Waiting, Staged, AnswerAdds, StreamWaits, ReadWaits, served, endpoint, None

LEMMA NextKeeps == IInv /\ [Next]_vars => IInv'
<1> SUFFICES ASSUME Flags, Rest, [Next]_vars PROVE Flags' /\ Rest'
  BY Parts, PartsNext
<1>0. Flags'
  BY NextFlags
<1>1. CASE Handler \/ BusInterrupt
  BY <1>0, <1>1, StreamKeeps, OthersKeep, EndsKeep DEF Handler
<1>2. ASSUME NEW r \in Request, Setup(r) PROVE Rest'
  BY <1>0, <1>2, SetupKeeps
<1>3. CASE Fetch \/ SendData \/ Status \/ Stop \/ Refused
  BY <1>0, <1>3, ExchangeKeeps
<1>4. CASE GiveUp \/ Detach \/ Suspend \/ Resume \/ Attach \/ PowerCycle
  BY <1>0, <1>4, LeaveKeeps, AttachKeeps
<1>5. CASE UNCHANGED vars
  BY <1>0, <1>5
  DEF vars, hostVars, endpoint, served, Rest, Types, KindServed, HostAttached, SetupFirst, GivenUp, InStep,
      Waiting, Staged, AnswerAdds
<1> QED
  BY <1>0, <1>1, <1>2, <1>3, <1>4, <1>5 DEF Next

LEMMA Invariance == Spec => []IInv
  BY InitEstablishes, NextKeeps, PTL DEF Spec

-----------------------------------------------------------------------------
(* The theorems.                                                           *)

\* Type correctness: the bank never holds more than a packet, the answer never
\* more than was asked for, and no request is followed by a host that is not
\* there.
THEOREM Typing == Spec => []TypeOK
<1>1. IInv => TypeOK
  BY DEF IInv
<1> QED
  BY <1>1, Invariance, PTL

\* A host that reads an answer to its end has all of it and no more, for every
\* packet size and every length it asks for.
THEOREM Completeness == Spec => AnswerComplete
<1>1. ASSUME IInv, [Next]_vars
      PROVE  [Fetch => /\ got' <= Lesser(asked.size, asked.length)
                       /\ phase' = "status" => got' = Lesser(asked.size, asked.length)]_vars
  <2> SUFFICES ASSUME Fetch
               PROVE  /\ got' <= Lesser(asked.size, asked.length)
                      /\ phase' = "status" => got' = Lesser(asked.size, asked.length)
    OBVIOUS
  <2>1. Flags /\ Rest
    BY <1>1, Parts
  <2>2. /\ phase = "data" /\ Reads(asked) /\ ~setup /\ ~stall /\ ~inReady
        /\ got' = got + inBytes
        /\ phase' = "status" => inBytes < Packet \/ got' >= asked.length
    BY DEF Fetch, Exchange
  <2>3. /\ AnswerLength(asked) \in Nat /\ AnswerLength(asked) <= asked.length /\ asked.length \in Nat
        /\ asked.kind = "answer" => AnswerLength(asked) = asked.size
    BY <2>1, RequestShape DEF Rest, Types
  <2>4. pc \in ReadWaits /\ pc # "answer"
    BY <2>1, <2>2 DEF Rest, Waiting, AnswerAdds
  <2>5. CASE pc \in StreamWaits
    BY <2>1, <2>2, <2>3, <2>5 DEF Rest, Types, Staged, AnswerAdds, AnswerLength
  <2>6. CASE pc = "status_out"
    BY <2>1, <2>2, <2>3, <2>6 DEF Rest, Types, Staged, AnswerAdds, AnswerLength
  <2> QED
    BY <2>4, <2>5, <2>6 DEF ReadWaits
<1> QED
  BY <1>1, Invariance, PTL DEF Spec, AnswerComplete

\* The board never refuses a request that it supports and that follows one it
\* has ended: only one that came while it served another that was given up.
THEOREM Refusals == Spec => RefusedOnlyAfterGivenUp
<1>1. ASSUME IInv, [Next]_vars
      PROVE  [stall' /\ ~stall => ~Supported(req) \/ gaveUp]_vars
  <2> SUFFICES ASSUME Next, stall', ~stall
               PROVE  ~Supported(req) \/ gaveUp
    BY <1>1
  <2>1. Flags /\ Rest
    BY <1>1, Parts
  <2>2. Tail
    BY Zenon
    DEF Next, Handler, Dispatch, Stream, Fill, StreamStatus, StreamEnd, Answer, StatusOut, StatusIn, DataOut,
        AddressWait, BusInterrupt, Setup, Fetch, SendData, Status, Stop, Refused, GiveUp, Detach, Suspend,
        Resume, Attach, PowerCycle, Exchange, Leave, EndpointReset, Go, Wait, ClearSETUP, ClearIN, ClearOUT,
        endpoint
  <2>3. setup /\ pc = "tail"
    BY <2>2 DEF Tail, endpoint
  <2> QED
    BY <2>1, <2>3 DEF Rest, SetupFirst
<1> QED
  BY <1>1, Invariance, PTL DEF Spec, RefusedOnlyAfterGivenUp
=============================================================================
