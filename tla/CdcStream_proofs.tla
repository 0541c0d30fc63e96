-------------------------- MODULE CdcStream_proofs --------------------------
(***************************************************************************)
(* Proofs about module CdcStream, for every size of a bank and of what the *)
(* host sends, every timeout and every host that fetches within it.        *)
(***************************************************************************)
EXTENDS CdcStream, TLAPS

-----------------------------------------------------------------------------
(* The inductive invariant.                                                *)

\* The endpoint the program goes on with: while USB_COM_vect serves a request
\* it is in PrevSelectedEndpoint.
Own == IF MainRuns THEN selected ELSE saved

\* As long as the device is not unsettled the program is connected, and goes on
\* with an endpoint it selected itself.
Connected ==
    calm => /\ port = "open" /\ Enumerated
            /\ deviceState = "configured" /\ baud /\ request # "hung"
            /\ stray => pc \in {"get", "get_baud", "get_select"}

\* EndpointHeld, and what it means while a request is served.
OwnHeld ==
    ~stray => /\ pc \in UsesIn => Own = "in"
              /\ pc \in UsesOut => Own = "out"

\* A byte is written to the IN bank only where there is room: the bank was
\* looked at with the endpoint selected, and nobody but the program fills it.
RoomHeld ==
    Own = "in" =>
        /\ inReady /\ (pc = "put_wait" \/ (pc \in Waits /\ caller = "put")) => inBytes = 0
        /\ pc = "put_write" => inBytes < Bank

\* The host has left the bank waiting for the frames the timeout has counted;
\* past a look at INReady that failed it has at least one more.
AgeCounts ==
    calm => /\ pc \in Waits /\ ~inReady => age + rem >= StreamTimeout + (IF frame THEN 1 ELSE 0)
            /\ pc \in Waits \ {"wait_ready"} => rem > 0

\* Between two steps of getchar nobody but the program takes from the OUT bank.
ReadHeld ==
    /\ ~outReady => outBytes = 0
    /\ got => pc \in {"get_more", "get_clear"}
    /\ calm => /\ pc \in {"get_bytes", "get_byte", "get_more", "get_clear"} => outReady
               /\ pc = "get_byte" => outBytes > 0
               /\ pc = "get_clear" => outBytes = 0

IInv ==
    /\ TypeOK /\ NoByteLost
    /\ Connected /\ OwnHeld /\ RoomHeld /\ AgeCounts /\ ReadHeld

-----------------------------------------------------------------------------
(* Every step keeps it.                                                    *)

\* The variables that are truth values.
Flags ==
    /\ idle \in BOOLEAN /\ addressed \in BOOLEAN /\ waking \in BOOLEAN /\ baud \in BOOLEAN
    /\ inReady \in BOOLEAN /\ outReady \in BOOLEAN /\ got \in BOOLEAN
    /\ frame \in BOOLEAN /\ calm \in BOOLEAN /\ lost \in BOOLEAN /\ stray \in BOOLEAN

LEMMA InitFlags == Init => Flags
  BY Zenon DEF Init, UsbInit, Flags

\* The kinds of step the program is made of keep them.
LEMMA StepFlags ==
  ASSUME Flags, NEW from, NEW to
  PROVE  /\ Test(from, to) \/ ClearIN(from, to) => Flags'
         /\ \A endpoint : Select(from, endpoint, to) => Flags'
         /\ Dropped(from) \/ StartWait(from, to) => Flags'
<1> USE DEF Flags, Go, Step, usbVars, usbOthers, banks, waitVars, hostVars
<1>1. ASSUME Test(from, to) PROVE Flags'
  BY <1>1, Zenon DEF Test
<1>2. ASSUME NEW endpoint, Select(from, endpoint, to) PROVE Flags'
  BY <1>2, Zenon DEF Select
<1>3. ASSUME ClearIN(from, to) PROVE Flags'
  BY <1>3, Zenon DEF ClearIN
<1>4. ASSUME Dropped(from) PROVE Flags'
  BY <1>4, Zenon DEF Dropped, EndWait
<1>5. ASSUME StartWait(from, to) PROVE Flags'
  BY <1>5, Zenon DEF StartWait
<1> QED
  BY ONLY <1>1, <1>2, <1>3, <1>4, <1>5

LEMMA FailsFlags == ASSUME Flags, NEW from, Ready(from) \/ Fails(from) PROVE Flags'
<1> USE DEF Flags, Go, Step, usbVars, usbOthers, banks, hostVars, EndWait
<1>1. CASE Ready(from)
  BY <1>1, Zenon DEF Ready
<1>2. CASE Step(from, "get") /\ EndWait /\ UNCHANGED <<usbVars, banks, got>>
  BY <1>2, Zenon
<1>3. CASE Dropped(from)
  BY ONLY <1>3, Flags, StepFlags
<1> QED
  BY ONLY Ready(from) \/ Fails(from), <1>1, <1>2, <1>3 DEF Fails

LEMMA WaitFlags == ASSUME Flags, Wait PROVE Flags'
<1>1. CASE WaitReady \/ WaitState \/ WaitStalled
  BY ONLY Flags, <1>1, FailsFlags, StepFlags DEF WaitReady, WaitState, WaitStalled
<1>2. CASE WaitFrame
  <2>1. CASE TimedOut /\ Fails("wait_frame")
    BY ONLY Flags, <2>1, FailsFlags
  <2>2. CASE Test("wait_frame", "wait_ready")
    BY ONLY Flags, <2>2, StepFlags
  <2>3. CASE Step("wait_frame", "wait_ready") /\ frame' = FALSE /\ UNCHANGED <<usbVars, banks, got, caller>>
    BY <2>3, Zenon DEF Flags, Go, Step, usbVars, usbOthers, banks, hostVars
  <2> QED
    BY ONLY <1>2, <2>1, <2>2, <2>3 DEF WaitFrame
<1> QED
  BY ONLY Wait, <1>1, <1>2 DEF Wait

LEMMA MainFlags == ASSUME Flags, Main PROVE Flags'
<1>1. /\ \A from, second, yes, no : Checks(from, second, yes, no) => Flags'
      /\ \A from, flag, yes, no : Branch(from, flag, yes, no) => Flags'
  BY ONLY Flags, StepFlags DEF Checks, Refused, Branch
<1>2. ASSUME PutWrite \/ GetByte PROVE Flags'
  <2>1. CASE PutWrite
    <3>1. lost' \in BOOLEAN
      BY <2>1, Zenon DEF PutWrite, Flags
    <3> QED
      BY <2>1, <3>1, Zenon DEF PutWrite, Flags, Go, usbVars, usbOthers, waitVars, hostVars
  <2>2. CASE GetByte
    BY <2>2, Zenon DEF GetByte, Flags, Go, Step, usbVars, usbOthers, waitVars, hostVars
  <2> QED
    BY <1>2, <2>1, <2>2
<1>3. ASSUME ClearOUT \/ (Received("get_more") /\ UNCHANGED <<outBytes, outReady>>) PROVE Flags'
  BY <1>3, Zenon DEF ClearOUT, Received, Flags, Go, Step, usbVars, usbOthers, waitVars, hostVars
<1>4. ASSUME GetMore PROVE Flags'
  BY ONLY <1>3, <1>4, Flags, StepFlags DEF GetMore
<1>5. Put => Flags'
  BY ONLY Flags, <1>1, <1>2, StepFlags DEF Put
<1>6. Get => Flags'
  BY ONLY Flags, <1>1, <1>2, <1>3, <1>4, StepFlags DEF Get
<1>7. Flush => Flags'
  BY ONLY Flags, <1>1, StepFlags DEF Flush
<1> QED
  BY ONLY Flags, Main, <1>5, <1>6, <1>7, StepFlags, WaitFlags DEF Main

LEMMA NextFlags == ASSUME Flags, [Next]_vars PROVE Flags'
<1> USE DEF Flags, usbVars, usbOthers, banks, waitVars, hostVars
<1>1. CASE Main
  BY <1>1, MainFlags, Zenon
<1>2. CASE Open \/ Close \/ Fetch \/ Send \/ Frame
  <2>1. CASE Open
    <3>1. calm' \in BOOLEAN
      BY <2>1, Zenon DEF Open
    <3> QED
      BY <2>1, <3>1, Zenon DEF Open
  <2>2. CASE Close
    BY <2>2, Zenon DEF Close
  <2>3. CASE Fetch
    <3>1. inReady' = TRUE /\ UNCHANGED <<usbVars, outReady, got, frame, calm, lost, stray>>
      BY <2>3, Zenon DEF Fetch
    <3> QED
      BY ONLY Flags, <3>1, Zenon DEF Flags, usbVars, usbOthers
  <2>5. CASE Send
    <3>1. outReady' = TRUE /\ UNCHANGED <<usbVars, inReady, got, frame, calm, lost, stray>>
      BY <2>5, Zenon DEF Send
    <3> QED
      BY ONLY Flags, <3>1, Zenon DEF Flags, usbVars, usbOthers
  <2>4. CASE Frame
    <3>1. frame' \in BOOLEAN
      BY <2>4, Zenon DEF Frame
    <3> QED
      BY <2>4, <3>1, Zenon DEF Frame
  <2> QED
    BY <1>2, <2>1, <2>2, <2>3, <2>4, <2>5
<1>3. CASE Interrupt
  <2>1. CASE SetLineEncoding /\ UNCHANGED <<banks, age, calm, lost, stray>>
    BY <1>3, <2>1, Zenon DEF Interrupt, SetLineEncoding, Setup
  <2>2. CASE Unsettling /\ calm' = FALSE /\ lost' = FALSE
    <3>1. CASE (VbusOn \/ VbusOff \/ Suspend \/ WakeUp \/ SetAddress) /\ UNCHANGED <<banks, age, stray>>
      BY <1>3, <2>2, <3>1, Zenon DEF Interrupt, VbusOn, VbusOff, Suspend, WakeUp, SetAddress
    <3>2. CASE (\E n \in 0..1 : SetConfiguration(n)) /\ UNCHANGED <<banks, age, stray>>
      BY <1>3, <2>2, <3>2, Zenon DEF Interrupt, SetConfiguration, Setup
    <3>3. CASE BusReset /\ (\E ready \in BOOLEAN : BanksReset(ready)) /\ stray' = (stray \/ MainRuns)
      <4>1. stray' \in BOOLEAN
        BY <3>3, Zenon
      <4> QED
        BY <1>3, <2>2, <3>3, <4>1, Zenon DEF Interrupt, BusReset, BanksReset
    <3> QED
      BY ONLY <2>2, <3>1, <3>2, <3>3 DEF Unsettling
  <2> QED
    BY ONLY <1>3, <2>1, <2>2 DEF Interrupt
<1>7. CASE Served
  BY <1>7, Zenon DEF Served, BanksReset, Configured, Answered, Return
<1>4. CASE PowerCycle
  BY <1>4, Zenon DEF PowerCycle, BanksReset, EndWait
<1>5. CASE UNCHANGED vars
  BY <1>5, Zenon DEF vars
<1> QED
  BY <1>1, <1>2, <1>3, <1>4, <1>5, <1>7, Zenon DEF Next

LEMMA InitEstablishes == Init => IInv
  BY StreamAssumption, InitFlags
  DEF Flags, Init, UsbInit, IInv, TypeOK, UsbTypeOK, NoByteLost, Connected, OwnHeld, RoomHeld, AgeCounts,
      ReadHeld, Own, MainRuns, Stage, DeviceState, Request, Endpoint, Puts, Gets, Flushes, Waits, UsesIn, UsesOut

\* With its endpoint selected a flag shows what it stands for.
LEMMA FlagShows ==
  ASSUME NEW endpoint, NEW value \in BOOLEAN
  PROVE  /\ selected = endpoint /\ TRUE \in Flag(endpoint, value) => value
         /\ selected = endpoint /\ FALSE \in Flag(endpoint, value) => ~value
  BY Zenon DEF Flag

LEMMA BranchShows ==
  ASSUME NEW from, NEW yes, NEW no, NEW endpoint, NEW value \in BOOLEAN,
         Branch(from, Flag(endpoint, value), yes, no)
  PROVE  \/ (selected = endpoint => value) /\ Test(from, yes)
         \/ (selected = endpoint => ~value) /\ Test(from, no)
  BY FlagShows, Zenon DEF Branch

\* The program calls nothing of another endpoint in the calm.
LEMMA CalmOwn ==
  ASSUME IInv, MainRuns, calm
  PROVE  (pc \in UsesIn => selected = "in") /\ (pc \in UsesOut => selected = "out")
  BY DEF IInv, Connected, OwnHeld, Own, UsesIn, UsesOut, Waits

LEMMA ClearINGives ==
  ASSUME NEW from, NEW to, ClearIN(from, to)
  PROVE  /\ Step(from, to) /\ UNCHANGED <<usbVars, inBytes, outBytes, outReady, got, waitVars>>
         /\ selected = "in" => ~inReady'
         /\ selected # "in" => inReady' = inReady
  BY Zenon DEF ClearIN

\* The two tests that begin a function: in the calm both succeed.
LEMMA ChecksKeep ==
  ASSUME IInv, Flags'
  PROVE  /\ Checks("put", "put_baud", "put_select", "work") => IInv'
         /\ Checks("get", "get_baud", "get_select", "get_none") => IInv'
         /\ Checks("task", "task_baud", "flush", "get") => IInv'
         /\ Checks("flush", "flush_baud", "flush_select", "get") => IInv'
<1> USE StreamAssumption
    DEF Flags, IInv, TypeOK, UsbTypeOK, NoByteLost, Connected, OwnHeld, RoomHeld, AgeCounts, ReadHeld, Own,
        MainRuns, Puts, Gets, Flushes, Waits, UsesIn, UsesOut, Go, Step,
        usbVars, usbOthers, banks, waitVars, hostVars, Enumerated, Pending
<1>1. Checks("put", "put_baud", "put_select", "work") => IInv'
  BY DEF Checks, Refused, Test, Dropped, EndWait
<1>2. Checks("get", "get_baud", "get_select", "get_none") => IInv'
  BY DEF Checks, Refused, Test
<1>3. Checks("task", "task_baud", "flush", "get") => IInv'
  BY DEF Checks, Refused, Test
<1>4. Checks("flush", "flush_baud", "flush_select", "get") => IInv'
  BY DEF Checks, Refused, Test
<1> QED
  BY ONLY <1>1, <1>2, <1>3, <1>4

\* putchar up to the byte: SendByte without its wait.
LEMMA PutKeeps == ASSUME IInv, Flags', Test("work", "put") \/ Put PROVE IInv'
<1>0. Room \in BOOLEAN
  BY Zenon DEF Room, IInv, TypeOK
<1> USE StreamAssumption
    DEF Flags, IInv, TypeOK, UsbTypeOK, NoByteLost, Connected, OwnHeld, RoomHeld, AgeCounts, ReadHeld, Own,
        MainRuns, Puts, Gets, Flushes, Waits, UsesIn, UsesOut, Go, Step,
        usbVars, usbOthers, banks, waitVars, hostVars, Enumerated, Pending
<1>1. CASE Test("work", "put")
  BY <1>1 DEF Test
<1>2. CASE Checks("put", "put_baud", "put_select", "work")
  BY ONLY <1>2, IInv, Flags', ChecksKeep
<1>3. CASE Select("put_select", "in", "put_room")
  BY <1>3 DEF Select, Endpoint
<1>4. CASE Branch("put_room", Flag("in", Room), "put_write", "put_clear")
  <2>1. \/ (selected = "in" => Room) /\ Test("put_room", "put_write")
        \/ Test("put_room", "put_clear")
    BY ONLY <1>0, <1>4, BranchShows
  <2> QED
    BY <2>1 DEF Test, Room
<1>5. CASE ClearIN("put_clear", "put_wait")
  BY <1>5, ClearINGives
<1>6. CASE StartWait("put_wait", "put")
  BY <1>6 DEF StartWait
<1>7. CASE PutWrite
  BY <1>7 DEF PutWrite
<1> QED
  BY ONLY Test("work", "put") \/ Put, <1>1, <1>2, <1>3, <1>4, <1>5, <1>6, <1>7 DEF Put

\* The wait: in the calm it ends because the bank is ready.
LEMMA WaitKeeps == ASSUME IInv, Flags', Wait PROVE IInv'
<1>0. inReady \in BOOLEAN
  BY DEF IInv, TypeOK
<1> USE StreamAssumption
    DEF Flags, IInv, TypeOK, UsbTypeOK, NoByteLost, Connected, OwnHeld, RoomHeld, AgeCounts, ReadHeld, Own,
        MainRuns, Puts, Gets, Flushes, Waits, UsesIn, UsesOut, Go, Step,
        usbVars, usbOthers, banks, waitVars, hostVars, Enumerated, Pending
<1>1. ASSUME NEW from \in Waits, Ready(from), selected = "in" => inReady PROVE IInv'
  BY <1>1 DEF Ready, EndWait
<1>2. ASSUME NEW from \in Waits, Fails(from), ~calm PROVE IInv'
  <2>1. \/ Dropped(from)
        \/ Step(from, "get") /\ EndWait /\ UNCHANGED <<usbVars, banks, got>>
    BY ONLY <1>2 DEF Fails
  <2> QED
    BY <1>2, <2>1 DEF Dropped, EndWait
<1>3. CASE WaitReady
  <2>1. \/ (selected = "in" => inReady) /\ Ready("wait_ready")
        \/ (selected = "in" => ~inReady) /\ Test("wait_ready", "wait_state")
    BY ONLY <1>0, <1>3, FlagShows, Zenon DEF WaitReady
  <2>2. CASE (selected = "in" => ~inReady) /\ Test("wait_ready", "wait_state")
    BY <2>2 DEF Test
  <2> QED
    BY ONLY <1>1, <2>1, <2>2 DEF Waits
<1>4. CASE WaitState
  <2>1. CASE Test("wait_state", "wait_stalled")
    BY <2>1 DEF Test
  <2>2. CASE Fails("wait_state") /\ StateFails
    BY <1>2, <2>2 DEF StateFails
  <2> QED
    BY ONLY <1>4, <2>1, <2>2 DEF WaitState
<1>5. CASE WaitStalled
  <2>1. CASE Test("wait_stalled", "wait_frame")
    BY <2>1 DEF Test
  <2>2. CASE Fails("wait_stalled") /\ selected # "in"
    <3>1. MainRuns /\ pc = "wait_stalled"
      BY ONLY <2>2 DEF Fails, Dropped, Step, Go
    <3>2. ~calm
      BY ONLY IInv, <2>2, <3>1, CalmOwn DEF UsesIn, Waits
    <3> QED
      BY ONLY <1>2, <2>2, <3>2 DEF Waits
  <2>3. Test("wait_stalled", "wait_frame") \/ (Fails("wait_stalled") /\ selected # "in")
    BY ONLY <1>5, FlagShows, Zenon DEF WaitStalled
  <2> QED
    BY ONLY <2>1, <2>2, <2>3
<1>6. CASE WaitFrame
  <2>1. CASE TimedOut /\ Fails("wait_frame")
    <3>1. pc = "wait_frame"
      BY ONLY <2>1 DEF Fails, Dropped, Step, Go
    <3>2. ~calm
      BY <2>1, <3>1 DEF TimedOut
    <3> QED
      BY ONLY <1>2, <2>1, <3>2 DEF Waits
  <2>2. CASE ~frame /\ Test("wait_frame", "wait_ready")
    BY <2>2 DEF Test
  <2>3. CASE /\ frame /\ ~TimedOut /\ Step("wait_frame", "wait_ready")
             /\ rem' = rem - 1 /\ frame' = FALSE /\ UNCHANGED <<usbVars, banks, got, caller>>
    BY <2>3 DEF TimedOut
  <2> QED
    BY ONLY <1>6, <2>1, <2>2, <2>3 DEF WaitFrame
<1> QED
  BY ONLY Wait, <1>3, <1>4, <1>5, <1>6 DEF Wait

\* getchar without its flush.
LEMMA GetKeeps == ASSUME IInv, Flags', Test("work", "get") \/ Get PROVE IInv'
<1>0. outReady \in BOOLEAN /\ (outBytes > 0) \in BOOLEAN
  BY DEF IInv, TypeOK
<1> USE StreamAssumption
    DEF Flags, IInv, TypeOK, UsbTypeOK, NoByteLost, Connected, OwnHeld, RoomHeld, AgeCounts, ReadHeld, Own,
        MainRuns, Puts, Gets, Flushes, Waits, UsesIn, UsesOut, Go, Step,
        usbVars, usbOthers, banks, waitVars, hostVars, Enumerated, Pending
<1>1. CASE Test("work", "get")
  BY <1>1 DEF Test
<1>2. CASE Checks("get", "get_baud", "get_select", "get_none")
  BY ONLY <1>2, IInv, Flags', ChecksKeep
<1>3. CASE Select("get_select", "out", "get_received")
  BY <1>3 DEF Select, Endpoint
<1>4. CASE Branch("get_received", Flag("out", outReady), "get_bytes", "get_none")
  <2>1. \/ (selected = "out" => outReady) /\ Test("get_received", "get_bytes")
        \/ Test("get_received", "get_none")
    BY ONLY <1>0, <1>4, BranchShows
  <2> QED
    BY <2>1 DEF Test
<1>5. CASE Branch("get_bytes", Flag("out", outBytes > 0), "get_byte", "get_more")
  <2>1. \/ (selected = "out" => outBytes > 0) /\ Test("get_bytes", "get_byte")
        \/ Test("get_bytes", "get_more")
    BY ONLY <1>0, <1>5, BranchShows
  <2> QED
    BY <2>1 DEF Test
<1>6. CASE GetByte
  BY <1>6 DEF GetByte
<1>7. CASE GetMore
  <2>1. \/ Received("get_more") /\ UNCHANGED <<outBytes, outReady>>
        \/ (selected = "out" => ~(outBytes > 0)) /\ Test("get_more", "get_clear")
    BY ONLY <1>0, <1>7, FlagShows, Zenon DEF GetMore, MoreBytes
  <2> QED
    BY <2>1 DEF Received, Test
<1>8. CASE ClearOUT
  BY <1>8 DEF ClearOUT, Received
<1>9. CASE Test("get_none", "work") \/ Test("get_none", "task")
  BY <1>9 DEF Test
<1> QED
  BY ONLY Test("work", "get") \/ Get, <1>1, <1>2, <1>3, <1>4, <1>5, <1>6, <1>7, <1>8, <1>9 DEF Get

\* The flush.
LEMMA FlushKeeps == ASSUME IInv, Flags', Flush PROVE IInv'
<1> USE StreamAssumption
    DEF Flags, IInv, TypeOK, UsbTypeOK, NoByteLost, Connected, OwnHeld, RoomHeld, AgeCounts, ReadHeld, Own,
        MainRuns, Puts, Gets, Flushes, Waits, UsesIn, UsesOut, Go, Step,
        usbVars, usbOthers, banks, waitVars, hostVars, Enumerated, Pending
<1>1. CASE Checks("task", "task_baud", "flush", "get") \/ Checks("flush", "flush_baud", "flush_select", "get")
  BY ONLY <1>1, IInv, Flags', ChecksKeep
<1>2. CASE Select("flush_select", "in", "flush_bytes")
  BY <1>2 DEF Select, Endpoint
<1>3. CASE Branch("flush_bytes", FlushDue, "flush_room", "get")
  BY <1>3 DEF Branch, Test
<1>4. CASE Branch("flush_room", Flag("in", Room), "flush_clear", "flush_full")
  BY <1>4 DEF Branch, Test
<1>5. CASE ClearIN("flush_clear", "get") \/ ClearIN("flush_full", "flush_wait") \/ ClearIN("flush_last", "get")
  BY <1>5, ClearINGives
<1>6. CASE StartWait("flush_wait", "flush")
  BY <1>6 DEF StartWait
<1> QED
  BY ONLY Flush, <1>1, <1>2, <1>3, <1>4, <1>5, <1>6 DEF Flush

\* The host: its program and its driver.
LEMMA HostKeeps == ASSUME IInv, Flags', Open \/ Close \/ Fetch \/ Send \/ Frame PROVE IInv'
<1> USE StreamAssumption
    DEF Flags, IInv, TypeOK, UsbTypeOK, NoByteLost, Connected, OwnHeld, RoomHeld, AgeCounts, ReadHeld, Own,
        MainRuns, Puts, Gets, Flushes, Waits, UsesIn, UsesOut, Go, Step,
        usbVars, usbOthers, banks, waitVars, hostVars, Enumerated, Pending
<1>1. CASE Open
  BY <1>1 DEF Open
<1>2. CASE Close
  BY <1>2 DEF Close
<1>3. CASE Fetch
  BY <1>3 DEF Fetch
<1>4. CASE Send
  BY <1>4 DEF Send
<1>5. CASE Frame
  BY <1>5 DEF Frame
<1> QED
  BY <1>1, <1>2, <1>3, <1>4, <1>5

\* The interrupts: a request that does not touch the stream changes nothing,
\* everything else ends the calm.
LEMMA InterruptKeeps == ASSUME IInv, Flags', Interrupt PROVE IInv'
<1> USE StreamAssumption
    DEF Flags, IInv, TypeOK, UsbTypeOK, NoByteLost, Connected, OwnHeld, RoomHeld, AgeCounts, ReadHeld, Own,
        MainRuns, Puts, Gets, Flushes, Waits, UsesIn, UsesOut, Go, Step,
        usbVars, usbOthers, banks, waitVars, hostVars, Enumerated, Pending
<1>0. UNCHANGED <<pc, got, waitVars, port>>
  BY DEF Interrupt
<1>1. CASE SetLineEncoding /\ UNCHANGED <<banks, age, calm, lost, stray>>
  BY <1>0, <1>1 DEF SetLineEncoding, Setup, Endpoint, Request
<1>2. CASE /\ (VbusOn \/ VbusOff \/ Suspend \/ WakeUp \/ SetAddress)
           /\ calm' = FALSE /\ lost' = FALSE /\ UNCHANGED <<banks, age, stray>>
  BY <1>0, <1>2 DEF VbusOn, VbusOff, Suspend, WakeUp, SetAddress, GivenUp, StateFor, Stage, DeviceState, Request
<1>3. ASSUME NEW n \in 0..1, SetConfiguration(n), UNCHANGED <<banks, age, stray>>, calm' = FALSE, lost' = FALSE
      PROVE  IInv'
  BY <1>0, <1>3 DEF SetConfiguration, Setup, Stage, DeviceState, Endpoint, Request
<1>4. ASSUME NEW ready \in BOOLEAN, BusReset, BanksReset(ready), age' = 0, stray' = (stray \/ MainRuns),
             calm' = FALSE, lost' = FALSE
      PROVE  IInv'
  <2>1. ~stray' => ~stray /\ ~MainRuns
    BY <1>4, Zenon
  <2>2. TypeOK' /\ OwnHeld'
    BY <1>0, <1>4, <2>1 DEF BusReset, GivenUp, BanksReset, Stage, DeviceState, Endpoint, Request
  <2>3. RoomHeld' /\ AgeCounts' /\ ReadHeld' /\ Connected' /\ NoByteLost'
    BY <1>0, <1>4 DEF BusReset, GivenUp, BanksReset, Stage, DeviceState, Endpoint, Request
  <2> QED
    BY <2>2, <2>3
<1> QED
  BY ONLY Interrupt, <1>1, <1>2, <1>3, <1>4 DEF Interrupt, Unsettling

\* A handler gives the endpoint back.
LEMMA ServedKeeps == ASSUME IInv, Flags', Served PROVE IInv'
<1> USE StreamAssumption
    DEF Flags, IInv, TypeOK, UsbTypeOK, NoByteLost, Connected, OwnHeld, RoomHeld, AgeCounts, ReadHeld, Own,
        MainRuns, Puts, Gets, Flushes, Waits, UsesIn, UsesOut, Go, Step,
        usbVars, usbOthers, banks, waitVars, hostVars, Enumerated, Pending
<1>0. UNCHANGED <<pc, got, waitVars, port, stray>>
  BY DEF Served
<1>1. CASE Answered /\ UNCHANGED <<banks, age, calm, lost>>
  BY <1>0, <1>1 DEF Answered, Return, Endpoint, Request
<1>2. CASE Configured /\ BanksReset(TRUE) /\ age' = 0 /\ calm' = FALSE /\ lost' = FALSE
  BY <1>0, <1>2 DEF Configured, Return, StateFor, BanksReset, Stage, DeviceState, Endpoint, Request
<1> QED
  BY ONLY Served, <1>1, <1>2 DEF Served

\* The board is switched off and on.
LEMMA PowerCycleKeeps == ASSUME IInv, Flags', PowerCycle PROVE IInv'
<1> USE StreamAssumption
    DEF Flags, IInv, TypeOK, UsbTypeOK, NoByteLost, Connected, OwnHeld, RoomHeld, AgeCounts, ReadHeld, Own,
        MainRuns, Puts, Gets, Flushes, Waits, UsesIn, UsesOut, Go, Step,
        usbVars, usbOthers, banks, waitVars, hostVars, Enumerated, Pending
<1> QED
  BY DEF PowerCycle, BanksReset, EndWait, Stage, DeviceState, Endpoint, Request

LEMMA NextKeeps == IInv /\ [Next]_vars => IInv'
<1> SUFFICES ASSUME IInv, [Next]_vars PROVE IInv'
  OBVIOUS
<1>0. Flags'
  BY NextFlags DEF IInv, TypeOK, UsbTypeOK, Flags
<1>1. CASE Main
  BY <1>0, <1>1, PutKeeps, GetKeeps, FlushKeeps, WaitKeeps DEF Main
<1>2. CASE Open \/ Close \/ Fetch \/ Send \/ Frame
  BY <1>0, <1>2, HostKeeps
<1>3. CASE Interrupt
  BY <1>0, <1>3, InterruptKeeps
<1>4. CASE Served
  BY <1>0, <1>4, ServedKeeps
<1>5. CASE PowerCycle
  BY <1>0, <1>5, PowerCycleKeeps
<1>6. CASE UNCHANGED vars
  BY <1>6
  DEF vars, usbVars, usbOthers, banks, waitVars, hostVars, IInv, TypeOK, UsbTypeOK, NoByteLost,
      Connected, OwnHeld, RoomHeld, AgeCounts, ReadHeld, Own, MainRuns, Enumerated
<1> QED
  BY <1>1, <1>2, <1>3, <1>4, <1>5, <1>6 DEF Next

LEMMA Invariance == Spec => []IInv
  BY InitEstablishes, NextKeeps, PTL DEF Spec

-----------------------------------------------------------------------------
(* The theorems.                                                           *)

\* Type correctness: no interrupt, request or reset lets a bank or the
\* counter of the timeout leave its range.
THEOREM Typing == Spec => []TypeOK
<1>1. IInv => TypeOK
  BY DEF IInv
<1> QED
  BY <1>1, Invariance, PTL

\* To a program that keeps the port open and leaves no bank for as many frames
\* as the timeout has, putchar and the flush lose no byte, in whatever order the
\* tests of the wait, the frames and the host come, and whatever line encodings
\* the host sets in between.
THEOREM NothingLost == Spec => []NoByteLost
<1>1. IInv => NoByteLost
  BY DEF IInv
<1> QED
  BY <1>1, Invariance, PTL

\* Every access of the stream finds its endpoint selected, whatever interrupts
\* and requests come in between, unless a bus reset interrupts the program.
THEOREM Selection == Spec => []EndpointHeld
<1>1. IInv => EndpointHeld
  BY DEF IInv, OwnHeld, Own, EndpointHeld
<1> QED
  BY <1>1, Invariance, PTL

\* getchar takes each byte of the OUT bank once and drops none.
THEOREM ReadFidelity == Spec => ReadsWhatWasSent
<1>1. ASSUME IInv, [Next]_vars
      PROVE  [calm /\ calm' /\ (outBytes' < outBytes \/ (got' /\ ~got)) =>
                outBytes' = outBytes - 1 /\ got' /\ ~got]_vars
  <2> SUFFICES ASSUME Next, calm, calm', outBytes' < outBytes \/ (got' /\ ~got)
               PROVE  outBytes' = outBytes - 1 /\ got' /\ ~got
    BY <1>1
  <2>a. outBytes \in Nat
    BY <1>1, StreamAssumption DEF IInv, TypeOK
  <2>b. ~(UNCHANGED <<outBytes, got>>)
    BY <2>a
  <2>1. CASE GetByte
    <3>1. selected = "out" /\ outBytes > 0 /\ ~got
      BY <1>1, <2>1, CalmOwn DEF GetByte, Step, Go, IInv, ReadHeld, UsesOut
    <3> QED
      BY <2>1, <3>1 DEF GetByte
  <2>2. CASE GetMore
    <3>1. UNCHANGED outBytes /\ (UNCHANGED got \/ ~got')
      BY <2>2 DEF GetMore, Received, Test, banks
    <3> QED
      BY <2>a, <3>1
  <2>3. CASE ClearOUT
    <3>1. outBytes = 0
      BY <1>1, <2>3 DEF ClearOUT, Received, Step, Go, IInv, ReadHeld
    <3>2. outBytes' = outBytes /\ ~got'
      BY <2>3, <3>1, Zenon DEF ClearOUT, Received
    <3> QED
      BY <2>a, <3>2
  <2>4. CASE Send
    BY <1>1, <2>4, <2>a DEF Send, IInv, ReadHeld
  <2>5. CASE Main /\ ~GetByte /\ ~GetMore /\ ~ClearOUT
    BY <2>5, <2>b
    DEF Main, Put, Get, Flush, Wait, Checks, Refused, Branch, Test, Select, Dropped, ClearIN, StartWait, PutWrite,
        WaitReady, WaitState, WaitStalled, WaitFrame, Ready, Fails, banks
  <2>6. CASE Open \/ Close \/ Fetch \/ Frame \/ PowerCycle
    BY <2>6, <2>b DEF Open, Close, Fetch, Frame, PowerCycle, banks
  <2>7. CASE Interrupt
    BY <2>7, <2>b DEF Interrupt, banks
  <2>8. CASE Served
    BY <2>8, <2>b DEF Served, banks
  <2> QED
    BY <2>1, <2>2, <2>3, <2>4, <2>5, <2>6, <2>7, <2>8 DEF Next
<1> QED
  BY <1>1, Invariance, PTL DEF Spec, ReadsWhatWasSent
=============================================================================
