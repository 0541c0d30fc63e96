------------------------------ MODULE PinBoard ------------------------------
(***************************************************************************)
(* What GPIO mode promises a host program, with no shadow registers, no    *)
(* chips and no bus: every pin is an input or drives a level.              *)
(*                                                                         *)
(* A port is stale when the chip still latches levels of an earlier        *)
(* session.  In a stale port the promise is weaker: a pin set low for the  *)
(* first time may drive the old level, and the first pin set high also     *)
(* pulls the port's other outputs to the low level they were asked for.    *)
(***************************************************************************)
CONSTANTS Pin, Port, PortOf(_)

VARIABLES drive, stale

Level == {"in", "low", "high"}

Init == drive = [p \in Pin |-> "in"] /\ stale = {}

High(p) ==
    /\ drive' = [q \in Pin |->
         IF q = p THEN "high"
         ELSE IF PortOf(q) = PortOf(p) /\ PortOf(p) \in stale /\ drive[q] # "in"
              THEN "low" ELSE drive[q]]
    /\ stale' = stale \ {PortOf(p)}

Low(p) ==
    /\ \/ drive' = [drive EXCEPT ![p] = "low"]
       \/ PortOf(p) \in stale /\ drive' = [drive EXCEPT ![p] = "high"]
    /\ UNCHANGED stale

Release(p) ==
    /\ drive' = [drive EXCEPT ![p] = "in"]
    /\ UNCHANGED stale

\* A session begins or ends, or the supply changes: every pin is let go.
ReleaseAll ==
    /\ drive' = [p \in Pin |-> "in"]
    /\ stale' \in SUBSET Port

Next ==
    \/ ReleaseAll
    \/ \E p \in Pin : High(p) \/ Low(p) \/ Release(p)

Spec == Init /\ [][Next]_<<drive, stale>>
=============================================================================
