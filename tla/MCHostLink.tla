----------------------------- MODULE MCHostLink -----------------------------
(* A board of two expanders.  The configurations: 8 and 16 data lines, and  *)
(* one that needs pins only the full board has.  The pins show, and the     *)
(* program writes, a newline and an "A", the bytes of an ACK.               *)
EXTENDS HostLink

MCPinCounts == {16}
MCConfigs == {[size |-> 1, pins |-> 16], [size |-> 2, pins |-> 16], [size |-> 1, pins |-> 32]}
MCSamples == {10, 65}
=============================================================================
