----------------------------- MODULE MCParallel -----------------------------
(* A chip with one address and two data lines, wired to two expanders of   *)
(* 4-pin ports so that control, address and data lines share ports.        *)
EXTENDS Parallel

MCAddr == <<5>>
MCData == <<6, 9>>
MCVcc == {0}
MCGnd == {10}
Pins == [ce |-> 2, we |-> 3, oe |-> 4, re |-> 7, wi |-> 8, by |-> 1, wp |-> 11,
         rst |-> 12, be |-> 13, ri |-> 14]
MCActiveLow == [c \in ControlName |-> [pin |-> Pins[c], active |-> 0]]
\* The same wiring for a chip whose write enable is active high.
MCWeActiveHigh == [MCActiveLow EXCEPT !.we.active = 1]

Request(action, addr, count, commands, reconfigure) ==
    [action |-> action, addr |-> addr, count |-> count, commands |-> commands,
     reconfigure |-> reconfigure]
Unlock == <<[addr |-> 1, word |-> {1}]>>

\* RECONFIGURE=1 with commands before reads and writes, mixed with RECONFIGURE=0,
\* the default, without before reads.  A data word is two bytes: the counts are one word, two
\* words, and an odd count; reads and writes go past the last address.
MCRequests ==
    {Request("READ", 0, 2, Unlock, TRUE), Request("WRITE", 1, 2, Unlock, TRUE),
     Request("COMMAND", 0, 0, Unlock, TRUE), Request("READ", 1, 4, <<>>, FALSE),
     Request("WRITE", 0, 3, Unlock, FALSE)}
\* RECONFIGURE=0 with commands before a read.
MCReadCommands == {Request("READ", 0, 1, Unlock, FALSE)}

\* All pins; the first chip only as well, so that no configuration is valid.
AllPins == {16}
FewPins == {8, 16}
MCLeftovers == {{}, {2, 4, 5, 9, 10}, 0..15}
\* The hypotheses of the theorems; ParallelControlLines has a line that is not
\* active low, ParallelReadCommands commands without RECONFIGURE.
ASSUME TargetAsProved ==
    /\ OwnPins /\ WholeChips /\ \A c \in ControlName : Connected(c)
    /\ Control = MCActiveLow => ActiveLow
    /\ Requests = MCRequests => CommandsReconfigured
=============================================================================
