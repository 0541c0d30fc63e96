-------------------------- MODULE Mcp23s17_proofs ---------------------------
(***************************************************************************)
(* Lemmas about the operators of module Mcp23s17 that the proofs about the *)
(* modules composed from it share.                                         *)
(***************************************************************************)
EXTENDS Mcp23s17, TLAPS

-----------------------------------------------------------------------------
(* Facts about pins, ports and chips.                                      *)

\* Integer division by a positive number keeps a natural number natural.
LEMMA DivNat == ASSUME NEW p \in Nat, NEW r \in Nat \ {0} PROVE p \div r \in Nat
  BY Z3

\* A number below n * r has a quotient by r below n.
LEMMA DivBelow ==
  ASSUME NEW p \in Nat, NEW r \in Nat \ {0}, NEW n \in Nat, p < n * r
  PROVE  p \div r < n
<1>1. p = r * (p \div r) + (p % r) /\ p % r >= 0 /\ p \div r \in Int
  BY Z3
<1>2. ASSUME p \div r >= n PROVE FALSE
  <2>1. r * (p \div r) >= r * n
    BY <1>1, <1>2, Z3
  <2> QED
    BY <1>1, <2>1, Z3
<1> QED
  BY <1>1, <1>2

\* A product divided by one of its factors is the other.
LEMMA DivExact ==
  ASSUME NEW n \in Nat, NEW r \in Nat \ {0} PROVE (n * r) \div r = n
<1>1. n * r \in Nat /\ (n + 1) * r = n * r + r
  BY Z3
<1>2. (n * r) \div r < n + 1
  BY <1>1, DivBelow
<1>3. n * r = r * ((n * r) \div r) + ((n * r) % r) /\ (n * r) % r < r /\ (n * r) \div r \in Nat
  BY <1>1, DivNat, Z3
<1>4. ASSUME (n * r) \div r < n PROVE FALSE
  <2>1. (n * r) \div r + 1 <= n
    BY <1>3, <1>4
  <2>2. r * ((n * r) \div r + 1) <= r * n
    BY <1>3, <2>1, Z3
  <2> QED
    BY <1>1, <1>3, <2>2, Z3
<1> QED
  BY <1>2, <1>3, <1>4

\* The pins of the first n chips are on chips below n (init_pins).
LEMMA PinsOfDevicesBelow ==
  ASSUME NEW n \in Nat, NEW p \in PinsOfDevices(n)
  PROVE  DeviceOf(p) \in 0..(n - 1)
<1>1. PinsPerRegister \in Nat \ {0}
  BY BoardAssumption
<1>2. p \in Nat /\ p < (n * 2) * PinsPerRegister
  BY <1>1, Z3 DEF PinsOfDevices, Pin, PinsPerDevice, MaxPins
<1>3. p \div PinsPerRegister \in Nat /\ p \div PinsPerRegister < n * 2
  BY <1>1, <1>2, DivNat, DivBelow
<1> QED
  BY <1>3, DivNat, DivBelow, Z3 DEF DeviceOf, PortOf

\* The pins a scan finds are on chips that are there (mcp23s17_chip_count).
LEMMA ScannedPinsWired == PinsOfDevices(FirstGap) \subseteq Wired
<1> SUFFICES ASSUME NEW p \in PinsOfDevices(FirstGap) PROVE p \in Wired
  OBVIOUS
<1>1. FirstGap \in Nat /\ 0..(FirstGap - 1) \subseteq Present
  BY BoardAssumption
<1>2. DeviceOf(p) \in Present
  BY <1>1, PinsOfDevicesBelow
<1> QED
  BY <1>2 DEF Wired, PinsOfDevices

\* A commit of the port of a pin whose chip listens copies exactly that port.
LEMMA CommitPort ==
  ASSUME NEW p \in Pin, DeviceOf(p) \in haen,
         NEW reg \in SUBSET Pin, NEW sh \in SUBSET Pin
  PROVE  Commit(reg, sh, {PortOf(p)}) =
           (reg \ PinsOf(PortOf(p))) \union (sh \intersect PinsOf(PortOf(p)))
  BY DEF Commit, PinsOf, DeviceOf

\* A commit to chips none of which listens changes nothing.
LEMMA CommitUnheard ==
  ASSUME haen = {}, NEW reg, NEW sh, NEW ports
  PROVE  Commit(reg, sh, ports) = reg
  BY DEF Commit
=============================================================================
