-------------------------- MODULE MCConfiguration --------------------------
(* A board of 16 pins, a chip of 8 and one of 6: the first file sets every  *)
(* key flashbin looks for, the second leaves most of them out and the third *)
(* gives absolute pin numbers.                                              *)
EXTENDS Configuration

Chip ==
    [PINS |-> <<8>>, DATA |-> <<4, 5, 8>>, ADDRESS |-> <<1, 2>>, VCC |-> <<6>>, GND |-> <<3>>,
     CE |-> <<7>>, WE |-> <<7, 1>>, ID |-> <<90>>, WRITE |-> <<40>>, ERASE |-> <<20>>, TSCE |-> <<5>>]
MCFiles == {Chip,
    [PINS |-> <<6>>, DATA |-> <<6, 3>>, OE |-> <<4, 0>>, WP |-> <<UNUSED, 0>>, WRITE |-> <<41>>],
    [PINS |-> <<0>>, ADDRESS |-> <<16, 1>>, ERASE |-> <<21>>]}
\* flashbin creates all its objects from one file.
MCFlashbin == {Chip}
=============================================================================
