--------------------------- MODULE Configuration ---------------------------
(***************************************************************************)
(* The configuration of the Python library (configuration.py) as flashbin  *)
(* uses it: a program creates one Parallel object after another, each with *)
(* a configuration file, and calls its methods; every call packs hconfig.  *)
(*                                                                         *)
(* CONFIG is an attribute of the class: one dictionary for the life of the *)
(* program.  Pin numbers are converted in it, in place, at the first Pack  *)
(* of an object.  A file is a function from the keys it sets to lists.     *)
(***************************************************************************)
EXTENDS Integers, Sequences

CONSTANTS
    BoardPins,   \* the pin count the board reports
    Files,       \* the configuration files
    MaxObjects   \* the objects a program creates

UNUSED == 255
DefaultErase == <<60>>
ListKeys == {"ADDRESS", "DATA", "VCC", "GND"}
ControlKeys == {"CE", "WE", "RE", "OE", "BE", "BY", "WP", "RST"}
IndicatorKeys == {"WI", "RI"}
ShiftedKeys == ListKeys \union ControlKeys
PackedKeys == ShiftedKeys \union IndicatorKeys \union {"COMMANDS", "CMDELAY"}
Defaults ==
    [k \in PackedKeys \union {"PINS"} |->
        IF k \in ListKeys \union {"COMMANDS"} THEN <<>>
        ELSE IF k \in {"CMDELAY", "PINS"} THEN <<0>>
        ELSE <<UNUSED, 0>>]

\* The pins of a chip fit the board; a file that gives pins says of what chip.
ASSUME FilesAssumption ==
    /\ BoardPins \in 1..128 /\ MaxObjects \in Nat
    /\ \A f \in Files :
         /\ "PINS" \in DOMAIN f /\ Len(f["PINS"]) = 1 /\ f["PINS"][1] \in 0..BoardPins
         /\ \A k \in DOMAIN f \intersect ListKeys : f[k] \in Seq(1..BoardPins)
         /\ \A k \in DOMAIN f \intersect ControlKeys :
              Len(f[k]) \in {1, 2} /\ f[k][1] \in 1..BoardPins \union {UNUSED}

VARIABLES
    CONFIG,        \* the dictionary of the class
    pins_shifted,  \* of the current object
    package_pins,  \* of the current object
    file,          \* the file of the current object
    objects,       \* how many there were
    asked,         \* the commands the current object was told to use
    sent           \* what the last call packed, with its name

vars == <<CONFIG, pins_shifted, package_pins, file, objects, asked, sent>>

-----------------------------------------------------------------------------
(* Pin numbers.                                                            *)

Pin2Real(pin) == IF pin > 0 THEN pin - 1 ELSE pin

\* Mutant of Real: the conversion to index 0 is forgotten.
RealIndexOne(pin, package) ==
    IF pin = UNUSED THEN pin
    ELSE IF package > 0 /\ pin > package \div 2 THEN pin + (BoardPins - package) ELSE pin

\* Mutant of Real: UNUSED is converted like a pin.
RealUnusedToo(pin, package) ==
    Pin2Real(IF package > 0 /\ pin > package \div 2 THEN pin + (BoardPins - package) ELSE pin)

\* _pin2real: the pins of the right side of a chip are those at the end.
Real(pin, package) ==
    IF pin = UNUSED THEN pin
    ELSE Pin2Real(IF package > 0 /\ pin > package \div 2 THEN pin + (BoardPins - package) ELSE pin)

ConvertList(pins, package) == [i \in DOMAIN pins |-> Real(pins[i], package)]
ConvertControl(cp, package) ==
    IF Len(cp) = 0 THEN <<UNUSED, 0>>
    ELSE <<Real(cp[1], package), IF Len(cp) = 1 THEN 0 ELSE cp[2]>>
Convert(k, value, package) ==
    IF k \in ListKeys THEN ConvertList(value, package) ELSE ConvertControl(value, package)

-----------------------------------------------------------------------------
(* Setting the dictionary and packing it.                                  *)

Key == DOMAIN CONFIG

\* The keys of new replace those of old.
Updated(old, new) ==
    [k \in DOMAIN old \union DOMAIN new |-> IF k \in DOMAIN new THEN new[k] ELSE old[k]]

\* Mutant of Shifted: every Pack converts, pins_shifted is not looked at.
ShiftedAlways(config) ==
    [k \in DOMAIN config |->
        IF k \in ShiftedKeys THEN Convert(k, config[k], package_pins) ELSE config[k]]

\* _shift_pins
Shifted(config) ==
    [k \in DOMAIN config |->
        IF k \in ShiftedKeys /\ ~pins_shifted THEN Convert(k, config[k], package_pins) ELSE config[k]]

\* SetCommand with a key: nothing happens if there is none.
SetCommand(config, key) ==
    IF key \in DOMAIN config THEN [config EXCEPT !["COMMANDS"] = config[key]] ELSE config

Pack(name, config) ==
    /\ CONFIG' = Shifted(config)
    /\ pins_shifted' = TRUE
    /\ sent' = [call |-> name, keys |-> [k \in PackedKeys |-> CONFIG'[k]]]
    /\ UNCHANGED <<package_pins, file, objects>>

-----------------------------------------------------------------------------
(* The program.                                                            *)

Init ==
    /\ CONFIG = Defaults
    /\ pins_shifted = FALSE /\ package_pins = 0
    /\ file = <<>> /\ objects = 0 /\ asked = <<>>
    /\ sent = [call |-> "none"]

\* Mutant of New: the keys of the file do not replace those already there.
NewKeepsOld(f) ==
    /\ CONFIG' = Updated(f, CONFIG)
    /\ pins_shifted' = FALSE /\ package_pins' = CONFIG'["PINS"][1]
    /\ file' = f /\ objects < MaxObjects /\ objects' = objects + 1
    /\ asked' = IF "COMMANDS" \in DOMAIN f THEN f["COMMANDS"] ELSE <<>>
    /\ sent' = [call |-> "none"]

\* __init__ and _parse_config_file: the keys of the file replace those of the
\* dictionary; the others stay as the last object left them.
New(f) ==
    /\ CONFIG' = Updated(CONFIG, f)
    /\ pins_shifted' = FALSE /\ package_pins' = CONFIG'["PINS"][1]
    /\ file' = f /\ objects < MaxObjects /\ objects' = objects + 1
    /\ asked' = IF "COMMANDS" \in DOMAIN f THEN f["COMMANDS"] ELSE <<>>
    /\ sent' = [call |-> "none"]

\* The methods of NORFlash need an object.
HasObject == file # <<>>
Ask(key) == asked' = IF key \in DOMAIN file THEN file[key] ELSE asked

ReadChip ==
    /\ HasObject
    /\ Pack("ReadChip", CONFIG)
    /\ UNCHANGED asked

\* VendorID, ProductID
ReadID ==
    /\ HasObject
    /\ Pack("ReadID", SetCommand(CONFIG, "ID"))
    /\ Ask("ID")

\* Mutant of WriteChip: the write commands are not selected.
WriteChipPlain ==
    /\ HasObject
    /\ Pack("WriteChip", CONFIG)
    /\ Ask("WRITE")

WriteChip ==
    /\ HasObject
    /\ Pack("WriteChip", SetCommand(CONFIG, "WRITE"))
    /\ Ask("WRITE")

\* TSCE, the erase period, becomes the delay after the commands.
EraseChip ==
    /\ HasObject
    /\ LET delay == IF "TSCE" \in Key THEN CONFIG["TSCE"] ELSE DefaultErase
       IN  Pack("EraseChip", [SetCommand(CONFIG, "ERASE") EXCEPT !["CMDELAY"] = delay])
    /\ Ask("ERASE")

\* Close packs an EXIT configuration.
Exit ==
    /\ HasObject
    /\ Pack("Exit", CONFIG)
    /\ UNCHANGED asked

Next ==
    \/ \E f \in Files : New(f)
    \/ ReadChip \/ ReadID \/ WriteChip \/ EraseChip \/ Exit

Spec == Init /\ [][Next]_vars

-----------------------------------------------------------------------------
(* Properties                                                              *)

Packed == sent.call # "none"
Pinned == DOMAIN file \intersect ShiftedKeys

\* The pin keys of the object's own file keep their type, whatever objects came
\* before: such a pin always fits its byte of hconfig and is UNUSED only where
\* the file says so.  A key that the file leaves out still has the pins of an
\* earlier file; each object converts them once more, and nothing bounds them.
TypeOK ==
    /\ DOMAIN Defaults \subseteq Key
    /\ pins_shifted \in BOOLEAN /\ package_pins \in 0..BoardPins
    /\ file \in Files \union {<<>>} /\ objects \in 0..MaxObjects
    /\ HasObject => \A k \in Pinned \intersect ListKeys : CONFIG[k] \in Seq(0..UNUSED - 1)
    /\ HasObject => \A k \in Pinned \intersect ControlKeys :
         CONFIG[k][1] \in 0..UNUSED /\ (CONFIG[k][1] = UNUSED <=> file[k][1] = UNUSED)

\* What a call sends for a pin of the object's file is that pin converted once,
\* for the chip of that file, whatever calls and objects came before.
PinsConverted ==
    Packed => \A k \in Pinned : sent.keys[k] = Convert(k, file[k], file["PINS"][1])

\* A chip pin that exists goes to a board pin that exists, and two pins of the
\* chip never share one.
PinsDistinct ==
    Packed => \A k, l \in Pinned \intersect ListKeys :
        \A a \in DOMAIN file[k], b \in DOMAIN file[l] :
            file["PINS"][1] > 0 /\ file[k][a] <= file["PINS"][1] /\ file[l][b] <= file["PINS"][1] =>
                /\ sent.keys[k][a] \in 0..BoardPins - 1
                /\ sent.keys[k][a] = sent.keys[l][b] => file[k][a] = file[l][b]

SelectedBy == [WRITE |-> "WriteChip", ERASE |-> "EraseChip", ID |-> "ReadID"]

\* An erase, a write and an ID read send the commands of the object's file, in
\* whatever order they come.
OwnCommands ==
    \A key \in DOMAIN file \intersect DOMAIN SelectedBy :
        sent.call = SelectedBy[key] => sent.keys["COMMANDS"] = file[key]

\* configuration.py:87, "COMMANDS  A list of commands to be executed prior to a
\* read or write opration", by default none: a call sends the commands its
\* object was given, and not those of an object that is gone.
CommandsAsAsked == Packed => sent.keys["COMMANDS"] = asked
=============================================================================
