------------------------ MODULE Configuration_proofs ------------------------
(***************************************************************************)
(* Proofs about module Configuration, for every board, every set of files  *)
(* and any number of objects: a pin of the object's file is converted      *)
(* exactly once, and the conversion is one to one into the board's pins.   *)
(***************************************************************************)
EXTENDS Configuration, TLAPS

(* _pin2real of a chip of package pins, or of absolute numbers when package *)
(* is 0: the pins of the chip go to pins of the board, one to one.          *)

LEMMA RealOnBoard ==
    ASSUME NEW package \in Nat, package <= BoardPins,
           NEW pin \in 1..(IF package = 0 THEN BoardPins ELSE package)
    PROVE  Real(pin, package) \in 0..BoardPins - 1
<1>1. BoardPins \in 1..128
  BY FilesAssumption
<1>2. pin \in 1..BoardPins /\ pin # UNUSED
  BY <1>1 DEF UNUSED
<1>3. QED
  BY <1>1, <1>2 DEF Real, Pin2Real

LEMMA RealInjective ==
    ASSUME NEW package \in Nat, package <= BoardPins,
           NEW a \in 1..(IF package = 0 THEN BoardPins ELSE package),
           NEW b \in 1..(IF package = 0 THEN BoardPins ELSE package),
           Real(a, package) = Real(b, package)
    PROVE  a = b
<1>1. BoardPins \in 1..128 /\ a # UNUSED /\ b # UNUSED
  BY FilesAssumption DEF UNUSED
<1>2. QED
  BY <1>1 DEF Real, Pin2Real

-----------------------------------------------------------------------------
(* The inductive invariant: the dictionary holds the pins of the object's   *)
(* file, as the file gives them until the first Pack and converted from     *)
(* then on.  Keys the file does not set are not spoken of: they are what    *)
(* earlier objects left.                                                    *)

FileAdopted ==
    file # <<>> => file \in Files /\ package_pins = file["PINS"][1]

PinsHeld ==
    \A k \in Pinned :
        /\ k \in Key
        /\ CONFIG[k] = IF pins_shifted THEN Convert(k, file[k], package_pins) ELSE file[k]

HasDefaults == DOMAIN Defaults \subseteq Key

\* The commands of the object's file are in the dictionary under their keys.
CommandKeys == DOMAIN file \intersect DOMAIN SelectedBy
CommandsHeld == \A key \in CommandKeys : key \in Key /\ CONFIG[key] = file[key]

IInv == FileAdopted /\ PinsHeld /\ HasDefaults /\ PinsConverted /\ CommandsHeld /\ OwnCommands

LEMMA DefaultKeys ==
    /\ DOMAIN Defaults = PackedKeys \union {"PINS"}
    /\ "COMMANDS" \in PackedKeys
    /\ "COMMANDS" \notin ShiftedKeys /\ "CMDELAY" \notin ShiftedKeys
BY DEF Defaults, PackedKeys, ShiftedKeys, ListKeys, ControlKeys

LEMMA SelectedKeys ==
    /\ DOMAIN SelectedBy = {"WRITE", "ERASE", "ID"}
    /\ SelectedBy["WRITE"] = "WriteChip" /\ SelectedBy["ERASE"] = "EraseChip" /\ SelectedBy["ID"] = "ReadID"
    /\ DOMAIN SelectedBy \intersect ShiftedKeys = {}
BY DEF SelectedBy, ShiftedKeys, ListKeys, ControlKeys

LEMMA EmptyFile == DOMAIN <<>> = {}
OBVIOUS

LEMMA SeqElement ==
    ASSUME NEW S, NEW s \in Seq(S), NEW n \in DOMAIN s
    PROVE  s[n] \in S
OBVIOUS

(* A list with the places of another is a sequence of what it holds there. *)
LEMMA SeqSamePlaces ==
    ASSUME NEW S, NEW T, NEW s \in Seq(S)
    PROVE  /\ \A t \in [DOMAIN s -> T] : t \in Seq(T)
           /\ (\A n \in DOMAIN s : s[n] \in T) => s \in [DOMAIN s -> T]
OBVIOUS

LEMMA InitIInv == Init => IInv
<1> SUFFICES ASSUME Init PROVE IInv
  OBVIOUS
<1>1. Pinned = {}
  BY EmptyFile DEF Init, Pinned
<1>2. HasDefaults
  BY DEF Init, HasDefaults, Key
<1>3. FileAdopted /\ PinsHeld /\ PinsConverted
  BY <1>1 DEF Init, FileAdopted, PinsHeld, PinsConverted, Packed
<1>5. CommandsHeld /\ OwnCommands
  BY EmptyFile DEF Init, CommandsHeld, CommandKeys, OwnCommands
<1>4. QED
  BY <1>2, <1>3, <1>5 DEF IInv

(* What the calls change in the dictionary before they pack it. *)
SameButCommands(config) ==
    /\ DOMAIN config = Key
    /\ \A k \in (ShiftedKeys \union DOMAIN SelectedBy) \intersect Key : config[k] = CONFIG[k]

(* A call named after a key of the object's file sends its commands. *)
SelectsOwn(name, config) ==
    \A key \in CommandKeys : name = SelectedBy[key] => config["COMMANDS"] = file[key]

LEMMA SetCommandFrame ==
    ASSUME NEW key
    PROVE  SameButCommands(SetCommand(CONFIG, key))
BY DefaultKeys, SelectedKeys DEF SameButCommands, SetCommand, Key

LEMMA SetCommandSelects ==
    ASSUME IInv, NEW key \in DOMAIN SelectedBy
    PROVE  SelectsOwn(SelectedBy[key], SetCommand(CONFIG, key))
<1> SUFFICES ASSUME key \in CommandKeys
             PROVE  SetCommand(CONFIG, key)["COMMANDS"] = file[key]
  BY SelectedKeys DEF SelectsOwn, CommandKeys
<1>1. key \in DOMAIN CONFIG /\ CONFIG[key] = file[key]
  BY DEF IInv, CommandsHeld, Key
<1>2. "COMMANDS" \in DOMAIN CONFIG
  BY DefaultKeys DEF IInv, HasDefaults, Key
<1>3. QED
  BY <1>1, <1>2 DEF SetCommand

LEMMA PackStep ==
    ASSUME IInv, NEW name, NEW config, SameButCommands(config), SelectsOwn(name, config),
           Pack(name, config)
    PROVE  IInv'
<1>1. /\ CONFIG' = Shifted(config) /\ pins_shifted' = TRUE
      /\ package_pins' = package_pins /\ file' = file
      /\ sent' = [call |-> name, keys |-> [k \in PackedKeys |-> CONFIG'[k]]]
  BY DEF Pack
<1>2. DOMAIN CONFIG' = Key
  BY <1>1 DEF Shifted, SameButCommands
<1>3. Pinned' = Pinned
  BY <1>1 DEF Pinned
<1>4. FileAdopted'
  BY <1>1 DEF IInv, FileAdopted
<1>5. ASSUME NEW k \in Pinned
      PROVE  k \in Key /\ CONFIG'[k] = Convert(k, file[k], package_pins)
  <2>1. k \in Key /\ k \in ShiftedKeys /\ config[k] = CONFIG[k]
    BY <1>5 DEF IInv, PinsHeld, Pinned, SameButCommands
  <2>2. CONFIG'[k] = IF pins_shifted THEN config[k] ELSE Convert(k, config[k], package_pins)
    BY <1>1, <2>1 DEF Shifted, SameButCommands
  <2>3. CONFIG[k] = IF pins_shifted THEN Convert(k, file[k], package_pins) ELSE file[k]
    BY <1>5 DEF IInv, PinsHeld
  <2>4. QED
    BY <2>1, <2>2, <2>3
<1>6. PinsHeld'
  <2> SUFFICES ASSUME NEW k \in Pinned
               PROVE  k \in Key' /\ CONFIG'[k] = Convert(k, file[k], package_pins)
    BY <1>1, <1>3, Zenon DEF PinsHeld
  <2> QED
    BY <1>2, <1>5 DEF Key
<1>7. HasDefaults'
  BY <1>2 DEF IInv, HasDefaults, Key
<1>8. PinsConverted'
  <2> SUFFICES ASSUME NEW k \in Pinned
               PROVE  sent'.keys[k] = Convert(k, file[k], file["PINS"][1])
    BY <1>1, <1>3, Zenon DEF PinsConverted
  <2>1. k \in ShiftedKeys /\ k \in PackedKeys
    BY DEF Pinned, PackedKeys
  <2>2. sent'.keys[k] = CONFIG'[k]
    BY <1>1, <2>1
  <2>3. package_pins = file["PINS"][1]
    BY EmptyFile DEF IInv, FileAdopted, Pinned
  <2>4. QED
    BY <1>5, <2>2, <2>3
<1>9. CommandsHeld'
  <2> SUFFICES ASSUME NEW key \in CommandKeys PROVE key \in Key' /\ CONFIG'[key] = file[key]
    BY <1>1 DEF CommandsHeld, CommandKeys
  <2>1. key \in Key /\ key \notin ShiftedKeys /\ config[key] = file[key]
    BY SelectedKeys DEF IInv, CommandsHeld, CommandKeys, SameButCommands
  <2> QED
    BY <1>1, <1>2, <2>1 DEF Shifted, SameButCommands, Key
<1>10. OwnCommands'
  <2> SUFFICES ASSUME NEW key \in CommandKeys, name = SelectedBy[key]
               PROVE  sent'.keys["COMMANDS"] = file[key]
    BY <1>1 DEF OwnCommands, CommandKeys
  <2>1. config["COMMANDS"] = file[key]
    BY DEF SelectsOwn
  <2>2. "COMMANDS" \in DOMAIN config
    BY DefaultKeys DEF IInv, HasDefaults, SameButCommands, Key
  <2> QED
    BY <1>1, <2>1, <2>2, DefaultKeys DEF Shifted
<1>11. QED
  BY <1>4, <1>6, <1>7, <1>8, <1>9, <1>10 DEF IInv

LEMMA NewStep ==
    ASSUME IInv, NEW f \in Files, New(f)
    PROVE  IInv'
<1>1. /\ CONFIG' = Updated(CONFIG, f) /\ pins_shifted' = FALSE
      /\ package_pins' = CONFIG'["PINS"][1] /\ file' = f /\ sent' = [call |-> "none"]
  BY DEF New
<1>2. DOMAIN CONFIG' = DOMAIN f \union Key
  BY <1>1 DEF Updated, Key
<1>3. \A k \in DOMAIN f : CONFIG'[k] = f[k]
  BY <1>1 DEF Updated
<1>4. FileAdopted'
  BY <1>1, <1>3, FilesAssumption DEF FileAdopted
<1>5. PinsHeld'
  <2> SUFFICES ASSUME NEW k \in DOMAIN f \intersect ShiftedKeys
               PROVE  k \in Key' /\ CONFIG'[k] = f[k]
    BY <1>1, Zenon DEF PinsHeld, Pinned
  <2> QED
    BY <1>2, <1>3 DEF Key
<1>6. HasDefaults'
  BY <1>2 DEF IInv, HasDefaults, Key
<1>7. PinsConverted'
  BY <1>1 DEF PinsConverted, Packed
<1>8. CommandsHeld' /\ OwnCommands'
  <2>1. CommandsHeld'
    BY <1>1, <1>2, <1>3 DEF CommandsHeld, CommandKeys, Key
  <2>2. OwnCommands'
    BY <1>1, SelectedKeys DEF OwnCommands
  <2> QED
    BY <2>1, <2>2
<1>9. QED
  BY <1>4, <1>5, <1>6, <1>7, <1>8 DEF IInv

LEMMA NextIInv == IInv /\ [Next]_vars => IInv'
<1> SUFFICES ASSUME IInv, [Next]_vars PROVE IInv'
  OBVIOUS
<1>1. ASSUME NEW f \in Files, New(f) PROVE IInv'
  BY <1>1, NewStep
<1>2. CASE ReadChip \/ Exit
  <2>1. SameButCommands(CONFIG)
    BY DEF SameButCommands, Key
  <2>2. SelectsOwn("ReadChip", CONFIG) /\ SelectsOwn("Exit", CONFIG)
    BY SelectedKeys DEF SelectsOwn, CommandKeys
  <2>3. QED
    BY <1>2, <2>1, <2>2, PackStep DEF ReadChip, Exit
<1>3. CASE ReadID
  BY <1>3, SetCommandFrame, SetCommandSelects, SelectedKeys, PackStep DEF ReadID
<1>4. CASE WriteChip
  BY <1>4, SetCommandFrame, SetCommandSelects, SelectedKeys, PackStep DEF WriteChip
<1>5. CASE EraseChip
  <2> DEFINE delay == IF "TSCE" \in Key THEN CONFIG["TSCE"] ELSE DefaultErase
             config == [SetCommand(CONFIG, "ERASE") EXCEPT !["CMDELAY"] = delay]
  <2>1. Pack("EraseChip", config)
    BY <1>5 DEF EraseChip
  <2>2. SameButCommands(config)
    BY SetCommandFrame, DefaultKeys, SelectedKeys DEF SameButCommands
  <2>3. SelectsOwn("EraseChip", config)
    BY SetCommandSelects, SelectedKeys DEF SelectsOwn
  <2> HIDE DEF config
  <2>4. QED
    BY <2>1, <2>2, <2>3, PackStep
<1>6. CASE UNCHANGED vars
  BY <1>6
  DEF IInv, FileAdopted, PinsHeld, HasDefaults, PinsConverted, Pinned, Packed, Key, CommandsHeld, CommandKeys,
      OwnCommands, vars
<1>7. QED
  BY <1>1, <1>2, <1>3, <1>4, <1>5, <1>6 DEF Next

(* _shift_pins converts the pins of the object's file exactly once,         *)
(* whatever the calls and objects before left in the class's dictionary.    *)
THEOREM ConvertedOnce == Spec => []PinsConverted
<1>1. Init => IInv
  BY InitIInv
<1>2. IInv /\ [Next]_vars => IInv'
  BY NextIInv
<1>3. IInv => PinsConverted
  BY DEF IInv
<1>4. QED
  BY <1>1, <1>2, <1>3, PTL DEF Spec

(* No two pins of a chip share a pin of the board and none is off it,       *)
(* whatever _pin2real is given by the object's file.                        *)
THEOREM LinesDistinct == Spec => []PinsDistinct
<1>1. IInv => PinsDistinct
  <2> SUFFICES ASSUME IInv, Packed,
                      NEW k \in Pinned \intersect ListKeys, NEW l \in Pinned \intersect ListKeys
               PROVE  \A a \in DOMAIN file[k], b \in DOMAIN file[l] :
                        file["PINS"][1] > 0 /\ file[k][a] <= file["PINS"][1]
                            /\ file[l][b] <= file["PINS"][1] =>
                          /\ sent.keys[k][a] \in 0..BoardPins - 1
                          /\ sent.keys[k][a] = sent.keys[l][b] => file[k][a] = file[l][b]
    BY DEF PinsDistinct
  <2> TAKE a \in DOMAIN file[k], b \in DOMAIN file[l]
  <2> HAVE /\ file["PINS"][1] > 0
           /\ file[k][a] <= file["PINS"][1] /\ file[l][b] <= file["PINS"][1]
  <2> DEFINE package == file["PINS"][1]
  <2>1. file \in Files
    BY EmptyFile DEF IInv, FileAdopted, Pinned
  <2>2. package \in 0..BoardPins /\ BoardPins \in 1..128
    BY <2>1, FilesAssumption
  <2>3. file[k] \in Seq(1..BoardPins) /\ file[l] \in Seq(1..BoardPins)
    BY <2>1, FilesAssumption DEF Pinned
  <2>4. file[k][a] \in 1..BoardPins /\ file[l][b] \in 1..BoardPins
    BY <2>3, SeqElement
  <2>5. /\ sent.keys[k] = ConvertList(file[k], package)
        /\ sent.keys[l] = ConvertList(file[l], package)
    BY DEF IInv, PinsConverted, Convert
  <2>6. /\ sent.keys[k][a] = Real(file[k][a], package)
        /\ sent.keys[l][b] = Real(file[l][b], package)
    BY <2>5 DEF ConvertList
  <2> HIDE DEF package
  <2>7. package \in Nat /\ package <= BoardPins /\ package # 0
    BY <2>2 DEF package
  <2>8. file[k][a] \in 1..package /\ file[l][b] \in 1..package
    BY <2>4, <2>7 DEF package
  <2>9. QED
    BY <2>6, <2>7, <2>8, RealOnBoard, RealInjective
<1>2. QED
  BY InitIInv, NextIInv, <1>1, PTL DEF Spec

(* An erase, a write and an ID read send the commands of the object's file, *)
(* whatever SetCommand has left in COMMANDS before.                         *)
THEOREM CommandsOfObject == Spec => []OwnCommands
<1>1. IInv => OwnCommands
  BY DEF IInv
<1>2. QED
  BY InitIInv, NextIInv, <1>1, PTL DEF Spec

-----------------------------------------------------------------------------
(* The types, and the range of a pin number that has been converted.        *)

Counted == package_pins \in 0..BoardPins /\ objects \in 0..MaxObjects /\ (file # <<>> => file \in Files)
ShiftedFlag == pins_shifted \in BOOLEAN

LEMMA CountedInit == Init => Counted /\ ShiftedFlag
<1>1. Init => ShiftedFlag
  BY Zenon DEF Init, ShiftedFlag
<1>2. Init => Counted
  BY FilesAssumption DEF Init, Counted
<1>3. QED
  BY <1>1, <1>2

LEMMA CountedNext == Counted /\ ShiftedFlag /\ [Next]_vars => Counted' /\ ShiftedFlag'
<1> SUFFICES ASSUME Counted, ShiftedFlag, [Next]_vars PROVE Counted' /\ ShiftedFlag'
  OBVIOUS
<1>1. ShiftedFlag'
  <2>1. CASE pins_shifted' = TRUE \/ pins_shifted' = FALSE \/ pins_shifted' = pins_shifted
    BY <2>1, Zenon DEF ShiftedFlag
  <2>2. EraseChip => pins_shifted' = TRUE
    BY DEF EraseChip, Pack
  <2> QED
    BY <2>1, <2>2, Zenon DEF Next, New, ReadChip, ReadID, WriteChip, Exit, Pack, vars
<1>2. ASSUME NEW f \in Files, New(f) PROVE Counted'
  <2>1. package_pins' = f["PINS"][1] /\ file' = f /\ objects < MaxObjects /\ objects' = objects + 1
    BY <1>2, FilesAssumption DEF New, Updated
  <2>2. f["PINS"][1] \in 0..BoardPins /\ MaxObjects \in Nat
    BY FilesAssumption
  <2> QED
    BY <2>1, <2>2 DEF Counted
<1>3. CASE ReadChip \/ ReadID \/ WriteChip \/ EraseChip \/ Exit \/ UNCHANGED vars
  BY <1>1, <1>3 DEF Counted, ReadChip, ReadID, WriteChip, EraseChip, Exit, Pack, vars
<1>4. QED
  BY <1>1, <1>2, <1>3 DEF Next

LEMMA RealByte ==
    ASSUME NEW package \in 0..BoardPins, NEW pin \in 1..BoardPins
    PROVE  Real(pin, package) \in 0..UNUSED - 1 /\ pin \in 0..UNUSED - 1
<1>1. BoardPins \in 1..128
  BY FilesAssumption
<1>2. QED
  BY <1>1 DEF Real, Pin2Real, UNUSED

(* Every variable keeps its type; no pin outgrows its byte or becomes       *)
(* UNUSED, even one that is not a pin of its chip.                          *)
THEOREM Typing == Spec => []TypeOK
<1>1. IInv /\ Counted /\ ShiftedFlag => TypeOK
  <2> SUFFICES ASSUME IInv, Counted, ShiftedFlag PROVE TypeOK
    OBVIOUS
  <2>1. ASSUME HasObject, NEW k \in Pinned
        PROVE  /\ file \in Files /\ k \in DOMAIN file
               /\ CONFIG[k] = file[k] \/ CONFIG[k] = Convert(k, file[k], package_pins)
    BY <2>1 DEF IInv, PinsHeld, Counted, Pinned, HasObject
  <2>2. ASSUME HasObject, NEW k \in Pinned \intersect ListKeys PROVE CONFIG[k] \in Seq(0..UNUSED - 1)
    <3>1. file[k] \in Seq(1..BoardPins)
      BY <2>1, <2>2, FilesAssumption
    <3>2. ASSUME NEW n \in DOMAIN file[k]
          PROVE  file[k][n] \in 0..UNUSED - 1 /\ Real(file[k][n], package_pins) \in 0..UNUSED - 1
      <4>1. file[k][n] \in 1..BoardPins
        BY <3>1, SeqElement
      <4> QED
        BY <4>1, RealByte DEF Counted
    <3>3. file[k] \in Seq(0..UNUSED - 1) /\ ConvertList(file[k], package_pins) \in Seq(0..UNUSED - 1)
      <4> DEFINE bytes == 0..UNUSED - 1
      <4>1. \A n \in DOMAIN file[k] : file[k][n] \in bytes /\ Real(file[k][n], package_pins) \in bytes
        BY <3>2
      <4> HIDE DEF bytes
      <4>2. file[k] \in [DOMAIN file[k] -> bytes]
        BY <3>1, <4>1, SeqSamePlaces
      <4>3. ConvertList(file[k], package_pins) \in [DOMAIN file[k] -> bytes]
        BY <4>1 DEF ConvertList
      <4>4. file[k] \in Seq(bytes) /\ ConvertList(file[k], package_pins) \in Seq(bytes)
        BY <3>1, <4>2, <4>3, SeqSamePlaces
      <4> QED
        BY <4>4 DEF bytes
    <3> QED
      BY <2>1, <2>2, <3>3 DEF Convert
  <2>3. ASSUME HasObject, NEW k \in Pinned \intersect ControlKeys
        PROVE  CONFIG[k][1] \in 0..UNUSED /\ (CONFIG[k][1] = UNUSED <=> file[k][1] = UNUSED)
    <3>1. Len(file[k]) \in {1, 2} /\ file[k][1] \in 1..BoardPins \union {UNUSED}
      BY <2>1, <2>3, FilesAssumption
    <3>2. k \notin ListKeys
      BY <2>3 DEF ListKeys, ControlKeys
    <3>3. CONFIG[k][1] \in {file[k][1], Real(file[k][1], package_pins)}
      <4>1. ConvertControl(file[k], package_pins)[1] = Real(file[k][1], package_pins)
        BY <3>1 DEF ConvertControl
      <4>2. Convert(k, file[k], package_pins) = ConvertControl(file[k], package_pins)
        BY <3>2 DEF Convert
      <4> QED
        BY <2>1, <2>3, <4>1, <4>2
    <3>4. CASE file[k][1] = UNUSED
      BY <3>3, <3>4 DEF Real, UNUSED
    <3>5. CASE file[k][1] \in 1..BoardPins
      <4>1. Real(file[k][1], package_pins) \in 0..UNUSED - 1 /\ file[k][1] \in 0..UNUSED - 1
        BY <3>5, RealByte DEF Counted
      <4> QED
        BY <3>3, <4>1 DEF UNUSED
    <3> QED
      BY <3>1, <3>4, <3>5
  <2> QED
    BY <2>2, <2>3 DEF TypeOK, IInv, HasDefaults, Counted, ShiftedFlag
<1>2. QED
  BY InitIInv, NextIInv, CountedInit, CountedNext, <1>1, PTL DEF Spec
=============================================================================
