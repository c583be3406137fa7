-------------------------------- MODULE Sram --------------------------------
(***************************************************************************)
(* The memories that hold the microcode, as wires to the debugger's pins.  *)
(* Their strobes are active low and pulled up where nothing drives them.   *)
(* While the debugger does not put an address on the lines the computer's  *)
(* state register may, and its content is not known here.                  *)
(***************************************************************************)
EXTENDS Pins

CONSTANTS
  Words,  \* the words that are programmed
  Image   \* what they shall hold: of each the bits that are set

Cells == 0 .. Words - 1

\* What a cell holds that has been written from undriven lines: no word.
Unknown == {24}

ASSUME WordsAssumption == Words \in 1 .. 1024
ASSUME ImageAssumption == Image \in [Cells -> SUBSET DataBits]

VARIABLE sram  \* the content of the cells

\* One bit of an address.
Weights == << 1, 2, 4, 8, 16, 32, 64, 128, 256, 512 >>
AddressBit(address, bit) == (address \div Weights[bit + 1]) % 2 = 1

Low(pin, outputs, levels) == pin \in outputs /\ pin \notin levels

\* Who drives the lines.
StateDrives(outputs, levels) == Low(StateOe, outputs, levels)
SramDrives(outputs, levels)  == Low(Oe, outputs, levels) /\ ~Low(We, outputs, levels)
AddressDriven(outputs, levels) ==
  AddressPins \subseteq outputs /\ ~StateDrives(outputs, levels)
DataDriven(outputs) == DataPins \subseteq outputs

\* The cells that the address lines may select.
Selected(outputs, levels) ==
  IF AddressDriven(outputs, levels)
  THEN { a \in Cells : \A b \in AddressBits : AddressBit(a, b) <=> AddressPin(b) \in levels }
  ELSE Cells

DataOn(levels) == { b \in DataBits : DataPin(b) \in levels }

\* The memories follow the lines as long as they are being written.
Follow(outputs, levels) ==
  [a \in Cells |->
     IF ~Low(We, outputs, levels) \/ a \notin Selected(outputs, levels) THEN sram[a]
     ELSE IF AddressDriven(outputs, levels) /\ DataDriven(outputs) THEN DataOn(levels)
     ELSE Unknown]

\* What the memories show on a data line: what the cell holds, or anything.
Shown(bit) ==
  { level \in BOOLEAN :
      \A a \in Selected(dir, latch) :
        SramDrives(dir, latch) /\ AddressDriven(dir, latch) /\ sram[a] # Unknown
          => level = (bit \in sram[a]) }
=============================================================================
