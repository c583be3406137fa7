-------------------------------- MODULE Pins --------------------------------
(***************************************************************************)
(* The pins by which the debugger drives the microcode memories, and the   *)
(* registers of the microcontroller behind them: for every pin a direction *)
(* and the level that it has as an output.                                 *)
(***************************************************************************)
EXTENDS Naturals, Sequences

\* The pin of a port: a port has 32 bits.
Pin(port, pin) == (32 * port) + pin

\* The strobes.
Clock    == Pin(2, 9)
We       == Pin(0, 20)
Oe       == Pin(0, 19)
BufferOe == Pin(0, 8)
StateOe  == Pin(0, 9)
Strobes  == {Clock, We, Oe, BufferOe, StateOe}

\* microcodeAddressMapTable and microcodeDataMapTable, from bit 0.
AddressMapTable ==
  << Pin(0, 7), Pin(0, 6), Pin(0, 18), Pin(0, 17), Pin(0, 15),
     Pin(0, 16), Pin(4, 28), Pin(0, 24), Pin(0, 25), Pin(3, 26) >>

\* Mutant: the sixteenth bit is on the pin of the fifteenth.
DataMapTableTwice ==
  << Pin(2, 3), Pin(2, 2), Pin(2, 1), Pin(2, 0),
     Pin(0, 11), Pin(0, 10), Pin(2, 13), Pin(4, 29),
     Pin(2, 12), Pin(2, 11), Pin(2, 10), Pin(2, 8),
     Pin(2, 7), Pin(2, 6), Pin(2, 5), Pin(2, 5),
     Pin(0, 28), Pin(0, 27), Pin(0, 22), Pin(0, 21),
     Pin(0, 3), Pin(0, 2), Pin(1, 31), Pin(1, 30) >>
DataMapTable ==
  << Pin(2, 3), Pin(2, 2), Pin(2, 1), Pin(2, 0),
     Pin(0, 11), Pin(0, 10), Pin(2, 13), Pin(4, 29),
     Pin(2, 12), Pin(2, 11), Pin(2, 10), Pin(2, 8),
     Pin(2, 7), Pin(2, 6), Pin(2, 5), Pin(2, 4),
     Pin(0, 28), Pin(0, 27), Pin(0, 22), Pin(0, 21),
     Pin(0, 3), Pin(0, 2), Pin(1, 31), Pin(1, 30) >>

AddressBits == 0 .. 9
DataBits    == 0 .. 23
AddressPin(bit) == AddressMapTable[bit + 1]
DataPin(bit)    == DataMapTable[bit + 1]
AddressPins == { AddressPin(bit) : bit \in AddressBits }
DataPins    == { DataPin(bit) : bit \in DataBits }
AllPins     == Strobes \cup AddressPins \cup DataPins

-----------------------------------------------------------------------------
VARIABLES
  dir,   \* the pins that are outputs
  latch  \* the pins that are high, as outputs

\* Chip_GPIO_SetPinDIROutput and Chip_GPIO_SetPinDIRInput.
Directed(pin, output) == IF output THEN dir \cup {pin} ELSE dir \ {pin}

\* Chip_GPIO_SetPinState: a register to set bits and one to clear them.
Latched(pin, high) == IF high THEN latch \cup {pin} ELSE latch \ {pin}

\* Chip_GPIO_GetPinState: what a pin may be seen as, given what drives it from
\* outside.
Seen(pin, outside) == IF pin \in dir THEN {pin \in latch} ELSE outside
=============================================================================
