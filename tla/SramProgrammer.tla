--------------------------- MODULE SramProgrammer ---------------------------
(***************************************************************************)
(* The program that the operator uploads to write the microcode, as it     *)
(* stands in the logs of the debugger: which callbacks it calls, in what   *)
(* order.  A callback for the address or the data goes through its pins    *)
(* bit by bit, which the memories see.                                     *)
(***************************************************************************)
EXTENDS Sram

CONSTANT MaxFaults  \* a bound on programs that fail and boards that are reset

ASSUME MaxFaultsAssumption == MaxFaults \in Nat

VARIABLES
  phase,    \* the callback in progress, or "boot", "idle", or "done"
  bit,      \* the pin it has come to
  word,     \* the word that the program is at
  read,     \* the bits read so far, for a callback that reads
  differs,  \* a word or an address has been shown that is not as it should be
  faults    \* how many faults there have been

pins == << dir, latch >>
vars == << dir, latch, sram, phase, bit, word, read, differs, faults >>

\* gpio_init makes outputs of the strobes, in this order.
InitOrder == << Clock, We, Oe, BufferOe, StateOe >>

\* The first callbacks of the program, which put the strobes at rest.
Resting == << << BufferOe, TRUE >>, << StateOe, TRUE >>, << We, TRUE >>,
              << Oe, TRUE >>, << Clock, FALSE >> >>

Reading == {"point", "readAddress", "readData", "compare"}
Phases ==
  {"boot", "idle", "rest", "dataOut", "addressOut", "writeData", "writeAddress", "weLow",
   "echoAddress", "echoData", "weHigh", "dataIn", "oeLow", "oeHigh", "done"} \cup Reading

Init ==
  /\ dir = {} /\ latch = {}
  /\ sram = [a \in Cells |-> Unknown]
  /\ phase = "boot" /\ bit = 0 /\ word = 0 /\ read = {}
  /\ differs = FALSE /\ faults = 0

-----------------------------------------------------------------------------
(* The steps of callbacks.                                                 *)

\* The pins that a callback goes through.
Width(callback) ==
  CASE callback \in {"boot", "rest"} -> 5
    [] callback \in {"addressOut", "writeAddress", "echoAddress", "point", "readAddress"} -> 10
    [] callback \in {"dataOut", "writeData", "echoData", "dataIn", "readData", "compare"} -> 24
    [] OTHER -> 1

\* Mutant: the loop does not stop at the last pin.
TurnTooFar(next) ==
  IF bit < Width(phase) THEN bit' = bit + 1 /\ phase' = phase
  ELSE bit' = 0 /\ phase' = next
\* A loop over the pins, and what comes after.
Turn(next) ==
  IF bit + 1 < Width(phase) THEN bit' = bit + 1 /\ phase' = phase
  ELSE bit' = 0 /\ phase' = next

Set(pin, high) ==
  /\ latch' = Latched(pin, high) /\ dir' = dir
  /\ sram' = Follow(dir', latch')

Direct(pin, output) ==
  /\ dir' = Directed(pin, output) /\ latch' = latch
  /\ sram' = Follow(dir', latch')

\* The level of a pin is added to what has been read; after the last one the
\* whole is shown.
Get(pin, outside, expected) ==
  \E level \in Seen(pin, outside) :
    LET all == IF level THEN read \cup {bit} ELSE read
    IN  IF bit + 1 < Width(phase) THEN read' = all /\ differs' = differs
        ELSE read' = {} /\ differs' = (differs \/ all # expected)

\* callback_setMicrocodeDataDirection and callback_setMicrocodeAddressDirection.
SetDataDirection(output) == Direct(DataPin(bit), output)
SetAddressDirection(output) == Direct(AddressPin(bit), output)

\* callback_writeMicrocodeData and callback_writeMicrocodeAddress.
WriteData(data) == Set(DataPin(bit), bit \in data)
WriteAddress(address) == Set(AddressPin(bit), AddressBit(address, bit))

\* callback_readMicrocodeData and callback_readMicrocodeAddress.
ReadData == Get(DataPin(bit), Shown(bit), Image[word])
ReadAddress ==
  Get(AddressPin(bit), BOOLEAN, { b \in AddressBits : AddressBit(word, b) })

-----------------------------------------------------------------------------
(* The firmware's start, the program, and its faults.                      *)

GpioInit ==
  /\ phase = "boot" /\ Direct(InitOrder[bit + 1], TRUE) /\ Turn("idle")
  /\ UNCHANGED << word, read, differs, faults >>

Upload ==
  /\ phase = "idle" /\ phase' = "rest" /\ word' = 0
  /\ UNCHANGED << pins, sram, bit, read, differs, faults >>

\* One callback of the program that drives pins, and the next.
Drive(at, step, next) ==
  /\ phase = at /\ step /\ Turn(next)
  /\ UNCHANGED << word, read, differs, faults >>

\* One callback that reads pins.
Look(at, step, next) ==
  /\ phase = at /\ step /\ Turn(next)
  /\ UNCHANGED << pins, sram, word, faults >>

\* Mutant: the loop starts again after the last word.
RepeatForEver(first, next) == word' = (word + 1) % Words /\ phase' = first
\* The end of a turn of a loop over the words.
Repeat(first, next) ==
  IF word + 1 < Words THEN word' = word + 1 /\ phase' = first
  ELSE word' = 0 /\ phase' = next

Prepare ==
  \/ Drive("rest", Set(Resting[bit + 1][1], Resting[bit + 1][2]), "dataOut")
  \/ Drive("dataOut", SetDataDirection(TRUE), "addressOut")
  \/ Drive("addressOut", SetAddressDirection(TRUE), "writeData")

\* The word and its address, then a pulse of the strobe, during which the
\* program looks at the lines.
Write ==
  \/ Drive("writeData", WriteData(Image[word]), "writeAddress")
  \/ Drive("writeAddress", WriteAddress(word), "weLow")
  \/ Drive("weLow", Set(We, FALSE), "echoAddress")
  \/ Look("echoAddress", ReadAddress, "echoData")
  \/ Look("echoData", ReadData, "weHigh")

\* Mutant: the strobe is left low.
EndWriteLow ==
  /\ phase = "weHigh" /\ Set(We, FALSE) /\ Repeat("writeData", "dataIn")
  /\ UNCHANGED << bit, read, differs, faults >>
EndWrite ==
  /\ phase = "weHigh" /\ Set(We, TRUE) /\ Repeat("writeData", "dataIn")
  /\ UNCHANGED << bit, read, differs, faults >>

\* Mutant: the memories' outputs are enabled first.
TurnAroundLate ==
  \/ Drive("dataIn", Set(Oe, FALSE), "oeLow")
  \/ Drive("oeLow", SetDataDirection(FALSE), "point")
TurnAround ==
  \/ Drive("dataIn", SetDataDirection(FALSE), "oeLow")
  \/ Drive("oeLow", Set(Oe, FALSE), "point")

\* Each word is read twice: to be shown, and to be compared.
Check ==
  \/ Drive("point", WriteAddress(word), "readAddress")
  \/ Look("readAddress", ReadAddress, "readData")
  \/ Look("readData", ReadData, "compare")
  \/ Look("compare", bit < 23 /\ ReadData, "compare")

EndCheck ==
  /\ phase = "compare" /\ bit = 23 /\ ReadData /\ bit' = 0 /\ Repeat("point", "oeHigh")
  /\ UNCHANGED << pins, sram, faults >>

Conclude == Drive("oeHigh", Set(Oe, TRUE), "done")

\* The program stops with an error between two callbacks, and the operator
\* uploads it again: the pins stay as they are.
Fail ==
  /\ phase \notin {"boot", "idle", "done"} /\ bit = 0 /\ faults < MaxFaults
  /\ phase' = "idle" /\ faults' = faults + 1
  /\ UNCHANGED << pins, sram, bit, word, read, differs >>

\* The microcontroller is reset, as the instructions tell the operator to, and
\* the memories are not.
Reset ==
  /\ faults < MaxFaults /\ faults' = faults + 1
  /\ dir' = {} /\ latch' = {} /\ phase' = "boot" /\ bit' = 0 /\ word' = 0 /\ read' = {}
  /\ UNCHANGED << sram, differs >>

Work ==
  GpioInit \/ Upload \/ Prepare \/ Write \/ EndWrite \/ TurnAround \/ Check \/ EndCheck
    \/ Conclude
Next == Work \/ Fail \/ Reset

\* The firmware does not pause, and the operator uploads until the program has
\* come to its end.
Spec == Init /\ [][Next]_vars /\ WF_vars(Work)

-----------------------------------------------------------------------------
TypeOK ==
  /\ dir \subseteq AllPins /\ latch \subseteq AllPins
  /\ sram \in [Cells -> (SUBSET DataBits) \cup {Unknown}]
  /\ phase \in Phases /\ bit \in 0 .. Width(phase) - 1 /\ word \in Cells
  /\ read \subseteq DataBits /\ differs \in BOOLEAN
  /\ faults \in Nat /\ faults <= MaxFaults

(* No line has two drivers: the debugger's data pins are inputs whenever    *)
(* the memories put a word on the lines, and its address pins whenever the *)
(* computer's state register puts its state there, also while pins are     *)
(* turned around and when a program stops or the board is reset halfway.   *)
NothingFights ==
  /\ SramDrives(dir, latch) => dir \cap DataPins = {}
  /\ StateDrives(dir, latch) => dir \cap AddressPins = {}

(* Once the debugger has the address lines, a cell only ever changes to the *)
(* word it shall hold: none is hit while lines change one by one.          *)
OnlyMeantWrites ==
  [][AddressDriven(dir, latch) =>
       \A a \in Cells : sram'[a] # sram[a] => sram'[a] = Image[a]]_vars

(* When the program reads back what it wrote, and after it, the memories   *)
(* hold the microcode, and every word and address it shows is right.       *)
Programmed ==
  /\ phase \in Reading \cup {"oeHigh", "done"} => sram = Image
  /\ ~differs

(* After the last fault the program gets to its end.                       *)
Finishes == <>[](phase = "done")

=============================================================================
