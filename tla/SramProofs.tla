----------------------------- MODULE SramProofs -----------------------------
(***************************************************************************)
(* Proofs about the programming of the microcode memories, for every       *)
(* microcode of up to 1024 words and any number of faults.                 *)
(***************************************************************************)
EXTENDS SramProgrammer, TLAPS

-----------------------------------------------------------------------------
(* The tables.                                                             *)

LEMMA AddressPinValues ==
  /\ AddressPin(0) = 7   /\ AddressPin(1) = 6   /\ AddressPin(2) = 18
  /\ AddressPin(3) = 17  /\ AddressPin(4) = 15  /\ AddressPin(5) = 16
  /\ AddressPin(6) = 156 /\ AddressPin(7) = 24  /\ AddressPin(8) = 25
  /\ AddressPin(9) = 122
  BY DEF AddressPin, AddressMapTable, Pin

LEMMA DataPinValues ==
  /\ DataPin(0) = 67  /\ DataPin(1) = 66  /\ DataPin(2) = 65  /\ DataPin(3) = 64
  /\ DataPin(4) = 11  /\ DataPin(5) = 10  /\ DataPin(6) = 77  /\ DataPin(7) = 157
  /\ DataPin(8) = 76  /\ DataPin(9) = 75  /\ DataPin(10) = 74 /\ DataPin(11) = 72
  /\ DataPin(12) = 71 /\ DataPin(13) = 70 /\ DataPin(14) = 69 /\ DataPin(15) = 68
  /\ DataPin(16) = 28 /\ DataPin(17) = 27 /\ DataPin(18) = 22 /\ DataPin(19) = 21
  /\ DataPin(20) = 3  /\ DataPin(21) = 2  /\ DataPin(22) = 63 /\ DataPin(23) = 62
  BY DEF DataPin, DataMapTable, Pin

LEMMA StrobeValues ==
  Clock = 73 /\ We = 20 /\ Oe = 19 /\ BufferOe = 8 /\ StateOe = 9
  BY DEF Clock, We, Oe, BufferOe, StateOe, Pin

(* No two bits of an address share a pin.                                  *)
LEMMA AddressPinsDiffer ==
  ASSUME NEW b \in AddressBits, NEW c \in AddressBits, AddressPin(b) = AddressPin(c)
  PROVE  b = c
  BY AddressPinValues DEF AddressBits

(* No two bits of a word share a pin.                                      *)
LEMMA DataPinsDiffer ==
  ASSUME NEW b \in DataBits, NEW c \in DataBits, DataPin(b) = DataPin(c)
  PROVE  b = c
  BY DataPinValues DEF DataBits

(* A pin of an address is no strobe and no pin of a word.                  *)
LEMMA AddressPinsApart ==
  ASSUME NEW b \in AddressBits
  PROVE  AddressPin(b) \notin Strobes /\ AddressPin(b) \notin DataPins
<1>1. AddressPin(b) \in {7, 6, 18, 17, 15, 16, 156, 24, 25, 122}
  BY AddressPinValues DEF AddressBits
<1>2. \A c \in DataBits : DataPin(c) \notin {7, 6, 18, 17, 15, 16, 156, 24, 25, 122}
  BY DataPinValues DEF DataBits
<1>3. QED BY <1>1, <1>2, StrobeValues DEF Strobes, DataPins

(* A pin of a word is no strobe and no pin of an address.                  *)
LEMMA DataPinsApart ==
  ASSUME NEW b \in DataBits
  PROVE  DataPin(b) \notin Strobes /\ DataPin(b) \notin AddressPins
<1>1. DataPin(b) \notin {73, 20, 19, 8, 9}
  BY DataPinValues DEF DataBits
<1>2. DataPin(b) \in DataPins
  BY DEF DataPins
<1>3. QED BY <1>1, <1>2, StrobeValues, AddressPinsApart DEF Strobes, AddressPins

Addresses == 0 .. 1023

(* Two addresses of ten bits that agree on them are the same.              *)
LEMMA AddressesDiffer ==
  \A a, c \in Addresses :
    (\A b \in AddressBits : AddressBit(a, b) <=> AddressBit(c, b)) => a = c
<1> SUFFICES ASSUME NEW a \in 0 .. 1023, NEW c \in 0 .. 1023,
                    \A b \in AddressBits : AddressBit(a, b) <=> AddressBit(c, b)
             PROVE  a = c
  BY Zenon DEF Addresses
<1>1. ASSUME NEW n \in 0 .. 1023
      PROVE  /\ n \div 1 = n /\ n \div 1024 = 0
             /\ n \div 1 = 2 * (n \div 2) + ((n \div 1) % 2)
             /\ n \div 2 = 2 * (n \div 4) + ((n \div 2) % 2)
             /\ n \div 4 = 2 * (n \div 8) + ((n \div 4) % 2)
             /\ n \div 8 = 2 * (n \div 16) + ((n \div 8) % 2)
             /\ n \div 16 = 2 * (n \div 32) + ((n \div 16) % 2)
             /\ n \div 32 = 2 * (n \div 64) + ((n \div 32) % 2)
             /\ n \div 64 = 2 * (n \div 128) + ((n \div 64) % 2)
             /\ n \div 128 = 2 * (n \div 256) + ((n \div 128) % 2)
             /\ n \div 256 = 2 * (n \div 512) + ((n \div 256) % 2)
             /\ n \div 512 = 2 * (n \div 1024) + ((n \div 512) % 2)
  <2>1. n \div 1 = 2 * (n \div 2) + ((n \div 1) % 2)
    BY SMTT(30)
  <2>2. n \div 2 = 2 * (n \div 4) + ((n \div 2) % 2)
    BY SMTT(30)
  <2>3. n \div 4 = 2 * (n \div 8) + ((n \div 4) % 2)
    BY SMTT(30)
  <2>4. n \div 8 = 2 * (n \div 16) + ((n \div 8) % 2)
    BY SMTT(30)
  <2>5. n \div 16 = 2 * (n \div 32) + ((n \div 16) % 2)
    BY SMTT(30)
  <2>6. n \div 32 = 2 * (n \div 64) + ((n \div 32) % 2)
    BY SMTT(30)
  <2>7. n \div 64 = 2 * (n \div 128) + ((n \div 64) % 2)
    BY SMTT(30)
  <2>8. n \div 128 = 2 * (n \div 256) + ((n \div 128) % 2)
    BY SMTT(30)
  <2>9. n \div 256 = 2 * (n \div 512) + ((n \div 256) % 2)
    BY SMTT(30)
  <2>10. n \div 512 = 2 * (n \div 1024) + ((n \div 512) % 2)
    BY SMTT(30)
  <2>11. n \div 1 = n /\ n \div 1024 = 0
    OBVIOUS
  <2>12. QED BY <2>1, <2>2, <2>3, <2>4, <2>5, <2>6, <2>7, <2>8, <2>9, <2>10, <2>11
<1>2. /\ (a \div 1) % 2 = (c \div 1) % 2
      /\ (a \div 2) % 2 = (c \div 2) % 2
      /\ (a \div 4) % 2 = (c \div 4) % 2
      /\ (a \div 8) % 2 = (c \div 8) % 2
      /\ (a \div 16) % 2 = (c \div 16) % 2
      /\ (a \div 32) % 2 = (c \div 32) % 2
      /\ (a \div 64) % 2 = (c \div 64) % 2
      /\ (a \div 128) % 2 = (c \div 128) % 2
      /\ (a \div 256) % 2 = (c \div 256) % 2
      /\ (a \div 512) % 2 = (c \div 512) % 2
  <2>1. (a \div 1) % 2 = (c \div 1) % 2
    <3>1. ((a \div 1) % 2 = 1) <=> ((c \div 1) % 2 = 1)
      BY DEF AddressBits, AddressBit, Weights
    <3>2. QED BY <3>1
  <2>2. (a \div 2) % 2 = (c \div 2) % 2
    <3>1. ((a \div 2) % 2 = 1) <=> ((c \div 2) % 2 = 1)
      BY DEF AddressBits, AddressBit, Weights
    <3>2. QED BY <3>1
  <2>3. (a \div 4) % 2 = (c \div 4) % 2
    <3>1. ((a \div 4) % 2 = 1) <=> ((c \div 4) % 2 = 1)
      BY DEF AddressBits, AddressBit, Weights
    <3>2. QED BY <3>1
  <2>4. (a \div 8) % 2 = (c \div 8) % 2
    <3>1. ((a \div 8) % 2 = 1) <=> ((c \div 8) % 2 = 1)
      BY DEF AddressBits, AddressBit, Weights
    <3>2. QED BY <3>1
  <2>5. (a \div 16) % 2 = (c \div 16) % 2
    <3>1. ((a \div 16) % 2 = 1) <=> ((c \div 16) % 2 = 1)
      BY DEF AddressBits, AddressBit, Weights
    <3>2. QED BY <3>1
  <2>6. (a \div 32) % 2 = (c \div 32) % 2
    <3>1. ((a \div 32) % 2 = 1) <=> ((c \div 32) % 2 = 1)
      BY DEF AddressBits, AddressBit, Weights
    <3>2. QED BY <3>1
  <2>7. (a \div 64) % 2 = (c \div 64) % 2
    <3>1. ((a \div 64) % 2 = 1) <=> ((c \div 64) % 2 = 1)
      BY DEF AddressBits, AddressBit, Weights
    <3>2. QED BY <3>1
  <2>8. (a \div 128) % 2 = (c \div 128) % 2
    <3>1. ((a \div 128) % 2 = 1) <=> ((c \div 128) % 2 = 1)
      BY DEF AddressBits, AddressBit, Weights
    <3>2. QED BY <3>1
  <2>9. (a \div 256) % 2 = (c \div 256) % 2
    <3>1. ((a \div 256) % 2 = 1) <=> ((c \div 256) % 2 = 1)
      BY DEF AddressBits, AddressBit, Weights
    <3>2. QED BY <3>1
  <2>10. (a \div 512) % 2 = (c \div 512) % 2
    <3>1. ((a \div 512) % 2 = 1) <=> ((c \div 512) % 2 = 1)
      BY DEF AddressBits, AddressBit, Weights
    <3>2. QED BY <3>1
  <2>11. QED BY <2>1, <2>2, <2>3, <2>4, <2>5, <2>6, <2>7, <2>8, <2>9, <2>10
<1>3. a \div 512 = c \div 512
  <2>1. a \div 512 = 2 * (a \div 1024) + ((a \div 512) % 2)
    BY <1>1
  <2>2. c \div 512 = 2 * (c \div 1024) + ((c \div 512) % 2)
    BY <1>1
  <2>3. a \div 1024 = c \div 1024
    BY <1>1
  <2>4. (a \div 512) % 2 = (c \div 512) % 2
    BY <1>2
  <2>5. QED BY <2>1, <2>2, <2>3, <2>4, Z3
<1>4. a \div 256 = c \div 256
  <2>1. a \div 256 = 2 * (a \div 512) + ((a \div 256) % 2)
    BY <1>1
  <2>2. c \div 256 = 2 * (c \div 512) + ((c \div 256) % 2)
    BY <1>1
  <2>3. a \div 512 = c \div 512
    BY <1>3
  <2>4. (a \div 256) % 2 = (c \div 256) % 2
    BY <1>2
  <2>5. QED BY <2>1, <2>2, <2>3, <2>4, Z3
<1>5. a \div 128 = c \div 128
  <2>1. a \div 128 = 2 * (a \div 256) + ((a \div 128) % 2)
    BY <1>1
  <2>2. c \div 128 = 2 * (c \div 256) + ((c \div 128) % 2)
    BY <1>1
  <2>3. a \div 256 = c \div 256
    BY <1>4
  <2>4. (a \div 128) % 2 = (c \div 128) % 2
    BY <1>2
  <2>5. QED BY <2>1, <2>2, <2>3, <2>4, Z3
<1>6. a \div 64 = c \div 64
  <2>1. a \div 64 = 2 * (a \div 128) + ((a \div 64) % 2)
    BY <1>1
  <2>2. c \div 64 = 2 * (c \div 128) + ((c \div 64) % 2)
    BY <1>1
  <2>3. a \div 128 = c \div 128
    BY <1>5
  <2>4. (a \div 64) % 2 = (c \div 64) % 2
    BY <1>2
  <2>5. QED BY <2>1, <2>2, <2>3, <2>4, Zenon
<1>7. a \div 32 = c \div 32
  <2>1. a \div 32 = 2 * (a \div 64) + ((a \div 32) % 2)
    BY <1>1
  <2>2. c \div 32 = 2 * (c \div 64) + ((c \div 32) % 2)
    BY <1>1
  <2>3. a \div 64 = c \div 64
    BY <1>6
  <2>4. (a \div 32) % 2 = (c \div 32) % 2
    BY <1>2
  <2>5. QED BY <2>1, <2>2, <2>3, <2>4, Zenon
<1>8. a \div 16 = c \div 16
  <2>1. a \div 16 = 2 * (a \div 32) + ((a \div 16) % 2)
    BY <1>1
  <2>2. c \div 16 = 2 * (c \div 32) + ((c \div 16) % 2)
    BY <1>1
  <2>3. a \div 32 = c \div 32
    BY <1>7
  <2>4. (a \div 16) % 2 = (c \div 16) % 2
    BY <1>2
  <2>5. QED BY <2>1, <2>2, <2>3, <2>4, Zenon
<1>9. a \div 8 = c \div 8
  <2>1. a \div 8 = 2 * (a \div 16) + ((a \div 8) % 2)
    BY <1>1
  <2>2. c \div 8 = 2 * (c \div 16) + ((c \div 8) % 2)
    BY <1>1
  <2>3. a \div 16 = c \div 16
    BY <1>8
  <2>4. (a \div 8) % 2 = (c \div 8) % 2
    BY <1>2
  <2>5. QED BY <2>1, <2>2, <2>3, <2>4, Zenon
<1>10. a \div 4 = c \div 4
  <2>1. a \div 4 = 2 * (a \div 8) + ((a \div 4) % 2)
    BY <1>1
  <2>2. c \div 4 = 2 * (c \div 8) + ((c \div 4) % 2)
    BY <1>1
  <2>3. a \div 8 = c \div 8
    BY <1>9
  <2>4. (a \div 4) % 2 = (c \div 4) % 2
    BY <1>2
  <2>5. QED BY <2>1, <2>2, <2>3, <2>4, Zenon
<1>11. a \div 2 = c \div 2
  <2>1. a \div 2 = 2 * (a \div 4) + ((a \div 2) % 2)
    BY <1>1
  <2>2. c \div 2 = 2 * (c \div 4) + ((c \div 2) % 2)
    BY <1>1
  <2>3. a \div 4 = c \div 4
    BY <1>10
  <2>4. (a \div 2) % 2 = (c \div 2) % 2
    BY <1>2
  <2>5. QED BY <2>1, <2>2, <2>3, <2>4, Zenon
<1>12. a \div 1 = c \div 1
  <2>1. a \div 1 = 2 * (a \div 2) + ((a \div 1) % 2)
    BY <1>1
  <2>2. c \div 1 = 2 * (c \div 2) + ((c \div 1) % 2)
    BY <1>1
  <2>3. a \div 2 = c \div 2
    BY <1>11
  <2>4. (a \div 1) % 2 = (c \div 1) % 2
    BY <1>2
  <2>5. QED BY <2>1, <2>2, <2>3, <2>4, Zenon
<1>13. QED BY <1>1, <1>12

-----------------------------------------------------------------------------
(* The memories.                                                           *)

(* What is on the lines is meant: if it is written, it is the word of every *)
(* cell that is selected.                                                  *)
Meant(outputs, levels) ==
  Low(We, outputs, levels) /\ AddressPins \subseteq outputs =>
    /\ DataPins \subseteq outputs
    /\ \A a \in Cells :
         (\A b \in AddressBits : AddressBit(a, b) <=> AddressPin(b) \in levels)
           => DataOn(levels) = Image[a]

Contents == [Cells -> (SUBSET DataBits) \cup {Unknown}]

(* Following the lines the memories hold words, or what is unknown.        *)
LEMMA FollowType ==
  ASSUME sram \in Contents, NEW outputs, NEW levels
  PROVE  Follow(outputs, levels) \in Contents
<1>1. DataOn(levels) \in SUBSET DataBits
  BY DEF DataOn
<1>2. QED BY <1>1 DEF Follow, Contents

(* While the write strobe is not low they keep what they hold.             *)
LEMMA FollowKeeps ==
  ASSUME sram \in Contents, NEW outputs, NEW levels, ~Low(We, outputs, levels)
  PROVE  Follow(outputs, levels) = sram
BY DEF Follow, Contents

(* While what is on the lines is meant, a cell keeps its content or gets   *)
(* the word it shall hold.                                                 *)
LEMMA FollowMeant ==
  ASSUME sram \in Contents, NEW outputs, NEW levels,
         Meant(outputs, levels), AddressDriven(outputs, levels), NEW a \in Cells
  PROVE  Follow(outputs, levels)[a] \in {sram[a], Image[a]}
<1>1. CASE ~Low(We, outputs, levels) \/ a \notin Selected(outputs, levels)
  BY <1>1 DEF Follow
<1>2. CASE Low(We, outputs, levels) /\ a \in Selected(outputs, levels)
  <2>1. DataDriven(outputs) /\ DataOn(levels) = Image[a]
    BY <1>2 DEF Meant, AddressDriven, DataDriven, Selected
  <2>2. QED BY <1>2, <2>1 DEF Follow
<1>3. QED BY <1>1, <1>2

(* A cell with its address on the lines gets the word that is on them.     *)
LEMMA FollowWrites ==
  ASSUME NEW outputs, NEW levels, Low(We, outputs, levels),
         AddressDriven(outputs, levels), DataDriven(outputs), NEW a \in Cells,
         \A b \in AddressBits : AddressBit(a, b) <=> AddressPin(b) \in levels
  PROVE  Follow(outputs, levels)[a] = DataOn(levels)
<1>1. a \in Selected(outputs, levels)
  BY DEF Selected
<1>2. QED BY <1>1 DEF Follow

(* The address of one cell on the lines selects that cell and no other.    *)
LEMMA OneSelected ==
  ASSUME NEW levels, NEW a \in Cells, NEW c \in Cells,
         \A b \in AddressBits : AddressBit(a, b) <=> AddressPin(b) \in levels,
         \A b \in AddressBits : AddressBit(c, b) <=> AddressPin(b) \in levels
  PROVE  a = c
<1>1. a \in Addresses /\ c \in Addresses
  BY WordsAssumption DEF Cells, Addresses
<1>2. \A b \in AddressBits : AddressBit(a, b) <=> AddressBit(c, b)
  OBVIOUS
<1>3. QED BY <1>1, <1>2, AddressesDiffer, Zenon

-----------------------------------------------------------------------------
(* The inductive invariant: what the pins are, phase by phase.             *)

Early   == {"boot", "idle", "rest"}
Pulse   == {"echoAddress", "echoData", "weHigh"}
Writing == {"writeData", "writeAddress", "weLow"} \cup Pulse
Turning == {"dataIn", "oeLow"}

(* The strobes are outputs, from gpio_init on.                             *)
StrobesOut ==
  /\ phase = "boot" => dir \subseteq Strobes /\ \A i \in 1 .. bit : InitOrder[i] \in dir
  /\ phase # "boot" => Strobes \subseteq dir

(* Which strobes are at rest, where.                                       *)
Quiet ==
  /\ dir \cap DataPins # {} => Oe \in latch
  /\ dir \cap AddressPins # {} => StateOe \in latch
  /\ phase = "rest" => /\ bit > 1 => StateOe \in latch
                       /\ bit > 2 => We \in latch
                       /\ bit > 3 => Oe \in latch
  /\ phase \notin Early => StateOe \in latch
  /\ phase \notin Early \cup Pulse => We \in latch
  /\ phase \in {"dataOut", "addressOut"} \cup Writing \cup Turning => Oe \in latch
  /\ phase \in Reading => Oe \notin latch

(* Which pins have been turned.                                            *)
Turned ==
  /\ phase = "dataOut" => \A b \in DataBits : b < bit => DataPin(b) \in dir
  /\ phase \in {"addressOut"} \cup Writing => \A b \in DataBits : DataPin(b) \in dir
  /\ phase = "addressOut" => \A b \in AddressBits : b < bit => AddressPin(b) \in dir
  /\ phase \in Writing \cup Turning \cup Reading => \A b \in AddressBits : AddressPin(b) \in dir
  /\ phase = "dataIn" => \A b \in DataBits : b < bit => DataPin(b) \notin dir
  /\ phase \in {"oeLow"} \cup Reading => \A b \in DataBits : DataPin(b) \notin dir

(* Which word and which address are on the pins.                           *)
OnPins ==
  /\ phase \in {"rest", "dataOut", "addressOut"} => word = 0
  /\ phase = "writeData" =>
       \A b \in DataBits : b < bit => (DataPin(b) \in latch <=> b \in Image[word])
  /\ phase \in Writing \ {"writeData"} =>
       \A b \in DataBits : DataPin(b) \in latch <=> b \in Image[word]
  /\ phase \in {"writeAddress", "point"} =>
       \A b \in AddressBits : b < bit => (AddressPin(b) \in latch <=> AddressBit(word, b))
  /\ phase \in {"weLow"} \cup Pulse \cup (Reading \ {"point"}) =>
       \A b \in AddressBits : AddressPin(b) \in latch <=> AddressBit(word, b)

(* Which cells hold their word.                                            *)
Stored ==
  /\ phase \in {"writeData", "writeAddress", "weLow"} =>
       \A a \in Cells : a < word => sram[a] = Image[a]
  /\ phase \in Pulse => \A a \in Cells : a <= word => sram[a] = Image[a]
  /\ phase \in Turning \cup Reading \cup {"oeHigh", "done"} =>
       \A a \in Cells : sram[a] = Image[a]

(* What has been read so far.                                              *)
SoFar ==
  /\ read = IF phase \in {"echoAddress", "readAddress"}
            THEN { b \in AddressBits : b < bit /\ AddressBit(word, b) }
            ELSE IF phase \in {"echoData", "readData", "compare"}
            THEN { b \in DataBits : b < bit /\ b \in Image[word] }
            ELSE {}
  /\ ~differs

IInv ==
  TypeOK /\ StrobesOut /\ Quiet /\ Turned /\ OnPins /\ Meant(dir, latch) /\ Stored /\ SoFar

-----------------------------------------------------------------------------
(* Steps of callbacks.                                                     *)

(* How many pins each callback goes through.                               *)
LEMMA Widths ==
  /\ Width("boot") = 5 /\ Width("rest") = 5
  /\ \A p \in {"addressOut", "writeAddress", "echoAddress", "point", "readAddress"} :
       Width(p) = 10
  /\ \A p \in {"dataOut", "writeData", "echoData", "dataIn", "readData", "compare"} :
       Width(p) = 24
  /\ \A p \in {"idle", "weLow", "weHigh", "oeLow", "oeHigh", "done"} : Width(p) = 1
BY DEF Width

(* A word is none that is unknown.                                         *)
LEMMA ImageWords ==
  ASSUME NEW a \in Cells
  PROVE  Image[a] \in SUBSET DataBits /\ Image[a] # Unknown
BY ImageAssumption DEF Unknown, DataBits

(* The strobes of the program's first callbacks.                           *)
LEMMA RestingPins ==
  ASSUME NEW b \in 0 .. 4
  PROVE  /\ Resting[b + 1][1] \in Strobes
         /\ Resting[b + 1][1] = StateOe <=> b = 1
         /\ Resting[b + 1][1] = We <=> b = 2
         /\ Resting[b + 1][1] = Oe <=> b = 3
         /\ b < 4 => Resting[b + 1][2] = TRUE
         /\ b = 4 => Resting[b + 1][2] = FALSE
<1>1. /\ Resting[1][1] = BufferOe /\ Resting[2][1] = StateOe /\ Resting[3][1] = We
      /\ Resting[4][1] = Oe /\ Resting[5][1] = Clock
      /\ Resting[1][2] = TRUE /\ Resting[2][2] = TRUE /\ Resting[3][2] = TRUE
      /\ Resting[4][2] = TRUE /\ Resting[5][2] = FALSE
  BY DEF Resting
<1>2. b = 0 \/ b = 1 \/ b = 2 \/ b = 3 \/ b = 4
  OBVIOUS
<1>3. Resting[b + 1][1] \in Strobes
  BY <1>1, <1>2 DEF Strobes
<1>4. /\ Resting[b + 1][1] = StateOe <=> b = 1
      /\ Resting[b + 1][1] = We <=> b = 2
      /\ Resting[b + 1][1] = Oe <=> b = 3
  BY <1>1, <1>2, StrobeValues
<1>5. b < 4 => Resting[b + 1][2] = TRUE
  BY <1>1, <1>2
<1>6. b = 4 => Resting[b + 1][2] = FALSE
  BY <1>1, <1>2
<1>7. QED BY <1>3, <1>4, <1>5, <1>6

(* A pin is set, and the others stay.                                      *)
LEMMA SetPins ==
  ASSUME TypeOK, NEW pin \in AllPins, NEW high \in BOOLEAN, Set(pin, high)
  PROVE  /\ dir' = dir /\ latch' \subseteq AllPins
         /\ pin \in latch' <=> high
         /\ \A other : other # pin => (other \in latch' <=> other \in latch)
         /\ sram' = Follow(dir', latch') /\ sram' \in Contents
<1>1. sram' \in Contents
  BY FollowType DEF TypeOK, Contents, Set
<1>2. QED BY <1>1 DEF TypeOK, Set, Latched

(* A pin is turned, and the others stay.                                   *)
LEMMA DirectPins ==
  ASSUME TypeOK, NEW pin \in AllPins, NEW output \in BOOLEAN, Direct(pin, output)
  PROVE  /\ latch' = latch /\ dir' \subseteq AllPins
         /\ pin \in dir' <=> output
         /\ \A other : other # pin => (other \in dir' <=> other \in dir)
         /\ sram' = Follow(dir', latch') /\ sram' \in Contents
<1>1. sram' \in Contents
  BY FollowType DEF TypeOK, Contents, Direct
<1>2. QED BY <1>1 DEF TypeOK, Direct, Directed

(* The pins by kind.                                                       *)
LEMMA PinKinds ==
  /\ \A b \in AddressBits : AddressPin(b) \in AddressPins /\ AddressPin(b) \in AllPins
  /\ \A b \in DataBits : DataPin(b) \in DataPins /\ DataPin(b) \in AllPins
  /\ Strobes \subseteq AllPins
  /\ Strobes \cap AddressPins = {} /\ Strobes \cap DataPins = {}
  /\ AddressPins \cap DataPins = {}
  /\ {Clock, We, Oe, BufferOe, StateOe} \subseteq Strobes
<1>1. Strobes \cap AddressPins = {} /\ AddressPins \cap DataPins = {}
  BY AddressPinsApart DEF AddressPins
<1>2. Strobes \cap DataPins = {}
  BY DataPinsApart DEF DataPins
<1>3. QED BY <1>1, <1>2 DEF AddressPins, DataPins, AllPins, Strobes

(* No two strobes share a pin.                                             *)
LEMMA StrobesDiffer ==
  /\ We # Oe /\ We # StateOe /\ Oe # StateOe
  /\ Clock \notin {We, Oe, StateOe} /\ BufferOe \notin {We, Oe, StateOe}
BY StrobeValues

(* The data pins are made outputs.                                         *)
LEMMA DataOutStep ==
  ASSUME IInv, Drive("dataOut", SetDataDirection(TRUE), "addressOut")
  PROVE  IInv'
<1>1. phase = "dataOut" /\ bit \in DataBits /\ TypeOK
  BY Widths DEF IInv, TypeOK, Drive, DataBits
<1>2. \/ bit + 1 < 24 /\ bit' = bit + 1 /\ phase' = "dataOut"
      \/ bit = 23 /\ bit' = 0 /\ phase' = "addressOut"
  BY <1>1, Widths DEF Drive, Turn, DataBits
<1>3. UNCHANGED << word, read, differs, faults >>
  BY DEF Drive
<1>4. /\ latch' = latch /\ dir' \subseteq AllPins
      /\ DataPin(bit) \in dir'
      /\ \A other : other # DataPin(bit) => (other \in dir' <=> other \in dir)
      /\ sram' = Follow(dir', latch') /\ sram' \in Contents
  BY <1>1, DirectPins, PinKinds DEF Drive, SetDataDirection
<1>5. sram' = sram
  BY <1>1, <1>4, FollowKeeps, PinKinds, StrobesDiffer
     DEF IInv, Quiet, Low, Early, Pulse, TypeOK, Contents
<1>6. TypeOK'
  BY <1>1, <1>2, <1>3, <1>4, Widths DEF TypeOK, Contents, Phases, Reading
<1>7. StrobesOut'
  BY <1>1, <1>2, <1>4, PinKinds DEF IInv, StrobesOut
<1>8. Quiet'
  BY <1>1, <1>2, <1>4, PinKinds, StrobesDiffer DEF IInv, Quiet, Early, Pulse, Writing, Turning, Reading
<1>9. Turned'
  <2>1. \A b \in DataBits : b <= bit => DataPin(b) \in dir'
    <3> SUFFICES ASSUME NEW b \in DataBits, b <= bit PROVE DataPin(b) \in dir'
      OBVIOUS
    <3>1. CASE b = bit
      BY <3>1, <1>4
    <3>2. CASE b < bit
      <4>1. DataPin(b) \in dir
        BY <1>1, <3>2 DEF IInv, Turned
      <4>2. DataPin(b) # DataPin(bit)
        BY <1>1, <3>2, DataPinsDiffer DEF DataBits
      <4>3. QED BY <1>4, <4>1, <4>2
    <3>3. QED BY <3>1, <3>2, <1>1 DEF DataBits
  <2>2. QED BY <1>1, <1>2, <2>1 DEF Turned, Pulse, Writing, Turning, Reading, DataBits, AddressBits
<1>10. OnPins' /\ Stored' /\ SoFar'
  BY <1>1, <1>2, <1>3, <1>4, <1>5
     DEF IInv, OnPins, Stored, SoFar, Pulse, Writing, Turning, Reading
<1>11. Meant(dir', latch')
  BY <1>1, <1>4 DEF IInv, Quiet, Meant, Low, Early, Pulse
<1>12. QED BY <1>6, <1>7, <1>8, <1>9, <1>10, <1>11 DEF IInv

(* The address pins are made outputs.                                      *)
LEMMA AddressOutStep ==
  ASSUME IInv, Drive("addressOut", SetAddressDirection(TRUE), "writeData")
  PROVE  IInv'
<1>1. phase = "addressOut" /\ bit \in AddressBits /\ TypeOK
  BY Widths DEF IInv, TypeOK, Drive, AddressBits
<1>2. \/ bit + 1 < 10 /\ bit' = bit + 1 /\ phase' = "addressOut"
      \/ bit = 9 /\ bit' = 0 /\ phase' = "writeData"
  BY <1>1, Widths DEF Drive, Turn, AddressBits
<1>3. UNCHANGED << word, read, differs, faults >>
  BY DEF Drive
<1>4. /\ latch' = latch /\ dir' \subseteq AllPins
      /\ AddressPin(bit) \in dir'
      /\ \A other : other # AddressPin(bit) => (other \in dir' <=> other \in dir)
      /\ sram' = Follow(dir', latch') /\ sram' \in Contents
  BY <1>1, DirectPins, PinKinds DEF Drive, SetAddressDirection
<1>5. sram' = sram
  BY <1>1, <1>4, FollowKeeps, PinKinds, StrobesDiffer
     DEF IInv, Quiet, Low, Early, Pulse, TypeOK, Contents
<1>6. TypeOK'
  BY <1>1, <1>2, <1>3, <1>4, Widths DEF TypeOK, Contents, Phases, Reading
<1>7. StrobesOut'
  BY <1>1, <1>2, <1>4, PinKinds DEF IInv, StrobesOut
<1>8. Quiet'
  BY <1>1, <1>2, <1>4, PinKinds, StrobesDiffer DEF IInv, Quiet, Early, Pulse, Writing, Turning, Reading
<1>9. Turned'
  <2>1. \A b \in AddressBits : b <= bit => AddressPin(b) \in dir'
    <3> SUFFICES ASSUME NEW b \in AddressBits, b <= bit
                 PROVE AddressPin(b) \in dir'
      OBVIOUS
    <3>1. CASE b = bit
      BY <3>1, <1>4
    <3>2. CASE b < bit
      <4>1. AddressPin(b) \in dir
        BY <1>1, <3>2 DEF IInv, Turned
      <4>2. AddressPin(b) # AddressPin(bit)
        BY <1>1, <3>2, AddressPinsDiffer DEF AddressBits
      <4>3. QED BY <1>4, <4>1, <4>2
    <3>3. QED BY <3>1, <3>2, <1>1 DEF AddressBits
  <2>2. \A b \in DataBits : DataPin(b) \in dir'
    BY <1>1, <1>4, PinKinds DEF IInv, Turned
  <2>3. QED BY <1>1, <1>2, <2>1, <2>2 DEF Turned, Pulse, Writing, Turning, Reading, AddressBits
<1>10. OnPins' /\ Stored' /\ SoFar'
  BY <1>1, <1>2, <1>3, <1>4, <1>5
     DEF IInv, OnPins, Stored, SoFar, Pulse, Writing, Turning, Reading, Cells, DataBits
<1>11. Meant(dir', latch')
  BY <1>1, <1>4 DEF IInv, Quiet, Meant, Low, Early, Pulse
<1>12. QED BY <1>6, <1>7, <1>8, <1>9, <1>10, <1>11 DEF IInv

(* The data pins are made inputs.                                          *)
LEMMA DataInStep ==
  ASSUME IInv, Drive("dataIn", SetDataDirection(FALSE), "oeLow")
  PROVE  IInv'
<1>1. phase = "dataIn" /\ bit \in DataBits /\ TypeOK
  BY Widths DEF IInv, TypeOK, Drive, DataBits
<1>2. \/ bit + 1 < 24 /\ bit' = bit + 1 /\ phase' = "dataIn"
      \/ bit = 23 /\ bit' = 0 /\ phase' = "oeLow"
  BY <1>1, Widths DEF Drive, Turn, DataBits
<1>3. UNCHANGED << word, read, differs, faults >>
  BY DEF Drive
<1>4. /\ latch' = latch /\ dir' \subseteq AllPins
      /\ DataPin(bit) \notin dir'
      /\ \A other : other # DataPin(bit) => (other \in dir' <=> other \in dir)
      /\ sram' = Follow(dir', latch') /\ sram' \in Contents
  BY <1>1, DirectPins, PinKinds DEF Drive, SetDataDirection
<1>5. sram' = sram
  BY <1>1, <1>4, FollowKeeps, PinKinds, StrobesDiffer
     DEF IInv, Quiet, Low, Early, Pulse, TypeOK, Contents
<1>6. TypeOK'
  BY <1>1, <1>2, <1>3, <1>4, Widths DEF TypeOK, Contents, Phases, Reading
<1>7. StrobesOut'
  BY <1>1, <1>2, <1>4, PinKinds DEF IInv, StrobesOut
<1>8. Quiet'
  BY <1>1, <1>2, <1>4, PinKinds, StrobesDiffer DEF IInv, Quiet, Early, Pulse, Writing, Turning, Reading
<1>9. Turned'
  <2>1. \A b \in DataBits : b <= bit => DataPin(b) \notin dir'
    <3> SUFFICES ASSUME NEW b \in DataBits, b <= bit PROVE DataPin(b) \notin dir'
      OBVIOUS
    <3>1. CASE b = bit
      BY <3>1, <1>4
    <3>2. CASE b < bit
      <4>1. DataPin(b) \notin dir
        BY <1>1, <3>2 DEF IInv, Turned
      <4>2. DataPin(b) # DataPin(bit)
        BY <1>1, <3>2, DataPinsDiffer DEF DataBits
      <4>3. QED BY <1>4, <4>1, <4>2
    <3>3. QED BY <3>1, <3>2, <1>1 DEF DataBits
  <2>2. \A b \in AddressBits : AddressPin(b) \in dir'
    BY <1>1, <1>4, PinKinds DEF IInv, Turned, Turning
  <2>3. QED BY <1>1, <1>2, <2>1, <2>2 DEF Turned, Pulse, Writing, Turning, Reading, DataBits
<1>10. OnPins' /\ Stored' /\ SoFar'
  BY <1>1, <1>2, <1>3, <1>4, <1>5
     DEF IInv, OnPins, Stored, SoFar, Pulse, Writing, Turning, Reading
<1>11. Meant(dir', latch')
  BY <1>1, <1>4 DEF IInv, Quiet, Meant, Low, Early, Pulse
<1>12. QED BY <1>6, <1>7, <1>8, <1>9, <1>10, <1>11 DEF IInv

(* The word is put on the data pins.                                       *)
LEMMA WriteDataStep ==
  ASSUME IInv, Drive("writeData", WriteData(Image[word]), "writeAddress")
  PROVE  IInv'
<1>1. phase = "writeData" /\ bit \in DataBits /\ TypeOK
  BY Widths DEF IInv, TypeOK, Drive, DataBits
<1>2. \/ bit + 1 < 24 /\ bit' = bit + 1 /\ phase' = "writeData"
      \/ bit = 23 /\ bit' = 0 /\ phase' = "writeAddress"
  BY <1>1, Widths DEF Drive, Turn, DataBits
<1>3. UNCHANGED << word, read, differs, faults >>
  BY DEF Drive
<1>4. /\ dir' = dir /\ latch' \subseteq AllPins
      /\ DataPin(bit) \in latch' <=> bit \in Image[word]
      /\ \A other : other # DataPin(bit) => (other \in latch' <=> other \in latch)
      /\ sram' = Follow(dir', latch') /\ sram' \in Contents
  <2>1. Set(DataPin(bit), bit \in Image[word]) /\ (bit \in Image[word]) \in BOOLEAN
    BY <1>1 DEF Drive, WriteData
  <2>2. QED BY <1>1, <2>1, SetPins, PinKinds
<1>5. sram' = sram
  BY <1>1, <1>4, FollowKeeps, PinKinds, StrobesDiffer
     DEF IInv, Quiet, Low, Early, Pulse, TypeOK, Contents
<1>6. TypeOK'
  BY <1>1, <1>2, <1>3, <1>4, Widths DEF TypeOK, Contents, Phases, Reading
<1>7. StrobesOut'
  BY <1>1, <1>2, <1>4, PinKinds DEF IInv, StrobesOut
<1>8. Quiet'
  BY <1>1, <1>2, <1>4, PinKinds, StrobesDiffer DEF IInv, Quiet, Early, Pulse, Writing, Turning, Reading
<1>9. Turned'
  BY <1>1, <1>2, <1>4 DEF IInv, Turned, Pulse, Writing, Turning, Reading
<1>10. OnPins'
  <2>1. \A b \in DataBits : b <= bit => (DataPin(b) \in latch' <=> b \in Image[word])
    <3> SUFFICES ASSUME NEW b \in DataBits, b <= bit PROVE DataPin(b) \in latch' <=> b \in Image[word]
      OBVIOUS
    <3>1. CASE b = bit
      BY <3>1, <1>4
    <3>2. CASE b < bit
      <4>1. DataPin(b) \in latch <=> b \in Image[word]
        BY <1>1, <3>2 DEF IInv, OnPins
      <4>2. DataPin(b) # DataPin(bit)
        BY <1>1, <3>2, DataPinsDiffer DEF DataBits
      <4>3. QED BY <1>4, <4>1, <4>2
    <3>3. QED BY <3>1, <3>2, <1>1 DEF DataBits
  <2>2. QED BY <1>1, <1>2, <1>3, <2>1 DEF OnPins, Pulse, Writing, Turning, Reading, DataBits, AddressBits
<1>11. Stored' /\ SoFar'
  BY <1>1, <1>2, <1>3, <1>4, <1>5
     DEF IInv, Stored, SoFar, Pulse, Writing, Turning, Reading
<1>12. Meant(dir', latch')
  BY <1>1, <1>4, PinKinds, StrobesDiffer DEF IInv, Quiet, Meant, Low, Early, Pulse
<1>13. QED BY <1>6, <1>7, <1>8, <1>9, <1>10, <1>11, <1>12 DEF IInv

(* The address is put on the address pins, to write the word.              *)
LEMMA WriteAddressStep ==
  ASSUME IInv, Drive("writeAddress", WriteAddress(word), "weLow")
  PROVE  IInv'
<1>1. phase = "writeAddress" /\ bit \in AddressBits /\ TypeOK
  BY Widths DEF IInv, TypeOK, Drive, AddressBits
<1>2. \/ bit + 1 < 10 /\ bit' = bit + 1 /\ phase' = "writeAddress"
      \/ bit = 9 /\ bit' = 0 /\ phase' = "weLow"
  BY <1>1, Widths DEF Drive, Turn, AddressBits
<1>3. UNCHANGED << word, read, differs, faults >>
  BY DEF Drive
<1>4. /\ dir' = dir /\ latch' \subseteq AllPins
      /\ AddressPin(bit) \in latch' <=> AddressBit(word, bit)
      /\ \A other : other # AddressPin(bit) => (other \in latch' <=> other \in latch)
      /\ sram' = Follow(dir', latch') /\ sram' \in Contents
  <2>1. Set(AddressPin(bit), AddressBit(word, bit)) /\ (AddressBit(word, bit)) \in BOOLEAN
    BY <1>1 DEF Drive, WriteAddress, AddressBit
  <2>2. QED BY <1>1, <2>1, SetPins, PinKinds
<1>5. sram' = sram
  BY <1>1, <1>4, FollowKeeps, PinKinds, StrobesDiffer
     DEF IInv, Quiet, Low, Early, Pulse, TypeOK, Contents
<1>6. TypeOK'
  BY <1>1, <1>2, <1>3, <1>4, Widths DEF TypeOK, Contents, Phases, Reading
<1>7. StrobesOut'
  BY <1>1, <1>2, <1>4, PinKinds DEF IInv, StrobesOut
<1>8. Quiet'
  BY <1>1, <1>2, <1>4, PinKinds, StrobesDiffer DEF IInv, Quiet, Early, Pulse, Writing, Turning, Reading
<1>9. Turned'
  BY <1>1, <1>2, <1>4 DEF IInv, Turned, Pulse, Writing, Turning, Reading
<1>10. OnPins'
  <2>1. \A b \in AddressBits : b <= bit => (AddressPin(b) \in latch' <=> AddressBit(word, b))
    <3> SUFFICES ASSUME NEW b \in AddressBits, b <= bit
                 PROVE AddressPin(b) \in latch' <=> AddressBit(word, b)
      OBVIOUS
    <3>1. CASE b = bit
      BY <3>1, <1>4
    <3>2. CASE b < bit
      <4>1. AddressPin(b) \in latch <=> AddressBit(word, b)
        BY <1>1, <3>2 DEF IInv, OnPins
      <4>2. AddressPin(b) # AddressPin(bit)
        BY <1>1, <3>2, AddressPinsDiffer DEF AddressBits
      <4>3. QED BY <1>4, <4>1, <4>2
    <3>3. QED BY <3>1, <3>2, <1>1 DEF AddressBits
  <2>2. \A b \in DataBits : DataPin(b) \in latch' <=> b \in Image[word]
    BY <1>1, <1>4, PinKinds DEF IInv, OnPins, Writing
  <2>3. QED BY <1>1, <1>2, <1>3, <2>1, <2>2 DEF OnPins, Pulse, Writing, Turning, Reading, AddressBits
<1>11. Stored' /\ SoFar'
  BY <1>1, <1>2, <1>3, <1>4, <1>5
     DEF IInv, Stored, SoFar, Pulse, Writing, Turning, Reading, AddressBits
<1>12. Meant(dir', latch')
  BY <1>1, <1>4, PinKinds DEF IInv, Quiet, Meant, Low, Early, Pulse
<1>13. QED BY <1>6, <1>7, <1>8, <1>9, <1>10, <1>11, <1>12 DEF IInv

(* The address is put on the address pins, to read the word.               *)
LEMMA PointStep ==
  ASSUME IInv, Drive("point", WriteAddress(word), "readAddress")
  PROVE  IInv'
<1>1. phase = "point" /\ bit \in AddressBits /\ TypeOK
  BY Widths DEF IInv, TypeOK, Drive, AddressBits
<1>2. \/ bit + 1 < 10 /\ bit' = bit + 1 /\ phase' = "point"
      \/ bit = 9 /\ bit' = 0 /\ phase' = "readAddress"
  BY <1>1, Widths DEF Drive, Turn, AddressBits
<1>3. UNCHANGED << word, read, differs, faults >>
  BY DEF Drive
<1>4. /\ dir' = dir /\ latch' \subseteq AllPins
      /\ AddressPin(bit) \in latch' <=> AddressBit(word, bit)
      /\ \A other : other # AddressPin(bit) => (other \in latch' <=> other \in latch)
      /\ sram' = Follow(dir', latch') /\ sram' \in Contents
  <2>1. Set(AddressPin(bit), AddressBit(word, bit)) /\ (AddressBit(word, bit)) \in BOOLEAN
    BY <1>1 DEF Drive, WriteAddress, AddressBit
  <2>2. QED BY <1>1, <2>1, SetPins, PinKinds
<1>5. sram' = sram
  BY <1>1, <1>4, FollowKeeps, PinKinds, StrobesDiffer
     DEF IInv, Quiet, Low, Early, Pulse, TypeOK, Contents
<1>6. TypeOK'
  BY <1>1, <1>2, <1>3, <1>4, Widths DEF TypeOK, Contents, Phases, Reading
<1>7. StrobesOut'
  BY <1>1, <1>2, <1>4, PinKinds DEF IInv, StrobesOut
<1>8. Quiet'
  BY <1>1, <1>2, <1>4, PinKinds, StrobesDiffer DEF IInv, Quiet, Early, Pulse, Writing, Turning, Reading
<1>9. Turned'
  BY <1>1, <1>2, <1>4 DEF IInv, Turned, Pulse, Writing, Turning, Reading
<1>10. OnPins'
  <2>1. \A b \in AddressBits : b <= bit => (AddressPin(b) \in latch' <=> AddressBit(word, b))
    <3> SUFFICES ASSUME NEW b \in AddressBits, b <= bit
                 PROVE AddressPin(b) \in latch' <=> AddressBit(word, b)
      OBVIOUS
    <3>1. CASE b = bit
      BY <3>1, <1>4
    <3>2. CASE b < bit
      <4>1. AddressPin(b) \in latch <=> AddressBit(word, b)
        BY <1>1, <3>2 DEF IInv, OnPins
      <4>2. AddressPin(b) # AddressPin(bit)
        BY <1>1, <3>2, AddressPinsDiffer DEF AddressBits
      <4>3. QED BY <1>4, <4>1, <4>2
    <3>3. QED BY <3>1, <3>2, <1>1 DEF AddressBits
  <2>2. QED BY <1>1, <1>2, <1>3, <2>1 DEF OnPins, Pulse, Writing, Turning, Reading, AddressBits
<1>11. Stored' /\ SoFar'
  BY <1>1, <1>2, <1>3, <1>4, <1>5
     DEF IInv, Stored, SoFar, Pulse, Writing, Turning, Reading, AddressBits
<1>12. Meant(dir', latch')
  BY <1>1, <1>4, PinKinds DEF IInv, Quiet, Meant, Low, Early, Pulse
<1>13. QED BY <1>6, <1>7, <1>8, <1>9, <1>10, <1>11, <1>12 DEF IInv

(* The write strobe goes low: the cell of the word gets it.                *)
LEMMA WeLowStep ==
  ASSUME IInv, Drive("weLow", Set(We, FALSE), "echoAddress")
  PROVE  IInv'
<1>1. phase = "weLow" /\ TypeOK
  BY DEF IInv, Drive
<1>2. bit' = 0 /\ phase' = "echoAddress"
  BY <1>1, Widths DEF IInv, TypeOK, Drive, Turn
<1>3. UNCHANGED << word, read, differs, faults >>
  BY DEF Drive
<1>4. /\ dir' = dir /\ latch' \subseteq AllPins
      /\ We \notin latch'
      /\ \A other : other # We => (other \in latch' <=> other \in latch)
      /\ sram' = Follow(dir', latch') /\ sram' \in Contents
  BY <1>1, SetPins, PinKinds DEF Drive
<1>5. /\ \A b \in DataBits : DataPin(b) \in latch' <=> b \in Image[word]
      /\ \A b \in AddressBits : AddressPin(b) \in latch' <=> AddressBit(word, b)
  BY <1>1, <1>4, PinKinds DEF IInv, OnPins, Writing
<1>6. Low(We, dir', latch') /\ AddressDriven(dir', latch') /\ DataDriven(dir')
  <2>1. Strobes \subseteq dir /\ StateOe \in latch
    BY <1>1 DEF IInv, StrobesOut, Quiet, Early
  <2>2. AddressPins \subseteq dir /\ DataPins \subseteq dir
    BY <1>1 DEF IInv, Turned, Writing, AddressPins, DataPins
  <2>3. QED BY <1>4, <2>1, <2>2, PinKinds, StrobesDiffer
             DEF Low, AddressDriven, DataDriven, StateDrives
<1>7. DataOn(latch') = Image[word] /\ word \in Cells
  <2>1. word \in Cells
    BY <1>1 DEF TypeOK
  <2>2. QED BY <1>5, <2>1, ImageWords DEF DataOn
<1>8. Meant(dir', latch')
  <2>1. \A a \in Cells :
          (\A b \in AddressBits : AddressBit(a, b) <=> AddressPin(b) \in latch') => a = word
    BY <1>5, <1>7, OneSelected
  <2>2. QED BY <1>6, <1>7, <2>1 DEF Meant, DataDriven
<1>9. sram'[word] = Image[word]
  BY <1>4, <1>5, <1>6, <1>7, FollowWrites
<1>10. Stored'
  <2>1. ASSUME NEW a \in Cells, a <= word
        PROVE  sram'[a] = Image[a]
    <3>1. CASE a = word
      BY <3>1, <1>9
    <3>2. CASE a < word
      <4>1. sram[a] = Image[a]
        BY <1>1, <3>2 DEF IInv, Stored
      <4>2. sram'[a] \in {sram[a], Image[a]}
        BY <1>1, <1>4, <1>6, <1>8, FollowMeant DEF TypeOK, Contents
      <4>3. QED BY <4>1, <4>2
    <3>3. QED BY <2>1, <3>1, <3>2, <1>7 DEF Cells
  <2>2. QED BY <1>2, <1>3, <2>1 DEF Stored, Pulse, Turning, Reading
<1>11. TypeOK'
  BY <1>1, <1>2, <1>3, <1>4, Widths DEF TypeOK, Contents, Phases
<1>12. StrobesOut' /\ Turned'
  BY <1>1, <1>2, <1>4 DEF IInv, StrobesOut, Turned, Pulse, Writing, Turning, Reading
<1>13. Quiet'
  BY <1>1, <1>2, <1>4, PinKinds, StrobesDiffer
     DEF IInv, Quiet, Early, Pulse, Writing, Turning, Reading
<1>14. OnPins' /\ SoFar'
  BY <1>1, <1>2, <1>3, <1>5 DEF IInv, OnPins, SoFar, Pulse, Writing, Reading, AddressBits
<1>15. QED BY <1>8, <1>10, <1>11, <1>12, <1>13, <1>14 DEF IInv

(* The write strobe goes high.                                             *)
LEMMA EndWriteStep ==
  ASSUME IInv, EndWrite
  PROVE  IInv'
<1>1. phase = "weHigh" /\ TypeOK /\ bit = 0 /\ bit' = 0 /\ word \in Cells
  BY Widths DEF IInv, TypeOK, EndWrite
<1>2. \/ word + 1 < Words /\ word' = word + 1 /\ phase' = "writeData"
      \/ word = Words - 1 /\ word' = 0 /\ phase' = "dataIn"
  BY <1>1, WordsAssumption DEF EndWrite, Repeat, Cells
<1>3. UNCHANGED << read, differs, faults >>
  BY DEF EndWrite
<1>4. /\ dir' = dir /\ latch' \subseteq AllPins
      /\ We \in latch'
      /\ \A other : other # We => (other \in latch' <=> other \in latch)
      /\ sram' = Follow(dir', latch') /\ sram' \in Contents
  BY <1>1, SetPins, PinKinds DEF EndWrite
<1>5. sram' = sram
  BY <1>1, <1>4, FollowKeeps DEF Low, TypeOK, Contents
<1>6. \A a \in Cells : a <= word => sram'[a] = Image[a]
  BY <1>1, <1>5 DEF IInv, Stored, Pulse
<1>7. TypeOK'
  BY <1>1, <1>2, <1>3, <1>4, Widths, WordsAssumption DEF TypeOK, Contents, Phases, Cells
<1>8. StrobesOut' /\ Turned'
  BY <1>1, <1>2, <1>4
     DEF IInv, StrobesOut, Turned, Pulse, Writing, Turning, Reading, DataBits
<1>9. Quiet'
  BY <1>1, <1>2, <1>4, PinKinds, StrobesDiffer
     DEF IInv, Quiet, Early, Pulse, Writing, Turning, Reading
<1>10. OnPins' /\ SoFar'
  BY <1>1, <1>2, <1>3 DEF IInv, OnPins, SoFar, Pulse, Writing, Turning, Reading, DataBits
<1>11. Stored'
  BY <1>1, <1>2, <1>6, WordsAssumption DEF Stored, Pulse, Turning, Reading, Cells
<1>12. Meant(dir', latch')
  BY <1>4 DEF Meant, Low
<1>13. QED BY <1>7, <1>8, <1>9, <1>10, <1>11, <1>12 DEF IInv

(* The memories' outputs are enabled.                                      *)
LEMMA OeLowStep ==
  ASSUME IInv, Drive("oeLow", Set(Oe, FALSE), "point")
  PROVE  IInv'
<1>1. phase = "oeLow" /\ TypeOK
  BY DEF IInv, Drive
<1>2. bit' = 0 /\ phase' = "point"
  BY <1>1, Widths DEF IInv, TypeOK, Drive, Turn
<1>3. UNCHANGED << word, read, differs, faults >>
  BY DEF Drive
<1>4. /\ dir' = dir /\ latch' \subseteq AllPins
      /\ Oe \notin latch'
      /\ \A other : other # Oe => (other \in latch' <=> other \in latch)
      /\ sram' = Follow(dir', latch') /\ sram' \in Contents
  BY <1>1, SetPins, PinKinds DEF Drive
<1>5. sram' = sram
  BY <1>1, <1>4, FollowKeeps, StrobesDiffer
     DEF IInv, Quiet, Low, Early, Pulse, TypeOK, Contents
<1>6. TypeOK'
  BY <1>1, <1>2, <1>3, <1>4, Widths DEF TypeOK, Contents, Phases, Reading
<1>7. StrobesOut' /\ Turned'
  BY <1>1, <1>2, <1>4 DEF IInv, StrobesOut, Turned, Pulse, Writing, Turning, Reading
<1>8. Quiet'
  <2>1. dir' \cap DataPins = {}
    BY <1>1, <1>4 DEF IInv, Turned, DataPins
  <2>2. QED BY <1>1, <1>2, <1>4, <2>1, StrobesDiffer
             DEF IInv, Quiet, Early, Pulse, Writing, Turning, Reading
<1>9. OnPins' /\ Stored' /\ SoFar'
  BY <1>1, <1>2, <1>3, <1>5
     DEF IInv, OnPins, Stored, SoFar, Pulse, Writing, Turning, Reading, AddressBits
<1>10. Meant(dir', latch')
  BY <1>1, <1>4, StrobesDiffer DEF IInv, Quiet, Meant, Low, Early, Pulse
<1>11. QED BY <1>6, <1>7, <1>8, <1>9, <1>10 DEF IInv

(* The memories' outputs are disabled.                                     *)
LEMMA OeHighStep ==
  ASSUME IInv, Drive("oeHigh", Set(Oe, TRUE), "done")
  PROVE  IInv'
<1>1. phase = "oeHigh" /\ TypeOK
  BY DEF IInv, Drive
<1>2. bit' = 0 /\ phase' = "done"
  BY <1>1, Widths DEF IInv, TypeOK, Drive, Turn
<1>3. UNCHANGED << word, read, differs, faults >>
  BY DEF Drive
<1>4. /\ dir' = dir /\ latch' \subseteq AllPins
      /\ Oe \in latch'
      /\ \A other : other # Oe => (other \in latch' <=> other \in latch)
      /\ sram' = Follow(dir', latch') /\ sram' \in Contents
  BY <1>1, SetPins, PinKinds DEF Drive
<1>5. sram' = sram
  BY <1>1, <1>4, FollowKeeps, StrobesDiffer
     DEF IInv, Quiet, Low, Early, Pulse, TypeOK, Contents
<1>6. TypeOK'
  BY <1>1, <1>2, <1>3, <1>4, Widths DEF TypeOK, Contents, Phases
<1>7. StrobesOut' /\ Turned' /\ Quiet'
  BY <1>1, <1>2, <1>4, StrobesDiffer
     DEF IInv, StrobesOut, Turned, Quiet, Early, Pulse, Writing, Turning, Reading
<1>8. OnPins' /\ Stored' /\ SoFar'
  BY <1>1, <1>2, <1>3, <1>5
     DEF IInv, OnPins, Stored, SoFar, Pulse, Writing, Turning, Reading
<1>9. Meant(dir', latch')
  BY <1>1, <1>4, StrobesDiffer DEF IInv, Quiet, Meant, Low, Early, Pulse
<1>10. QED BY <1>6, <1>7, <1>8, <1>9 DEF IInv

(* The strobes are put at rest.                                            *)
LEMMA RestStep ==
  ASSUME IInv, Drive("rest", Set(Resting[bit + 1][1], Resting[bit + 1][2]), "dataOut")
  PROVE  IInv'
<1> DEFINE strobe == Resting[bit + 1][1]
<1>1. phase = "rest" /\ bit \in 0 .. 4 /\ TypeOK
  BY Widths DEF IInv, TypeOK, Drive
<1>2. \/ bit + 1 < 5 /\ bit' = bit + 1 /\ phase' = "rest"
      \/ bit = 4 /\ bit' = 0 /\ phase' = "dataOut"
  BY <1>1, Widths DEF Drive, Turn
<1>3. UNCHANGED << word, read, differs, faults >>
  BY DEF Drive
<1>4. /\ strobe \in Strobes
      /\ strobe = StateOe <=> bit = 1
      /\ strobe = We <=> bit = 2
      /\ strobe = Oe <=> bit = 3
  BY <1>1, RestingPins
<1>5. /\ dir' = dir /\ latch' \subseteq AllPins
      /\ bit < 4 => strobe \in latch'
      /\ \A other : other # strobe => (other \in latch' <=> other \in latch)
      /\ sram' = Follow(dir', latch') /\ sram' \in Contents
  <2>1. CASE bit < 4
    <3>1. Set(strobe, TRUE)
      BY <1>1, <2>1, RestingPins DEF Drive
    <3>2. QED BY <1>1, <1>4, <3>1, SetPins, PinKinds
  <2>2. CASE bit = 4
    <3>1. Set(strobe, FALSE)
      BY <1>1, <2>2, RestingPins DEF Drive
    <3>2. strobe \in AllPins
      BY <1>4, PinKinds
    <3>3. FALSE \in BOOLEAN
      OBVIOUS
    <3>4. /\ dir' = dir /\ latch' \subseteq AllPins
          /\ \A other : other # strobe => (other \in latch' <=> other \in latch)
          /\ sram' = Follow(dir', latch') /\ sram' \in Contents
      BY <1>1, <3>1, <3>2, <3>3, SetPins
    <3>5. QED BY <2>2, <3>4
  <2>3. QED BY <2>1, <2>2, <1>1
<1> HIDE DEF strobe
<1>6. TypeOK'
  BY <1>1, <1>2, <1>3, <1>5, Widths DEF TypeOK, Contents, Phases
<1>7. StrobesOut' /\ Turned'
  BY <1>1, <1>2, <1>5
     DEF IInv, StrobesOut, Turned, Pulse, Writing, Turning, Reading, DataBits
<1>8. Quiet'
  <2>1. StateOe \in latch => StateOe \in latch'
    BY <1>1, <1>4, <1>5
  <2>2. Oe \in latch => Oe \in latch'
    BY <1>1, <1>4, <1>5
  <2>3. We \in latch => We \in latch'
    BY <1>1, <1>4, <1>5
  <2>4. /\ bit = 1 => StateOe \in latch'
        /\ bit = 2 => We \in latch'
        /\ bit = 3 => Oe \in latch'
    BY <1>4, <1>5
  <2>5. QED BY <1>1, <1>2, <1>5, <2>1, <2>2, <2>3, <2>4
             DEF IInv, Quiet, Early, Pulse, Writing, Turning, Reading
<1>9. /\ \A b \in AddressBits : AddressPin(b) \in latch' <=> AddressPin(b) \in latch
      /\ \A b \in DataBits : DataPin(b) \in latch' <=> DataPin(b) \in latch
  BY <1>4, <1>5, PinKinds
<1>10. Meant(dir', latch')
  <2>1. Low(We, dir', latch') => Low(We, dir, latch)
    BY <1>1, <1>4, <1>5 DEF Low
  <2>2. DataOn(latch') = DataOn(latch)
    BY <1>9 DEF DataOn
  <2>3. QED BY <1>5, <1>9, <2>1, <2>2 DEF IInv, Meant
<1>11. OnPins' /\ Stored' /\ SoFar'
  BY <1>1, <1>2, <1>3
     DEF IInv, OnPins, Stored, SoFar, Pulse, Writing, Turning, Reading
<1>12. QED BY <1>6, <1>7, <1>8, <1>10, <1>11 DEF IInv

(* gpio_init makes an output of one strobe.                                *)
LEMMA GpioInitStep ==
  ASSUME IInv, GpioInit
  PROVE  IInv'
<1> DEFINE strobe == InitOrder[bit + 1]
<1>1. phase = "boot" /\ bit \in 0 .. 4 /\ TypeOK
  BY Widths DEF IInv, TypeOK, GpioInit
<1>2. \/ bit + 1 < 5 /\ bit' = bit + 1 /\ phase' = "boot"
      \/ bit = 4 /\ bit' = 0 /\ phase' = "idle"
  BY <1>1, Widths DEF GpioInit, Turn
<1>3. UNCHANGED << word, read, differs, faults >>
  BY DEF GpioInit
<1>4. strobe \in Strobes
  BY <1>1 DEF InitOrder, Strobes
<1>5. /\ latch' = latch /\ dir' \subseteq AllPins
      /\ strobe \in dir'
      /\ \A other : other # strobe => (other \in dir' <=> other \in dir)
      /\ sram' = Follow(dir', latch') /\ sram' \in Contents
  <2>1. Direct(strobe, TRUE)
    BY DEF GpioInit
  <2>2. QED BY <1>1, <1>4, <2>1, DirectPins, PinKinds
<1>6. dir' \subseteq Strobes /\ \A i \in 1 .. bit + 1 : InitOrder[i] \in dir'
  <2>1. dir' \subseteq Strobes
    BY <1>1, <1>4, <1>5 DEF IInv, StrobesOut
  <2>2. \A i \in 1 .. bit : InitOrder[i] \in dir'
    BY <1>1, <1>5 DEF IInv, StrobesOut
  <2>3. QED BY <1>1, <1>5, <2>1, <2>2
<1> HIDE DEF strobe
<1>7. TypeOK'
  BY <1>1, <1>2, <1>3, <1>5, Widths DEF TypeOK, Contents, Phases
<1>8. StrobesOut'
  <2>1. bit = 4 => Strobes \subseteq dir'
    <3>1. {InitOrder[1], InitOrder[2], InitOrder[3], InitOrder[4], InitOrder[5]} = Strobes
      BY DEF InitOrder, Strobes
    <3>2. QED BY <1>6, <3>1
  <2>2. QED BY <1>1, <1>2, <1>6, <2>1 DEF StrobesOut
<1>9. dir' \cap AddressPins = {} /\ dir' \cap DataPins = {}
  BY <1>6, PinKinds
<1>10. Quiet'
  BY <1>1, <1>2, <1>9 DEF Quiet, Early, Pulse, Writing, Turning, Reading
<1>11. Turned' /\ OnPins' /\ Stored' /\ SoFar'
  BY <1>1, <1>2, <1>3
     DEF IInv, Turned, OnPins, Stored, SoFar, Pulse, Writing, Turning, Reading
<1>12. Meant(dir', latch')
  <2>1. AddressPin(0) \in AddressPins
    BY PinKinds DEF AddressBits
  <2>2. QED BY <1>9, <2>1 DEF Meant
<1>13. QED BY <1>7, <1>8, <1>10, <1>11, <1>12 DEF IInv

(* The program is uploaded.                                                *)
LEMMA UploadStep ==
  ASSUME IInv, Upload
  PROVE  IInv'
<1>1. phase = "idle" /\ phase' = "rest" /\ word' = 0 /\ bit' = 0 /\ bit = 0 /\ 0 \in Cells
  BY Widths, WordsAssumption DEF IInv, TypeOK, Upload, Cells
<1>2. UNCHANGED << dir, latch, sram, read, differs, faults >>
  BY DEF Upload, pins
<1>3. TypeOK'
  BY <1>1, <1>2, Widths DEF IInv, TypeOK, Phases
<1>4. StrobesOut' /\ Quiet' /\ Turned' /\ OnPins' /\ Stored' /\ SoFar'
  BY <1>1, <1>2
     DEF IInv, StrobesOut, Quiet, Turned, OnPins, Stored, SoFar, Early, Pulse, Writing,
         Turning, Reading
<1>5. Meant(dir', latch')
  BY <1>2 DEF IInv
<1>6. QED BY <1>3, <1>4, <1>5 DEF IInv

(* The program fails between two callbacks.                                *)
LEMMA FailStep ==
  ASSUME IInv, Fail
  PROVE  IInv'
<1>1. phase \notin {"boot", "idle", "done"} /\ phase' = "idle" /\ bit = 0 /\ bit' = 0
  BY DEF Fail
<1>2. UNCHANGED << dir, latch, sram, word, read, differs >>
  BY DEF Fail, pins
<1>3. read = {}
  BY <1>1 DEF IInv, SoFar, DataBits, AddressBits
<1>4. TypeOK'
  BY <1>1, <1>2, Widths, MaxFaultsAssumption DEF IInv, TypeOK, Phases, Fail
<1>5. StrobesOut' /\ Quiet' /\ Turned' /\ OnPins' /\ Stored' /\ SoFar'
  BY <1>1, <1>2, <1>3
     DEF IInv, StrobesOut, Quiet, Turned, OnPins, Stored, SoFar, Early, Pulse, Writing,
         Turning, Reading
<1>6. Meant(dir', latch')
  BY <1>2 DEF IInv
<1>7. QED BY <1>4, <1>5, <1>6 DEF IInv

(* The microcontroller is reset.                                           *)
LEMMA ResetStep ==
  ASSUME IInv, Reset
  PROVE  IInv'
<1>1. /\ dir' = {} /\ latch' = {} /\ phase' = "boot" /\ bit' = 0 /\ word' = 0 /\ read' = {}
      /\ 0 \in Cells
  BY WordsAssumption DEF Reset, Cells
<1>2. UNCHANGED << sram, differs >>
  BY DEF Reset
<1>3. TypeOK'
  BY <1>1, <1>2, Widths, MaxFaultsAssumption DEF IInv, TypeOK, Phases, Reset
<1>4. StrobesOut' /\ Quiet' /\ Turned' /\ OnPins' /\ Stored' /\ SoFar'
  BY <1>1, <1>2
     DEF IInv, StrobesOut, Quiet, Turned, OnPins, Stored, SoFar, Early, Pulse, Writing,
         Turning, Reading
<1>5. Meant(dir', latch')
  BY <1>1 DEF Meant, Low
<1>6. QED BY <1>3, <1>4, <1>5 DEF IInv

(* A pin that is an output is seen as it is driven.                        *)
LEMMA SeenDriven ==
  ASSUME NEW pin \in dir, NEW outside
  PROVE  Seen(pin, outside) = {pin \in latch}
BY DEF Seen

(* What a data line shows while the memories drive it: the word's bit.     *)
LEMMA ShownWord ==
  ASSUME IInv, phase \in Reading \ {"point"}, NEW level \in Shown(bit)
  PROVE  level <=> bit \in Image[word]
<1>1. word \in Cells /\ sram[word] = Image[word]
  BY DEF IInv, TypeOK, Stored
<1>2. AddressDriven(dir, latch) /\ SramDrives(dir, latch)
  <2>1. AddressPins \subseteq dir
    BY DEF IInv, Turned, AddressPins
  <2>2. Strobes \subseteq dir /\ StateOe \in latch /\ We \in latch /\ Oe \notin latch
    BY DEF IInv, StrobesOut, Quiet, Early, Pulse, Reading
  <2>3. QED BY <2>1, <2>2, PinKinds DEF AddressDriven, SramDrives, StateDrives, Low
<1>3. word \in Selected(dir, latch)
  <2>1. \A b \in AddressBits : AddressPin(b) \in latch <=> AddressBit(word, b)
    BY DEF IInv, OnPins
  <2>2. QED BY <1>1, <1>2, <2>1 DEF Selected
<1>4. QED BY <1>1, <1>2, <1>3, ImageWords DEF Shown

(* The program looks at the address that it writes to.                     *)
LEMMA EchoAddressStep ==
  ASSUME IInv, Look("echoAddress", ReadAddress, "echoData")
  PROVE  IInv'
<1>1. phase = "echoAddress" /\ bit \in AddressBits /\ word \in Cells
  BY Widths DEF IInv, TypeOK, Look, AddressBits
<1>2. \/ bit + 1 < 10 /\ bit' = bit + 1 /\ phase' = "echoAddress"
      \/ bit = 9 /\ bit' = 0 /\ phase' = "echoData"
  BY <1>1, Widths DEF Look, Turn, AddressBits
<1>3. UNCHANGED << dir, latch, sram, word, faults >>
  BY DEF Look, pins
<1>4. PICK level \in Seen(AddressPin(bit), BOOLEAN) :
        LET all == IF level THEN read \cup {bit} ELSE read
        IN  IF bit + 1 < Width(phase) THEN read' = all /\ differs' = differs
            ELSE read' = {} /\ differs' = (differs \/ all # { b \in AddressBits : AddressBit(word, b) })
  BY DEF Look, ReadAddress, Get
<1>5. level <=> AddressBit(word, bit)
  <2>1. AddressPin(bit) \in dir
    BY <1>1 DEF IInv, Turned, Writing, Pulse, Reading
  <2>2. AddressPin(bit) \in latch <=> AddressBit(word, bit)
    BY <1>1 DEF IInv, OnPins, Writing, Pulse, Reading
  <2>3. QED BY <1>4, <2>1, <2>2, SeenDriven
<1>6. (IF level THEN read \cup {bit} ELSE read)
        = { b \in AddressBits : b <= bit /\ AddressBit(word, b) }
  <2>1. read = { b \in AddressBits : b < bit /\ AddressBit(word, b) }
    BY <1>1 DEF IInv, SoFar
  <2>2. QED BY <1>1, <1>5, <2>1 DEF AddressBits
<1>7. /\ bit + 1 < 10 => read' = { b \in AddressBits : b <= bit /\ AddressBit(word, b) }
      /\ bit = 9 => read' = {}
      /\ differs' = FALSE
  <2>1. bit = 9 => { b \in AddressBits : b <= bit /\ AddressBit(word, b) }
                    = { b \in AddressBits : AddressBit(word, b) }
    BY <1>1, ImageWords DEF AddressBits
  <2>2. Width(phase) = 10 /\ differs = FALSE
    BY <1>1, Widths DEF IInv, TypeOK, SoFar
  <2>3. CASE bit + 1 < 10
    <3>1. read' = (IF level THEN read \cup {bit} ELSE read) /\ differs' = differs
      BY <1>4, <2>2, <2>3
    <3>2. QED BY <1>6, <2>2, <2>3, <3>1
  <2>4. CASE bit = 9
    <3>1. ~(bit + 1 < Width(phase))
      BY <2>2, <2>4
    <3>2. read' = {} /\ differs' = FALSE
      BY <1>4, <1>6, <2>1, <2>2, <2>4, <3>1
    <3>3. QED BY <2>4, <3>2
  <2>5. bit + 1 < 10 \/ bit = 9
    BY <1>1 DEF AddressBits
  <2>6. QED BY <2>3, <2>4, <2>5
<1>8. TypeOK'
  <2>1. read' \subseteq DataBits
    BY <1>1, <1>7 DEF DataBits, AddressBits
  <2>2. differs' \in BOOLEAN
    BY <1>7
  <2>3. word' \in Cells
    BY <1>1, <1>2, <1>3, WordsAssumption DEF Cells
  <2>4. phase' \in Phases /\ bit' \in 0 .. Width(phase') - 1
    BY <1>1, <1>2, Widths DEF Phases, Reading, AddressBits, DataBits
  <2>5. QED BY <1>3, <2>1, <2>2, <2>3, <2>4 DEF IInv, TypeOK
<1>9. SoFar'
  BY <1>1, <1>2, <1>3, <1>7 DEF SoFar, DataBits, AddressBits
<1>10. OnPins'
  BY <1>1, <1>2, <1>3 DEF IInv, OnPins, Pulse, Writing, Reading
<1>11. StrobesOut' /\ Turned'
  BY <1>1, <1>2, <1>3 DEF IInv, StrobesOut, Turned, Pulse, Writing, Turning, Reading
<1>12. Quiet'
  BY <1>1, <1>2, <1>3 DEF IInv, Quiet, Early, Pulse, Writing, Turning, Reading
<1>13. Stored' /\ Meant(dir', latch')
  BY <1>1, <1>2, <1>3 DEF IInv, Stored, Pulse, Turning, Reading
<1>14. QED BY <1>8, <1>9, <1>10, <1>11, <1>12, <1>13 DEF IInv

(* The program looks at the word that it writes.                           *)
LEMMA EchoDataStep ==
  ASSUME IInv, Look("echoData", ReadData, "weHigh")
  PROVE  IInv'
<1>1. phase = "echoData" /\ bit \in DataBits /\ word \in Cells
  BY Widths DEF IInv, TypeOK, Look, DataBits
<1>2. \/ bit + 1 < 24 /\ bit' = bit + 1 /\ phase' = "echoData"
      \/ bit = 23 /\ bit' = 0 /\ phase' = "weHigh"
  BY <1>1, Widths DEF Look, Turn, DataBits
<1>3. UNCHANGED << dir, latch, sram, word, faults >>
  BY DEF Look, pins
<1>4. PICK level \in Seen(DataPin(bit), Shown(bit)) :
        LET all == IF level THEN read \cup {bit} ELSE read
        IN  IF bit + 1 < Width(phase) THEN read' = all /\ differs' = differs
            ELSE read' = {} /\ differs' = (differs \/ all # Image[word])
  BY DEF Look, ReadData, Get
<1>5. level <=> bit \in Image[word]
  <2>1. DataPin(bit) \in dir
    BY <1>1 DEF IInv, Turned, Writing, Pulse, Reading
  <2>2. DataPin(bit) \in latch <=> bit \in Image[word]
    BY <1>1 DEF IInv, OnPins, Writing, Pulse, Reading
  <2>3. QED BY <1>4, <2>1, <2>2, SeenDriven
<1>6. (IF level THEN read \cup {bit} ELSE read)
        = { b \in DataBits : b <= bit /\ b \in Image[word] }
  <2>1. read = { b \in DataBits : b < bit /\ b \in Image[word] }
    BY <1>1 DEF IInv, SoFar
  <2>2. QED BY <1>1, <1>5, <2>1 DEF DataBits
<1>7. /\ bit + 1 < 24 => read' = { b \in DataBits : b <= bit /\ b \in Image[word] }
      /\ bit = 23 => read' = {}
      /\ differs' = FALSE
  <2>1. bit = 23 => { b \in DataBits : b <= bit /\ b \in Image[word] } = Image[word]
    BY <1>1, ImageWords DEF DataBits
  <2>2. Width(phase) = 24 /\ differs = FALSE
    BY <1>1, Widths DEF IInv, TypeOK, SoFar
  <2>3. CASE bit + 1 < 24
    <3>1. read' = (IF level THEN read \cup {bit} ELSE read) /\ differs' = differs
      BY <1>4, <2>2, <2>3
    <3>2. QED BY <1>6, <2>2, <2>3, <3>1
  <2>4. CASE bit = 23
    <3>1. ~(bit + 1 < Width(phase))
      BY <2>2, <2>4
    <3>2. read' = {} /\ differs' = FALSE
      BY <1>4, <1>6, <2>1, <2>2, <2>4, <3>1
    <3>3. QED BY <2>4, <3>2
  <2>5. bit + 1 < 24 \/ bit = 23
    BY <1>1 DEF DataBits
  <2>6. QED BY <2>3, <2>4, <2>5
<1>8. TypeOK'
  <2>1. read' \subseteq DataBits
    BY <1>1, <1>7 DEF DataBits, AddressBits
  <2>2. differs' \in BOOLEAN
    BY <1>7
  <2>3. word' \in Cells
    BY <1>1, <1>2, <1>3, WordsAssumption DEF Cells
  <2>4. phase' \in Phases /\ bit' \in 0 .. Width(phase') - 1
    BY <1>1, <1>2, Widths DEF Phases, Reading, AddressBits, DataBits
  <2>5. QED BY <1>3, <2>1, <2>2, <2>3, <2>4 DEF IInv, TypeOK
<1>9. SoFar'
  BY <1>1, <1>2, <1>3, <1>7 DEF SoFar, DataBits, AddressBits
<1>10. OnPins'
  BY <1>1, <1>2, <1>3 DEF IInv, OnPins, Pulse, Writing, Reading
<1>11. StrobesOut' /\ Turned'
  BY <1>1, <1>2, <1>3 DEF IInv, StrobesOut, Turned, Pulse, Writing, Turning, Reading
<1>12. Quiet'
  BY <1>1, <1>2, <1>3 DEF IInv, Quiet, Early, Pulse, Writing, Turning, Reading
<1>13. Stored' /\ Meant(dir', latch')
  BY <1>1, <1>2, <1>3 DEF IInv, Stored, Pulse, Turning, Reading
<1>14. QED BY <1>8, <1>9, <1>10, <1>11, <1>12, <1>13 DEF IInv

(* The program looks at the address that it reads from.                    *)
LEMMA ReadAddressStep ==
  ASSUME IInv, Look("readAddress", ReadAddress, "readData")
  PROVE  IInv'
<1>1. phase = "readAddress" /\ bit \in AddressBits /\ word \in Cells
  BY Widths DEF IInv, TypeOK, Look, AddressBits
<1>2. \/ bit + 1 < 10 /\ bit' = bit + 1 /\ phase' = "readAddress"
      \/ bit = 9 /\ bit' = 0 /\ phase' = "readData"
  BY <1>1, Widths DEF Look, Turn, AddressBits
<1>3. UNCHANGED << dir, latch, sram, word, faults >>
  BY DEF Look, pins
<1>4. PICK level \in Seen(AddressPin(bit), BOOLEAN) :
        LET all == IF level THEN read \cup {bit} ELSE read
        IN  IF bit + 1 < Width(phase) THEN read' = all /\ differs' = differs
            ELSE read' = {} /\ differs' = (differs \/ all # { b \in AddressBits : AddressBit(word, b) })
  BY DEF Look, ReadAddress, Get
<1>5. level <=> AddressBit(word, bit)
  <2>1. AddressPin(bit) \in dir
    BY <1>1 DEF IInv, Turned, Writing, Pulse, Reading
  <2>2. AddressPin(bit) \in latch <=> AddressBit(word, bit)
    BY <1>1 DEF IInv, OnPins, Writing, Pulse, Reading
  <2>3. QED BY <1>4, <2>1, <2>2, SeenDriven
<1>6. (IF level THEN read \cup {bit} ELSE read)
        = { b \in AddressBits : b <= bit /\ AddressBit(word, b) }
  <2>1. read = { b \in AddressBits : b < bit /\ AddressBit(word, b) }
    BY <1>1 DEF IInv, SoFar
  <2>2. QED BY <1>1, <1>5, <2>1 DEF AddressBits
<1>7. /\ bit + 1 < 10 => read' = { b \in AddressBits : b <= bit /\ AddressBit(word, b) }
      /\ bit = 9 => read' = {}
      /\ differs' = FALSE
  <2>1. bit = 9 => { b \in AddressBits : b <= bit /\ AddressBit(word, b) }
                    = { b \in AddressBits : AddressBit(word, b) }
    BY <1>1, ImageWords DEF AddressBits
  <2>2. Width(phase) = 10 /\ differs = FALSE
    BY <1>1, Widths DEF IInv, TypeOK, SoFar
  <2>3. CASE bit + 1 < 10
    <3>1. read' = (IF level THEN read \cup {bit} ELSE read) /\ differs' = differs
      BY <1>4, <2>2, <2>3
    <3>2. QED BY <1>6, <2>2, <2>3, <3>1
  <2>4. CASE bit = 9
    <3>1. ~(bit + 1 < Width(phase))
      BY <2>2, <2>4
    <3>2. read' = {} /\ differs' = FALSE
      BY <1>4, <1>6, <2>1, <2>2, <2>4, <3>1
    <3>3. QED BY <2>4, <3>2
  <2>5. bit + 1 < 10 \/ bit = 9
    BY <1>1 DEF AddressBits
  <2>6. QED BY <2>3, <2>4, <2>5
<1>8. TypeOK'
  <2>1. read' \subseteq DataBits
    BY <1>1, <1>7 DEF DataBits, AddressBits
  <2>2. differs' \in BOOLEAN
    BY <1>7
  <2>3. word' \in Cells
    BY <1>1, <1>2, <1>3, WordsAssumption DEF Cells
  <2>4. phase' \in Phases /\ bit' \in 0 .. Width(phase') - 1
    BY <1>1, <1>2, Widths DEF Phases, Reading, AddressBits, DataBits
  <2>5. QED BY <1>3, <2>1, <2>2, <2>3, <2>4 DEF IInv, TypeOK
<1>9. SoFar'
  BY <1>1, <1>2, <1>3, <1>7 DEF SoFar, DataBits, AddressBits
<1>10. OnPins'
  BY <1>1, <1>2, <1>3 DEF IInv, OnPins, Pulse, Writing, Reading
<1>11. StrobesOut' /\ Turned'
  BY <1>1, <1>2, <1>3 DEF IInv, StrobesOut, Turned, Pulse, Writing, Turning, Reading
<1>12. Quiet'
  BY <1>1, <1>2, <1>3 DEF IInv, Quiet, Early, Pulse, Writing, Turning, Reading
<1>13. Stored' /\ Meant(dir', latch')
  BY <1>1, <1>2, <1>3 DEF IInv, Stored, Pulse, Turning, Reading
<1>14. QED BY <1>8, <1>9, <1>10, <1>11, <1>12, <1>13 DEF IInv

(* The program reads the word, to show it.                                 *)
LEMMA ReadDataStep ==
  ASSUME IInv, Look("readData", ReadData, "compare")
  PROVE  IInv'
<1>1. phase = "readData" /\ bit \in DataBits /\ word \in Cells
  BY Widths DEF IInv, TypeOK, Look, DataBits
<1>2. \/ bit + 1 < 24 /\ bit' = bit + 1 /\ phase' = "readData"
      \/ bit = 23 /\ bit' = 0 /\ phase' = "compare"
  BY <1>1, Widths DEF Look, Turn, DataBits
<1>3. UNCHANGED << dir, latch, sram, word, faults >>
  BY DEF Look, pins
<1>4. PICK level \in Seen(DataPin(bit), Shown(bit)) :
        LET all == IF level THEN read \cup {bit} ELSE read
        IN  IF bit + 1 < Width(phase) THEN read' = all /\ differs' = differs
            ELSE read' = {} /\ differs' = (differs \/ all # Image[word])
  BY DEF Look, ReadData, Get
<1>5. level <=> bit \in Image[word]
  <2>1. DataPin(bit) \notin dir
    BY <1>1 DEF IInv, Turned, Reading
  <2>2. level \in Shown(bit)
    BY <1>4, <2>1 DEF Seen
  <2>3. QED BY <1>1, <2>2, ShownWord DEF Reading
<1>6. (IF level THEN read \cup {bit} ELSE read)
        = { b \in DataBits : b <= bit /\ b \in Image[word] }
  <2>1. read = { b \in DataBits : b < bit /\ b \in Image[word] }
    BY <1>1 DEF IInv, SoFar
  <2>2. QED BY <1>1, <1>5, <2>1 DEF DataBits
<1>7. /\ bit + 1 < 24 => read' = { b \in DataBits : b <= bit /\ b \in Image[word] }
      /\ bit = 23 => read' = {}
      /\ differs' = FALSE
  <2>1. bit = 23 => { b \in DataBits : b <= bit /\ b \in Image[word] } = Image[word]
    BY <1>1, ImageWords DEF DataBits
  <2>2. Width(phase) = 24 /\ differs = FALSE
    BY <1>1, Widths DEF IInv, TypeOK, SoFar
  <2>3. CASE bit + 1 < 24
    <3>1. read' = (IF level THEN read \cup {bit} ELSE read) /\ differs' = differs
      BY <1>4, <2>2, <2>3
    <3>2. QED BY <1>6, <2>2, <2>3, <3>1
  <2>4. CASE bit = 23
    <3>1. ~(bit + 1 < Width(phase))
      BY <2>2, <2>4
    <3>2. read' = {} /\ differs' = FALSE
      BY <1>4, <1>6, <2>1, <2>2, <2>4, <3>1
    <3>3. QED BY <2>4, <3>2
  <2>5. bit + 1 < 24 \/ bit = 23
    BY <1>1 DEF DataBits
  <2>6. QED BY <2>3, <2>4, <2>5
<1>8. TypeOK'
  <2>1. read' \subseteq DataBits
    BY <1>1, <1>7 DEF DataBits, AddressBits
  <2>2. differs' \in BOOLEAN
    BY <1>7
  <2>3. word' \in Cells
    BY <1>1, <1>2, <1>3, WordsAssumption DEF Cells
  <2>4. phase' \in Phases /\ bit' \in 0 .. Width(phase') - 1
    BY <1>1, <1>2, Widths DEF Phases, Reading, AddressBits, DataBits
  <2>5. QED BY <1>3, <2>1, <2>2, <2>3, <2>4 DEF IInv, TypeOK
<1>9. SoFar'
  BY <1>1, <1>2, <1>3, <1>7 DEF SoFar, DataBits, AddressBits
<1>10. OnPins'
  BY <1>1, <1>2, <1>3 DEF IInv, OnPins, Pulse, Writing, Reading
<1>11. StrobesOut' /\ Turned'
  BY <1>1, <1>2, <1>3 DEF IInv, StrobesOut, Turned, Pulse, Writing, Turning, Reading
<1>12. Quiet'
  BY <1>1, <1>2, <1>3 DEF IInv, Quiet, Early, Pulse, Writing, Turning, Reading
<1>13. Stored' /\ Meant(dir', latch')
  BY <1>1, <1>2, <1>3 DEF IInv, Stored, Pulse, Turning, Reading
<1>14. QED BY <1>8, <1>9, <1>10, <1>11, <1>12, <1>13 DEF IInv

(* The program reads the word again, all but the last bit.                 *)
LEMMA CompareStep ==
  ASSUME IInv, Look("compare", bit < 23 /\ ReadData, "compare")
  PROVE  IInv'
<1>1. phase = "compare" /\ bit \in DataBits /\ bit < 23 /\ word \in Cells
  BY Widths DEF IInv, TypeOK, Look, DataBits
<1>2. bit' = bit + 1 /\ phase' = "compare"
  BY <1>1, Widths DEF Look, Turn, DataBits
<1>3. UNCHANGED << dir, latch, sram, word, faults >>
  BY DEF Look, pins
<1>4. PICK level \in Seen(DataPin(bit), Shown(bit)) :
        LET all == IF level THEN read \cup {bit} ELSE read
        IN  IF bit + 1 < Width(phase) THEN read' = all /\ differs' = differs
            ELSE read' = {} /\ differs' = (differs \/ all # Image[word])
  BY DEF Look, ReadData, Get
<1>5. level <=> bit \in Image[word]
  <2>1. DataPin(bit) \notin dir
    BY <1>1 DEF IInv, Turned, Reading
  <2>2. level \in Shown(bit)
    BY <1>4, <2>1 DEF Seen
  <2>3. QED BY <1>1, <2>2, ShownWord DEF Reading
<1>6. (IF level THEN read \cup {bit} ELSE read)
        = { b \in DataBits : b <= bit /\ b \in Image[word] }
  <2>1. read = { b \in DataBits : b < bit /\ b \in Image[word] }
    BY <1>1 DEF IInv, SoFar
  <2>2. QED BY <1>1, <1>5, <2>1 DEF DataBits
<1>7. read' = { b \in DataBits : b <= bit /\ b \in Image[word] } /\ differs' = FALSE
  BY <1>1, <1>4, <1>6, Widths DEF IInv, SoFar, DataBits
<1>8. TypeOK'
  <2>1. read' \subseteq DataBits
    BY <1>1, <1>7 DEF DataBits, AddressBits
  <2>2. differs' \in BOOLEAN
    BY <1>7
  <2>3. word' \in Cells
    BY <1>1, <1>2, <1>3, WordsAssumption DEF Cells
  <2>4. phase' \in Phases /\ bit' \in 0 .. Width(phase') - 1
    BY <1>1, <1>2, Widths DEF Phases, Reading, AddressBits, DataBits
  <2>5. QED BY <1>3, <2>1, <2>2, <2>3, <2>4 DEF IInv, TypeOK
<1>9. SoFar'
  BY <1>1, <1>2, <1>3, <1>7 DEF SoFar, DataBits
<1>10. OnPins'
  BY <1>1, <1>2, <1>3 DEF IInv, OnPins, Pulse, Writing, Reading
<1>11. StrobesOut' /\ Turned'
  BY <1>1, <1>2, <1>3 DEF IInv, StrobesOut, Turned, Pulse, Writing, Turning, Reading
<1>12. Quiet'
  BY <1>1, <1>2, <1>3 DEF IInv, Quiet, Early, Pulse, Writing, Turning, Reading
<1>13. Stored' /\ Meant(dir', latch')
  BY <1>1, <1>2, <1>3 DEF IInv, Stored, Pulse, Turning, Reading
<1>14. QED BY <1>8, <1>9, <1>10, <1>11, <1>12, <1>13 DEF IInv

(* The program has read the word again.                                    *)
LEMMA EndCheckStep ==
  ASSUME IInv, EndCheck
  PROVE  IInv'
<1>1. phase = "compare" /\ bit = 23 /\ bit \in DataBits /\ word \in Cells
  BY DEF IInv, TypeOK, EndCheck, DataBits
<1>2. /\ bit' = 0
      /\ \/ word + 1 < Words /\ word' = word + 1 /\ phase' = "point"
         \/ word = Words - 1 /\ word' = 0 /\ phase' = "oeHigh"
  BY <1>1, WordsAssumption DEF EndCheck, Repeat, Cells
<1>3. UNCHANGED << dir, latch, sram, faults >>
  BY DEF EndCheck, pins
<1>4. PICK level \in Seen(DataPin(bit), Shown(bit)) :
        LET all == IF level THEN read \cup {bit} ELSE read
        IN  IF bit + 1 < Width(phase) THEN read' = all /\ differs' = differs
            ELSE read' = {} /\ differs' = (differs \/ all # Image[word])
  BY DEF EndCheck, ReadData, Get
<1>5. level <=> bit \in Image[word]
  <2>1. DataPin(bit) \notin dir
    BY <1>1 DEF IInv, Turned, Reading
  <2>2. level \in Shown(bit)
    BY <1>4, <2>1 DEF Seen
  <2>3. QED BY <1>1, <2>2, ShownWord DEF Reading
<1>6. (IF level THEN read \cup {bit} ELSE read)
        = { b \in DataBits : b <= bit /\ b \in Image[word] }
  <2>1. read = { b \in DataBits : b < bit /\ b \in Image[word] }
    BY <1>1 DEF IInv, SoFar
  <2>2. QED BY <1>1, <1>5, <2>1 DEF DataBits
<1>7. read' = {} /\ differs' = FALSE
  <2>1. { b \in DataBits : b <= bit /\ b \in Image[word] } = Image[word]
    BY <1>1, ImageWords DEF DataBits
  <2>2. Width(phase) = 24 /\ differs = FALSE
    BY <1>1, Widths DEF IInv, TypeOK, SoFar
  <2>3. ~(bit + 1 < Width(phase))
    BY <1>1, <2>2
  <2>4. QED BY <1>4, <1>6, <2>1, <2>2, <2>3
<1>8. TypeOK'
  <2>1. read' \subseteq DataBits
    BY <1>1, <1>7 DEF DataBits, AddressBits
  <2>2. differs' \in BOOLEAN
    BY <1>7
  <2>3. word' \in Cells
    BY <1>1, <1>2, <1>3, WordsAssumption DEF Cells
  <2>4. phase' \in Phases /\ bit' \in 0 .. Width(phase') - 1
    BY <1>1, <1>2, Widths DEF Phases, Reading, AddressBits, DataBits
  <2>5. QED BY <1>3, <2>1, <2>2, <2>3, <2>4 DEF IInv, TypeOK
<1>9. SoFar'
  BY <1>2, <1>7 DEF SoFar
<1>10. OnPins'
  BY <1>1, <1>2, <1>3 DEF OnPins, Pulse, Writing, Reading, AddressBits
<1>11. StrobesOut' /\ Turned'
  BY <1>1, <1>2, <1>3 DEF IInv, StrobesOut, Turned, Pulse, Writing, Turning, Reading
<1>12. Quiet'
  BY <1>1, <1>2, <1>3 DEF IInv, Quiet, Early, Pulse, Writing, Turning, Reading
<1>13. Stored' /\ Meant(dir', latch')
  BY <1>1, <1>2, <1>3 DEF IInv, Stored, Pulse, Turning, Reading
<1>14. QED BY <1>8, <1>9, <1>10, <1>11, <1>12, <1>13 DEF IInv

-----------------------------------------------------------------------------
(* The invariant holds always.                                             *)

(* It holds where the board starts.                                        *)
LEMMA InitHolds == Init => IInv
<1> SUFFICES ASSUME Init PROVE IInv
  OBVIOUS
<1>1. TypeOK
  <2>1. dir \subseteq AllPins /\ latch \subseteq AllPins /\ read \subseteq DataBits
    BY DEF Init
  <2>2. sram \in [Cells -> (SUBSET DataBits) \cup {Unknown}]
    BY DEF Init
  <2>3. phase \in Phases /\ bit \in 0 .. Width(phase) - 1 /\ word \in Cells
    BY Widths, WordsAssumption DEF Init, Phases, Cells
  <2>4. faults \in Nat /\ faults <= MaxFaults
    BY MaxFaultsAssumption DEF Init
  <2>5. differs \in BOOLEAN
    BY DEF Init
  <2>6. QED BY <2>1, <2>2, <2>3, <2>4, <2>5 DEF TypeOK
<1>2. StrobesOut /\ Quiet /\ Turned /\ OnPins /\ Stored /\ SoFar
  BY DEF Init, StrobesOut, Quiet, Turned, OnPins, Stored, SoFar, Early, Pulse, Writing,
         Turning, Reading
<1>3. Meant(dir, latch)
  BY DEF Init, Meant, Low
<1>4. QED BY <1>1, <1>2, <1>3 DEF IInv

(* Every step keeps it.                                                    *)
LEMMA NextKeeps ==
  ASSUME IInv, [Next]_vars
  PROVE  IInv'
<1>1. CASE GpioInit
  BY <1>1, GpioInitStep
<1>2. CASE Upload
  BY <1>2, UploadStep
<1>3. CASE Prepare
  BY <1>3, RestStep, DataOutStep, AddressOutStep DEF Prepare
<1>4. CASE Write
  BY <1>4, WriteDataStep, WriteAddressStep, WeLowStep, EchoAddressStep, EchoDataStep DEF Write
<1>5. CASE EndWrite
  BY <1>5, EndWriteStep
<1>6. CASE TurnAround
  BY <1>6, DataInStep, OeLowStep DEF TurnAround
<1>7. CASE Check
  BY <1>7, PointStep, ReadAddressStep, ReadDataStep, CompareStep DEF Check
<1>8. CASE EndCheck
  BY <1>8, EndCheckStep
<1>9. CASE Conclude
  BY <1>9, OeHighStep DEF Conclude
<1>10. CASE Fail
  BY <1>10, FailStep
<1>11. CASE Reset
  BY <1>11, ResetStep
<1>12. CASE UNCHANGED vars
  BY <1>12 DEF vars, IInv, TypeOK, StrobesOut, Quiet, Turned, OnPins, Stored, SoFar, Meant
<1>13. QED BY <1>1, <1>2, <1>3, <1>4, <1>5, <1>6, <1>7, <1>8, <1>9, <1>10, <1>11, <1>12
           DEF Next, Work

LEMMA InvariantAlways == Spec => []IInv
<1>1. Init => IInv
  BY InitHolds
<1>2. IInv /\ [Next]_vars => IInv'
  BY NextKeeps
<1>3. QED BY <1>1, <1>2, PTL DEF Spec

-----------------------------------------------------------------------------
(* What follows.                                                           *)

(* Pins, cells, and the loops over them stay within their tables.          *)
THEOREM SramTypesAlways == Spec => []TypeOK
<1>1. IInv => TypeOK
  BY DEF IInv
<1>2. QED BY <1>1, InvariantAlways, PTL

(* No line of the microcode's memories ever has two drivers: not in the    *)
(* program, not after one that stopped halfway, not while the              *)
(* microcontroller starts.                                                 *)
THEOREM NothingFightsAlways == Spec => []NothingFights
<1>1. IInv => NothingFights
  BY DEF IInv, Quiet, NothingFights, SramDrives, StateDrives, Low
<1>2. QED BY <1>1, InvariantAlways, PTL

(* Whatever failed or was reset before, the memories hold the microcode     *)
(* when the program reads them back and when it is done, and all that it    *)
(* shows of them is right.                                                 *)
THEOREM ProgrammedAlways == Spec => []Programmed
<1>1. ASSUME IInv PROVE Programmed
  <2>1. ASSUME phase \in Reading \cup {"oeHigh", "done"} PROVE sram = Image
    <3>1. \A a \in Cells : sram[a] = Image[a]
      BY <1>1, <2>1 DEF IInv, Stored
    <3>2. sram = [a \in Cells |-> sram[a]]
      BY <1>1 DEF IInv, TypeOK
    <3>3. QED BY <3>1, <3>2, ImageAssumption
  <2>2. ~differs
    BY <1>1 DEF IInv, SoFar
  <2>3. QED BY <2>1, <2>2 DEF Programmed
<1>2. QED BY <1>1, InvariantAlways, PTL

(* A step that goes with the lines as they then are, meant, only ever gives *)
(* a cell the word it shall hold.                                          *)
LEMMA FollowingIsMeant ==
  ASSUME IInv, IInv', sram' = Follow(dir', latch'),
         AddressDriven(dir', latch') \/ ~Low(We, dir', latch')
  PROVE  \A a \in Cells : sram'[a] # sram[a] => sram'[a] = Image[a]
<1>1. sram \in Contents /\ Meant(dir', latch')
  BY DEF IInv, TypeOK, Contents
<1>2. CASE AddressDriven(dir', latch')
  BY <1>1, <1>2, FollowMeant
<1>3. CASE ~Low(We, dir', latch')
  BY <1>1, <1>3, FollowKeeps
<1>4. QED BY <1>2, <1>3

(* While the address lines are the debugger's, a cell changes to the word   *)
(* it shall hold or not at all, however the lines change one by one.        *)
THEOREM OnlyMeantWritesAlways == Spec => OnlyMeantWrites
<1> DEFINE Kept == AddressDriven(dir, latch) =>
                     \A a \in Cells : sram'[a] # sram[a] => sram'[a] = Image[a]
<1>1. ASSUME IInv, IInv', [Next]_vars PROVE Kept
  <2> SUFFICES ASSUME AddressDriven(dir, latch)
               PROVE  \A a \in Cells : sram'[a] # sram[a] => sram'[a] = Image[a]
    OBVIOUS
  <2>1. phase # "boot"
    <3>1. AddressPin(0) \in AddressPins /\ AddressPin(0) \in dir
      BY PinKinds DEF AddressBits, AddressDriven
    <3>2. QED BY <1>1, <3>1, PinKinds DEF IInv, StrobesOut
  <2>2. CASE UNCHANGED sram
    BY <2>2
  <2>3. ASSUME sram' = Follow(dir', latch'),
               AddressDriven(dir', latch') \/ ~Low(We, dir', latch')
        PROVE  \A a \in Cells : sram'[a] # sram[a] => sram'[a] = Image[a]
    BY <1>1, <2>3, FollowingIsMeant
  <2>4. ASSUME NEW pin, NEW high, Set(pin, high), pin \in Strobes \cup AddressPins \cup DataPins,
               pin = StateOe => high
        PROVE  sram' = Follow(dir', latch') /\ AddressDriven(dir', latch')
    BY <2>4 DEF Set, Latched, AddressDriven, StateDrives, Low
  <2>5. CASE Prepare
    <3>1. CASE Drive("rest", Set(Resting[bit + 1][1], Resting[bit + 1][2]), "dataOut")
      <4>1. bit \in 0 .. 4 /\ Set(Resting[bit + 1][1], Resting[bit + 1][2])
        BY <1>1, <3>1, Widths DEF IInv, TypeOK, Drive
      <4>2. Resting[bit + 1][1] \in Strobes
        BY <4>1, RestingPins
      <4>3. ASSUME Resting[bit + 1][1] = StateOe PROVE Resting[bit + 1][2] = TRUE
        <5>1. bit = 1
          BY <4>1, <4>3, RestingPins
        <5>2. QED BY <5>1 DEF Resting
      <4>4. QED BY <2>3, <2>4, <4>1, <4>2, <4>3
    <3>2. CASE phase \in {"dataOut", "addressOut"} /\ \E pin, output : Direct(pin, output)
      <4>1. We \in latch /\ latch' = latch /\ sram' = Follow(dir', latch')
        BY <1>1, <3>2 DEF IInv, Quiet, Early, Pulse, Direct
      <4>2. QED BY <2>3, <4>1 DEF Low
    <3>3. QED BY <2>5, <3>1, <3>2
              DEF Prepare, Drive, SetDataDirection, SetAddressDirection
  <2>6. CASE Write
    <3>1. CASE UNCHANGED pins /\ UNCHANGED sram
      BY <3>1
    <3>2. CASE \E b \in DataBits : \E high : Set(DataPin(b), high)
      BY <2>3, <2>4, <3>2, PinKinds
    <3>3. CASE \E b \in AddressBits : \E high : Set(AddressPin(b), high)
      BY <2>3, <2>4, <3>3, PinKinds
    <3>4. CASE Set(We, FALSE)
      BY <2>3, <2>4, <3>4, PinKinds, StrobesDiffer
    <3>5. CASE Drive("writeData", WriteData(Image[word]), "writeAddress")
      <4>1. bit \in DataBits
        BY <1>1, <3>5, Widths DEF IInv, TypeOK, Drive, DataBits
      <4>2. QED BY <3>2, <3>5, <4>1 DEF Drive, WriteData
    <3>6. CASE Drive("writeAddress", WriteAddress(word), "weLow")
      <4>1. bit \in AddressBits
        BY <1>1, <3>6, Widths DEF IInv, TypeOK, Drive, AddressBits
      <4>2. QED BY <3>3, <3>6, <4>1 DEF Drive, WriteAddress
    <3>7. QED BY <2>6, <3>1, <3>4, <3>5, <3>6 DEF Write, Drive, Look
  <2>7. CASE EndWrite
    <3>1. Set(We, TRUE)
      BY <2>7 DEF EndWrite
    <3>2. QED BY <2>3, <2>4, <3>1, PinKinds, StrobesDiffer
  <2>8. CASE TurnAround \/ Conclude
    <3>1. CASE \E high : Set(Oe, high)
      BY <2>3, <2>4, <3>1, PinKinds, StrobesDiffer
    <3>2. CASE phase = "dataIn" /\ \E pin, output : Direct(pin, output)
      <4>1. We \in latch /\ latch' = latch /\ sram' = Follow(dir', latch')
        BY <1>1, <3>2 DEF IInv, Quiet, Early, Pulse, Direct
      <4>2. QED BY <2>3, <4>1 DEF Low
    <3>3. QED BY <2>8, <3>1, <3>2 DEF TurnAround, Conclude, Drive, SetDataDirection
  <2>9. CASE Check
    <3>1. CASE UNCHANGED pins /\ UNCHANGED sram
      BY <3>1
    <3>2. CASE phase = "point" /\ \E high : Set(AddressPin(bit), high)
      <4>1. bit \in AddressBits
        BY <1>1, <3>2, Widths DEF IInv, TypeOK, AddressBits
      <4>2. QED BY <2>3, <2>4, <3>2, <4>1, PinKinds
    <3>3. QED BY <2>9, <3>1, <3>2 DEF Check, Drive, Look, WriteAddress
  <2>10. CASE Upload \/ EndCheck \/ Fail \/ Reset \/ UNCHANGED vars
    BY <2>2, <2>10 DEF Upload, EndCheck, Fail, Reset, vars
  <2>11. CASE GpioInit
    BY <2>1, <2>11 DEF GpioInit
  <2>12. QED BY <1>1, <2>5, <2>6, <2>7, <2>8, <2>9, <2>10, <2>11 DEF Next, Work
<1>2. QED BY <1>1, InvariantAlways, PTL DEF Spec, OnlyMeantWrites

=============================================================================
