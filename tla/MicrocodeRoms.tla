--------------------------- MODULE MicrocodeRoms ---------------------------
(***************************************************************************)
(* The microprogram as a source of the microassembler, and as the emulator *)
(* and a device programmer find it again.                                  *)
(***************************************************************************)
EXTENDS UasmContract, RomFiles

Micro == INSTANCE Microcode

\* The bits of the three ROMs, in the words of the source.
BitTable ==
  << << "!wrp", "!rdp", "!aoe", "!ashoe", "fsors", "fclk", "!aluoe", "aclk" >>,
     << "un0", "un1", "!coe", "bclk", "!boe", "!foe", "!jmp", "!pcoe" >>,
     << "!dtoe", "ddir", "!pcck", "cclk", "!bcoe", "!wrd", "!rdd", "!upcrst" >> >>

\* Where the emulator looks for its signals in the microcode register.
SignalBit ==
  [ wrp |-> << 0, 0 >>, rdp |-> << 0, 1 >>, aoe |-> << 0, 2 >>, ashoe |-> << 0, 3 >>,
    fsors |-> << 0, 4 >>, fclk |-> << 0, 5 >>, aluoe |-> << 0, 6 >>, aclk |-> << 0, 7 >>,
    coe |-> << 1, 2 >>, bclk |-> << 1, 3 >>, boe |-> << 1, 4 >>, foe |-> << 1, 5 >>,
    jmp |-> << 1, 6 >>, pcoe |-> << 1, 7 >>,
    dtoe |-> << 2, 0 >>, ddir |-> << 2, 1 >>, pcck |-> << 2, 2 >>, cclk |-> << 2, 3 >>,
    bcoe |-> << 2, 4 >>, wrd |-> << 2, 5 >>, rdd |-> << 2, 6 >>, upcrst |-> << 2, 7 >> ]

\* The signals of a word of the three ROMs: those marked n_ are active low.
Decoded(word) ==
  { s \in Micro!Signals :
      LET bit == (word[SignalBit[s][1]] \div (2 ^ SignalBit[s][2])) % 2
      IN  bit = 1 <=> s \in Micro!ActiveHigh }

-----------------------------------------------------------------------------
(* The source, for some of the opcodes: its comments, sizes, bits and words. *)

\* The names of the bits, and some of them in that order.
BitNames ==
  LET bits == FlattenSeq(BitTable)
  IN  [i \in DOMAIN bits |-> IF bits[i] \in DOMAIN Barred THEN Barred[bits[i]] ELSE bits[i]]
WordOf(signals) ==
  LET IsOn(name) == name \in signals
  IN  SelectSeq(BitNames, IsOn)

BitSection ==
  FlattenSeq([rom \in 1 .. 3 |->
    << << "ROM", ToString(rom) >> >> \o
    [b \in 1 .. 8 |-> << ToString(b - 1), BitTable[rom][b], ";", "signal" >>]])

WordSection(op, number) ==
  << << ToString(number), ";", "instruction" >> >> \o
  [k \in DOMAIN Micro!Uops(op) |-> WordOf(Micro!Uops(op)[k])]

Listing(first, count) ==
  << << "/*" >>, << "Microcode" >>, << "*/" >>, << ";", "Microasm", "version" >>,
     << "VERSION", "0.1" >>, << ";" >>, << "ROMS", "3" >>, << ";" >>,
     << "WIDTH", "8" >>, << "DEPTH", "16" >> >>
  \o BitSection
  \o << << "ASM", ToString(count) >>, << "//", "Fill" >>, << "FILL" >> \o WordOf(Micro!Fill) >>
  \o FlattenSeq([i \in 1 .. count |-> WordSection(first + i - 1, i - 1)])

-----------------------------------------------------------------------------
Addresses == DOMAIN images[0]
Ones == [address \in Addresses |-> 255]

\* The two ways of an image to the emulator and to a device.
InEmulator(r) == ReadMem(Ones, Hex2mem(HexText(images[r], sizes["ASM"], sizes["DEPTH"])))
InDevice(r, base) ==
  LET text == IF base = 16 THEN HexText(images[r], sizes["ASM"], sizes["DEPTH"])
                           ELSE BinText(images[r], sizes["ASM"], sizes["DEPTH"])
  IN  Programmed(IntelHex(base, text), Ones)

\* A record counts the bytes of a line in one byte and addresses them in two.
FitsRecords == sizes["DEPTH"] < 256 /\ sizes["ASM"] * sizes["DEPTH"] <= 65536

(* An image arrives as it was generated, by every way and in every format: *)
(* every byte at its address and every record of it sound.                 *)
ImagesArrive ==
  stage = "done" /\ sizes["WIDTH"] = 8 =>
    \A r \in Roms :
      LET bytes == [address \in Addresses |-> Number8(images[r][address])]
      IN  /\ InEmulator(r) = bytes
          /\ FitsRecords => InDevice(r, 16) = bytes /\ InDevice(r, 2) = bytes

(* The microprogram reaches the emulator as it was written: after assembly *)
(* and conversion the emulator finds in every word of its tables the       *)
(* signals that the source lists, and the fill in the others.              *)
MicrocodeArrives ==
  stage = "done" =>
    \A base \in Micro!Opcodes :
      source = Listing(base, sizes["ASM"]) =>
        LET tables == << InEmulator(0), InEmulator(1), InEmulator(2) >>
        IN  \A op \in Opcodes, k \in Offsets :
              Decoded([r \in 0 .. 2 |-> tables[r + 1][(op * 16) + k]]) = Micro!RomWord(base + op, k)

=============================================================================
