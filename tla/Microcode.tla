----------------------------- MODULE Microcode -----------------------------
(***************************************************************************)
(* The v1.1.3 microprogram.  A microcode word is the set of the signals it *)
(* asserts (whatever their polarity in the ROMs), and the microprogram of  *)
(* an opcode is the sequence of its words, as listed in the source the     *)
(* ROM images are generated from.                                          *)
(***************************************************************************)
EXTENDS Integers, Sequences

ActiveLow == {"wrp", "rdp", "aoe", "ashoe", "aluoe", "coe", "boe", "foe", "jmp",
              "pcoe", "dtoe", "pcck", "bcoe", "wrd", "rdd", "upcrst"}
ActiveHigh == {"fsors", "fclk", "aclk", "bclk", "ddir", "cclk"}
Signals == ActiveLow \cup ActiveHigh

Opcodes == 0 .. 63

\* Mutant: fill words that step the program counter too.
FillSteps == {"upcrst", "rdp", "pcoe", "pcck"}

\* The words of the ROM below which no instruction has defined anything.
Fill == {"upcrst", "rdp", "pcoe"}

\* Every instruction starts by reading its own byte, then stepping the PC.
ReadByte == {"rdp", "pcoe"}
StepPc   == {"rdp", "pcoe", "pcck"}

\* Mutant: the source released in the word that latches.
TransferReleased(drive, latch) ==
  << ReadByte, StepPc, drive, latch \cup {"upcrst"} >>

\* A source drives the data bus for one word, then a destination latches it.
Transfer(drive, latch) ==
  << ReadByte, StepPc, drive, drive \cup latch \cup {"upcrst"} >>

\* The operand byte after the instruction drives the data bus.
OperandByte == {"rdp", "pcoe", "dtoe"}

\* LDI: the register latches the operand and the PC steps past it.
Immediate(clk) ==
  << ReadByte, StepPc, OperandByte, OperandByte \cup {"pcck", clk, "upcrst"} >>
ImmediateAddress ==
  << ReadByte, StepPc, OperandByte, OperandByte \cup {"pcck", "bclk"},
     OperandByte, OperandByte \cup {"pcck", "cclk", "upcrst"} >>

\* Clock signal of the register that the two low opcode bits select.
ClockOf(n) == CASE n = 0 -> "fclk" [] n = 1 -> "aclk" [] n = 2 -> "bclk"
                [] OTHER -> "cclk"

\* MOV has one opcode per ordered pair of different registers.
MoveSource(op) == CASE op \in 4 .. 6   -> {"foe"}
                    [] op \in 7 .. 9   -> {"aoe"}
                    [] op \in 10 .. 12 -> {"boe"}
                    [] OTHER           -> {"coe"}
MoveTarget(op) == CASE op \in {7, 10, 13} -> {"fclk"}
                    [] op \in {4, 11, 14} -> {"aclk"}
                    [] op \in {5, 8, 15}  -> {"bclk"}
                    [] OTHER              -> {"cclk"}

\* Mutant: both stores to program memory store F.
StoreProgramF(source) ==
  << ReadByte, StepPc, {"foe", "dtoe", "ddir", "bcoe"},
     {"wrp", "foe", "dtoe", "ddir", "bcoe", "upcrst"} >>

\* STP drives the program bus from the data bus; A's first word drives F.
StoreProgram(source) ==
  << ReadByte, StepPc, {"foe", "dtoe", "ddir", "bcoe"},
     {"wrp", source, "dtoe", "ddir", "bcoe", "upcrst"} >>

Branch == << ReadByte, StepPc, {"jmp"}, {"jmp", "pcck", "upcrst"} >>

Swap == << ReadByte, StepPc, {"aluoe"}, {"aluoe", "aclk"}, {"aluoe"}, {"aluoe", "bclk"},
           {"aluoe"}, {"aluoe", "aclk", "upcrst"} >>

NoOperation == << ReadByte, StepPc \cup {"upcrst"} >>

(* The microprogram of each opcode.                                        *)
Uops(op) ==
  CASE op \in 0 .. 3   -> Immediate(ClockOf(op % 4))
    [] op \in 4 .. 15  -> Transfer(MoveSource(op), MoveTarget(op))
    [] op \in 16 .. 19 -> Transfer({"rdd"}, {ClockOf(op % 4)})
    [] op \in 20 .. 23 -> Transfer({"rdp", "dtoe", "bcoe"}, {ClockOf(op % 4)})
    [] op = 24         -> Transfer({"foe"}, {"wrd"})
    [] op = 25         -> Transfer({"aoe"}, {"wrd"})
    [] op = 26         -> StoreProgram("foe")
    [] op = 27         -> StoreProgram("aoe")
    [] op \in 28 .. 31 -> Branch
    [] op \in 32 .. 33 -> Transfer({"aluoe"}, {"fclk"})
    [] op \in 34 .. 35 -> Transfer({"fsors", "aluoe"}, {"fclk", "aclk"})
    [] op \in 36 .. 37 -> Transfer({"fsors", "aluoe"}, {"fclk", "bclk"})
    [] op \in 38 .. 39 -> Transfer({"fsors", "aluoe"}, {"fclk", "cclk"})
    [] op = 60         -> ImmediateAddress
    [] op = 61         -> Transfer({"fsors", "ashoe"}, {"fclk", "aclk"})
    [] op = 62         -> Swap
    [] OTHER           -> NoOperation

(* The word at offset k of an opcode's sixteen: the fill word past its end *)
RomWord(op, k) == IF k < Len(Uops(op)) THEN Uops(op)[k + 1] ELSE Fill

=============================================================================
