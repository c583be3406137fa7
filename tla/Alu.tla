-------------------------------- MODULE Alu --------------------------------
(***************************************************************************)
(* The arithmetic unit of the emulated computer: the function selected by  *)
(* the three low bits of the instruction register, the carry chain as the  *)
(* emulator computes it, and the flag byte that the microcode can latch.   *)
(***************************************************************************)
EXTENDS Bytes

\* The function select lines: the low three bits of the instruction.
Select(ir) == ir % 8

\* The carry into the chain is bit 0 of the flag register.
CarryIn(f) == Bit(f, 0)

\* Mutant: subtractions that ignore the borrow into them.
AluResultNoBorrow(ir, x, y, f) ==
  CASE Select(ir) = 0 -> 0
    [] Select(ir) = 1 -> (y - x) % 256
    [] Select(ir) = 2 -> (x - y) % 256
    [] Select(ir) = 3 -> (x + y) % 256
    [] Select(ir) = 4 -> BitXor(x, y)
    [] Select(ir) = 5 -> BitOr(x, y)
    [] Select(ir) = 6 -> BitAnd(x, y)
    [] OTHER          -> 255

(* alufBus: what the unit puts on its output for operands x and y.         *)
AluResult(ir, x, y, f) ==
  LET cin == CarryIn(f) IN
  CASE Select(ir) = 0 -> 0
    [] Select(ir) = 1 -> (((y - x) - 1) + cin) % 256
    [] Select(ir) = 2 -> (((x - y) - 1) + cin) % 256
    [] Select(ir) = 3 -> ((x + y) + cin) % 256
    [] Select(ir) = 4 -> BitXor(x, y)
    [] Select(ir) = 5 -> BitOr(x, y)
    [] Select(ir) = 6 -> BitAnd(x, y)
    [] OTHER          -> 255

(* out4 and out8: the emulator's combination of the generate and propagate *)
(* terms, for operands that are top + 1 values wide (top is 15 or 255).    *)
CarryChain(ir, x, y, cin, top) ==
  CASE Select(ir) = 0 -> top + 1
    [] Select(ir) = 1 -> BitOr(BitAnd(top - x, y) + 1, BitOr(top - x, y) + cin)
    [] Select(ir) = 2 -> BitOr(BitAnd(x, top - y) + 1, BitOr(x, top - y) + cin)
    [] Select(ir) = 3 -> BitOr(BitAnd(x, y) + 1, BitOr(x, y) + cin)
    [] Select(ir) = 4 -> BitOr(BitAnd(x, y) + 1, x + cin)
    [] Select(ir) = 6 -> BitOr((top - y) + 1, BitOr(x, top - y) + cin)
    [] OTHER          -> BitAnd(x, y) + cin

\* cn4 and cn8: the bit of the chain just above the operands.
HalfCarry(ir, x, y, f) ==
  Bit(CarryChain(ir, LowNibble(x), LowNibble(y), CarryIn(f), 15), 4)
CarryOut(ir, x, y, f) == Bit(CarryChain(ir, x, y, CarryIn(f), 255), 8)

\* Mutant: overflow that forgets which operand a subtraction negates.
OverflowUnsubtracted(ir, x, y, f) ==
  LET opposed == Xor1(Bit(y, 7), Bit(x, 7))
      kept    == 1 - Xor1(Bit(AluResult(ir, x, y, f), 7), Bit(x, 7))
  IN  1 - AsBit(opposed = 1 \/ kept = 1)

\* ovr: the overflow signal.
Overflow(ir, x, y, f) ==
  LET opposed == Xor1(Xor1(Bit(ir, 0), Bit(ir, 1)), Xor1(Bit(y, 7), Bit(x, 7)))
      kept    == Xor1(Xor1(Bit(AluResult(ir, x, y, f), 7), Bit(x, 7)), Bit(ir, 1))
  IN  1 - AsBit(opposed = 1 \/ kept = 1)

(* The byte loaded into the flag register when fsors selects the ALU.      *)
AluFlags(ir, x, y, f) ==
  LET ovr == Overflow(ir, x, y, f)
      alu == AluResult(ir, x, y, f)
  IN    128
      + (64 * Bit(x, 0))
      + (32 * Parity(alu))
      + (16 * HalfCarry(ir, x, y, f))
      + (8 * AsBit(alu # 255))
      + (4 * ovr)
      + (2 * Xor1(ovr, Bit(y, 7)))
      + CarryOut(ir, x, y, f)

\* Mutants: the C flag shifted in instead of S; the sign kept, as an
\* arithmetic shift does.
ShiftedThroughCarry(x, f) == (x \div 2) + (128 * Bit(f, 0))
ShiftedArithmetic(x, f)   == (x \div 2) + (128 * Bit(x, 7))

(* The value on the shifter's output: A shifted right, the S flag coming   *)
(* in at the top.                                                          *)
Shifted(x, f) == (x \div 2) + (128 * Bit(f, 6))

\* Mutant: condition seven read from the flag register like the others.
FlagSelectedStored(ir, f) == Bit(f, Select(ir)) = 1

(* !n_flag: the condition selected by the low three bits; condition seven  *)
(* is always true, whatever the flag register holds.                       *)
FlagSelected(ir, f) == Select(ir) = 7 \/ Bit(f, Select(ir)) = 1

(* Whether a branch is taken: bit 3 of the instruction inverts.            *)
BranchTaken(ir, f) == FlagSelected(ir, f) = (Bit(ir, 3) = 0)

=============================================================================
