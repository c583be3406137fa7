---------------------------- MODULE AluContract ----------------------------
(***************************************************************************)
(* The arithmetic unit against arithmetic.  A state is one set of inputs   *)
(* the unit may find on its lines; a step is any change of one operand, as *)
(* when the instruction before it loads a register.                        *)
(***************************************************************************)
EXTENDS Alu

CONSTANTS Operands,  \* the bytes that A and B take
          FlagBytes  \* the bytes that the flag register takes

ASSUME OperandsAssumption == Operands \subseteq Byte /\ Operands # {}
ASSUME FlagBytesAssumption == FlagBytes \subseteq Byte /\ FlagBytes # {}

VARIABLES x, y, f, select
inputs == << x, y, f, select >>

Init == x \in Operands /\ y \in Operands /\ f \in FlagBytes /\ select \in 0 .. 7

LoadA == \E byte \in Operands : x' = byte /\ UNCHANGED << y, f, select >>

Spec == Init /\ [][LoadA]_inputs

Result == AluResult(select, x, y, f)
Flags  == AluFlags(select, x, y, f)

\* The number that a byte stands for in two's complement.
Signed(byte) == IF byte > 127 THEN byte - 256 ELSE byte

\* What each of the three arithmetic functions computes, before any rounding.
Exact(p, q) ==
  CASE select = 1 -> (q - p) - (1 - CarryIn(f))
    [] select = 2 -> (p - q) - (1 - CarryIn(f))
    [] select = 3 -> (p + q) + CarryIn(f)
ArithmeticSelect == {1, 2, 3}

(* The V flag of an addition or a subtraction is set exactly when the sign *)
(* of the result is not that of the exact signed one.  The carry in is     *)
(* part of the sum.                                                        *)
OverflowIsSigned ==
  select \in ArithmeticSelect =>
    (Bit(Flags, 2) = 1 <=> (Exact(Signed(x), Signed(y)) < 0) # (Signed(Result) < 0))

(* To compare two bytes, a program clears the carry and subtracts one from *)
(* the other: the !Z flag is clear, so that BR.Z branches, exactly when    *)
(* they are equal.                                                         *)
CompareEqual ==
  select \in {1, 2} /\ CarryIn(f) = 0 =>
    (BranchTaken(123, Flags) <=> x = y)

(* The S flag is the bit that SHR loses, and shifting back in what S held  *)
(* makes a rotation: a two-byte shift through S loses nothing.             *)
ShiftKeepsBits ==
  (2 * Shifted(x, f)) + Bit(Flags, 6) = (256 * Bit(f, 6)) + x

=============================================================================
