------------------------------- MODULE Bytes -------------------------------
(***************************************************************************)
(* Unsigned machine words and the bitwise operators the emulator applies   *)
(* to them.  A word is a natural number.  The emulator never has more than *)
(* nine significant bits in a bitwise operand (a byte and the carry out of *)
(* the ALU's carry chain), so BitAnd sums bits 0..8; the other operators   *)
(* are arithmetic consequences of BitAnd.                                  *)
(***************************************************************************)
EXTENDS Integers

Byte    == 0 .. 255
Nibble  == 0 .. 15
Address == { n \in Nat : n < 65536 }

\* microcomp_emulator_bitElement8: bit number index of a word, as 0 or 1.
Bit(word, index) == (word \div (2 ^ index)) % 2

\* Both operands' bits at one position, at their weight in the word.
Common(x, y, weight) ==
  (((x \div weight) % 2) * ((y \div weight) % 2)) * weight

BitAnd(x, y) ==
    Common(x, y, 1)  + Common(x, y, 2)  + Common(x, y, 4)   + Common(x, y, 8)
  + Common(x, y, 16) + Common(x, y, 32) + Common(x, y, 64)  + Common(x, y, 128)
  + Common(x, y, 256)

BitOr(x, y)  == (x + y) - BitAnd(x, y)
BitXor(x, y) == (x + y) - (2 * BitAnd(x, y))

\* Exclusive or of two bits, each 0 or 1.
Xor1(p, q) == (p + q) % 2

\* A truth value as a C bool stored in an integer.
AsBit(p) == IF p THEN 1 ELSE 0

LowNibble(x) == x % 16

\* The exclusive or of the eight bits of a byte.
Parity(x) ==
  (  Bit(x, 0) + Bit(x, 1) + Bit(x, 2) + Bit(x, 3)
   + Bit(x, 4) + Bit(x, 5) + Bit(x, 6) + Bit(x, 7)) % 2

=============================================================================
