------------------------------ MODULE Assembly ------------------------------
(***************************************************************************)
(* What the assembler emits for the instructions its programs use, and two *)
(* programs of the repository assembled.  An instruction is its byte, with *)
(* the bytes of its operand behind it; labels are given the addresses that *)
(* the allocation order of the program text gives them.                    *)
(***************************************************************************)
EXTENDS Bytes, Sequences

F == 0
A == 1
B == 2
C == 3

\* Followed by the byte to load, ...
Ldi(register) == 4 * register
\* ... and by the two bytes of an address.
LdiCB         == 240
Low(address)  == address % 256
High(address) == address \div 256

Ldm(register)   == 64 + (4 * register)
Stm(register)   == 96 + (4 * register)
Clr(register)   == 128 + (8 * register)
SubAB(register) == 130 + (8 * register)
Add(register)   == 131 + (8 * register)
MovAB           == 32
Shr             == 244
Nop             == 252

BrNz  == 115
BrT   == 119
Jmp   == 119
BrZ   == 123
\* Mutant: the branch on a set S flag.
BrSc  == 118
BrNsc == 126
BrF   == 127

\* The image that assemble: writes for the bytes of its instructions.
Assemble(bytes) == [address \in 0 .. (Len(bytes) - 1) |-> bytes[address + 1]]

\* The output port of every program.
Io == 32768

-----------------------------------------------------------------------------
(* The branch test: prints 0, 1, 2, 3 and then 4 for ever, or 0x55.        *)

S1 == 14
S2 == 45
Success == 55
Fail == 65

BranchTest == Assemble(<<
  LdiCB, Low(Io), High(Io), Ldi(A), 0, Stm(A),
  LdiCB, Low(S1), High(S1), BrT,
  LdiCB, Low(Fail), High(Fail), Jmp,
  \* s1:
  LdiCB, Low(Io), High(Io), Ldi(A), 1, Stm(A),
  LdiCB, Low(Fail), High(Fail), BrF,
  LdiCB, Low(Io), High(Io), Ldi(A), 2, Stm(A),
  Ldi(A), 170, Ldi(B), 170, Ldi(F), 0, SubAB(A),
  LdiCB, Low(S2), High(S2), BrZ,
  LdiCB, Low(Fail), High(Fail), Jmp,
  \* s2:
  LdiCB, Low(Io), High(Io), Ldi(A), 3, Stm(A),
  LdiCB, Low(Fail), High(Fail), BrNz,
  \* success:
  LdiCB, Low(Io), High(Io), Ldi(A), 4, Stm(A),
  LdiCB, Low(Success), High(Success), Jmp,
  \* fail:
  LdiCB, Low(Io), High(Io), Ldi(A), 85, Stm(A),
  LdiCB, Low(Fail), High(Fail), Jmp >>)

-----------------------------------------------------------------------------
(* The eight-bit multiplication of operand1 by operand2, by shifting and   *)
(* adding.  Every new partial sum is printed, and the product at the end.  *)

Operand1 == 0
Operand2 == 1
Accumulator == 2

Loop == 21
SkipAdd == 57
MultiplyEnd == 78
HaltLoop == 86

Multiply8(operand1, operand2) == Assemble(<<
  Nop, Nop, Nop, Nop,
  LdiCB, Low(Operand1), High(Operand1), Ldi(A), operand1, Stm(A),
  LdiCB, Low(Operand2), High(Operand2), Ldi(A), operand2, Stm(A),
  \* multiply8:
  LdiCB, Low(Accumulator), High(Accumulator), Clr(A), Stm(A),
  \* multiply8-loop: done when operand1 is zero.
  LdiCB, Low(Operand1), High(Operand1), Ldm(A), Clr(B), Clr(F), SubAB(B),
  LdiCB, Low(MultiplyEnd), High(MultiplyEnd), BrZ,
  \* Add operand2 to the accumulator if the low bit of operand1 is set.
  Clr(B), Ldi(F), 1, SubAB(A),
  LdiCB, Low(SkipAdd), High(SkipAdd), BrNsc,
  LdiCB, Low(Operand2), High(Operand2), Ldm(A),
  LdiCB, Low(Accumulator), High(Accumulator), Ldm(B), Clr(F), Add(A),
  Ldi(B), Accumulator, Stm(A),
  LdiCB, Low(Io), High(Io), Stm(A),
  \* multiply8-skip-add: halve operand1 and double operand2.
  LdiCB, Low(Operand1), High(Operand1), Ldm(A), Clr(F), Shr, Stm(A),
  LdiCB, Low(Operand2), High(Operand2), Ldm(A), MovAB, Clr(F), Add(A),
  Ldi(B), Operand2, Stm(A),
  LdiCB, Low(Loop), High(Loop), Jmp,
  \* multiply8-end:
  LdiCB, Low(Accumulator), High(Accumulator), Ldm(A),
  LdiCB, Low(Io), High(Io), Stm(A),
  \* end:
  LdiCB, Low(HaltLoop), High(HaltLoop), Jmp >>)

=============================================================================
