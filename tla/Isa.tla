-------------------------------- MODULE Isa --------------------------------
(***************************************************************************)
(* The programmer's view of the computer: whole instructions, each one     *)
(* atomic step, as far as the Reference and the emulator agree about them. *)
(* Nothing here knows of buses, clocks, microcode words or the circuits of *)
(* the arithmetic unit.                                                    *)
(*                                                                         *)
(* The emulator does otherwise than the Reference says about the flags C,  *)
(* N, H and E, about all flags but S and T of SHR, and about SWP: there    *)
(* this module leaves every outcome open.  Where the Reference is silent,  *)
(* about the carry into a sum and the bit that SHR shifts in, the meaning  *)
(* is the emulator's.                                                      *)
(***************************************************************************)
EXTENDS Bytes, Memory

VARIABLES a, b, c, f, pc, prog, data, out, on

vars == << a, b, c, f, pc, prog, data, out, on >>

Instruction == Read(prog, pc, Erased)
Opcode      == Instruction \div 4
CB          == AddressOf(c, b)

\* The address k bytes past the PC, and the program byte there.
Ahead(k)   == (pc + k) % 65536
Operand(k) == Read(prog, Ahead(k), Erased)

\* The four registers, numbered as the instructions number them.
Register(n) == CASE n = 0 -> f [] n = 1 -> a [] n = 2 -> b [] OTHER -> c

\* Register n takes a value and the others keep theirs.
Assign(n, value) ==
  /\ f' = IF n = 0 THEN value ELSE f
  /\ a' = IF n = 1 THEN value ELSE a
  /\ b' = IF n = 2 THEN value ELSE b
  /\ c' = IF n = 3 THEN value ELSE c

KeepRegisters == UNCHANGED << a, b, c, f >>
KeepMemories  == UNCHANGED << prog, data, out >>

-----------------------------------------------------------------------------
\* The machine is switched on: the reset leaves any registers, and may have
\* clobbered one byte of each memory or the port, but starts at address 0.
SwitchOn ==
  /\ ~on /\ on'
  /\ a' \in Byte /\ b' \in Byte /\ c' \in Byte /\ f' \in Byte
  /\ pc' = 0
  /\ prog' = prog \/ \E x \in DOMAIN prog' : prog' = Write(prog, x, prog'[x])
  /\ data' = data \/ \E x \in DOMAIN data' : data' = Write(data, x, data'[x])
  /\ out' = out \/ \E byte \in Byte : out' = Append(out, byte)

\* LDI byte: the byte after the instruction.
LoadImmediate ==
  /\ Opcode \in 0 .. 3
  /\ Assign(Opcode, Operand(1))
  /\ pc' = Ahead(2)
  /\ KeepMemories

\* LDI address CB: the low byte comes first.
LoadAddress ==
  /\ Opcode = 60
  /\ b' = Operand(1) /\ c' = Operand(2)
  /\ pc' = Ahead(3)
  /\ UNCHANGED << a, f >> /\ KeepMemories

\* MOV: three destinations for each source, in register order.
Move ==
  /\ Opcode \in 4 .. 15
  /\ LET source == (Opcode - 4) \div 3
         other  == (Opcode - 4) % 3
     IN  Assign(IF other < source THEN other ELSE other + 1, Register(source))
  /\ pc' = Ahead(1)
  /\ KeepMemories

LoadData ==
  /\ Opcode \in 16 .. 19
  /\ Assign(Opcode - 16, Read(data, CB, Zeroed))
  /\ pc' = Ahead(1)
  /\ KeepMemories

LoadProgram ==
  /\ Opcode \in 20 .. 23
  /\ Assign(Opcode - 20, Read(prog, CB, Erased))
  /\ pc' = Ahead(1)
  /\ KeepMemories

StoreData ==
  /\ Opcode \in 24 .. 25
  /\ data' = Stored(data, CB, Register(Opcode - 24))
  /\ out' = Printed(out, CB, Register(Opcode - 24))
  /\ pc' = Ahead(1)
  /\ UNCHANGED prog /\ KeepRegisters

StoreProgram ==
  /\ Opcode \in 26 .. 27
  /\ prog' = Write(prog, CB, Register(Opcode - 26))
  /\ pc' = Ahead(1)
  /\ UNCHANGED << data, out >> /\ KeepRegisters

-----------------------------------------------------------------------------
\* The condition of a branch is a flag, or always true; bit 3 inverts it.
Flag      == Instruction % 8
Condition == Flag = 7 \/ Bit(f, Flag) = 1

Branch ==
  /\ Opcode \in 28 .. 31
  /\ pc' = IF Condition = (Bit(Instruction, 3) = 0) THEN CB ELSE Ahead(1)
  /\ KeepRegisters /\ KeepMemories

\* The function of A and B that an instruction names with its low three bits.
Function == Instruction % 8
Carry    == Bit(f, 0)

\* What the two differences and the sum come to: no carry is a borrow.
Exact(x, y) ==
  CASE Function = 1 -> ((y - x) - 1) + Carry
    [] Function = 2 -> ((x - y) - 1) + Carry
    [] Function = 3 -> (x + y) + Carry

Result ==
  CASE Function = 0        -> 0
    [] Function \in 1 .. 3 -> Exact(a, b) % 256
    [] Function = 4        -> BitXor(a, b)
    [] Function = 5        -> BitOr(a, b)
    [] Function = 6        -> BitAnd(a, b)
    [] Function = 7        -> 255

\* The number that a byte stands for in two's complement.
Signed(byte) == IF byte > 127 THEN byte - 256 ELSE byte

\* The flags that every instruction sets in the same way: T is high, and S is
\* the lower bit that A had.
SetsFlags == f' \in Byte /\ Bit(f', 7) = 1 /\ Bit(f', 6) = Bit(a, 0)

\* !Z says whether the result is not 255.
SetsNotZero == Bit(f', 3) = 1 <=> Result # 255

\* V says, of a sum or a difference, that its sign is not correct.
SetsOverflow ==
  Function \in 1 .. 3 =>
    (Bit(f', 2) = 1 <=> (Exact(Signed(a), Signed(b)) < 0) # (Signed(Result) < 0))

\* An ALU operation whose destination is A, B or C also sets the flags; one
\* whose destination is F puts the result there.
Arithmetic ==
  /\ Opcode \in 32 .. 39
  /\ LET n == (Opcode - 32) \div 2
     IN  /\ a' = IF n = 1 THEN Result ELSE a
         /\ b' = IF n = 2 THEN Result ELSE b
         /\ c' = IF n = 3 THEN Result ELSE c
         /\ IF n = 0 THEN f' = Result ELSE SetsFlags /\ SetsNotZero /\ SetsOverflow
  /\ pc' = Ahead(1)
  /\ KeepMemories

\* SHR A: the S flag comes in at the top.
ShiftRight ==
  /\ Opcode = 61
  /\ a' = (a \div 2) + (128 * Bit(f, 6))
  /\ SetsFlags
  /\ pc' = Ahead(1)
  /\ UNCHANGED << b, c >> /\ KeepMemories

\* SWP A B: "A -> B, B -> A" says the source, and the microprogram, which has
\* no register to keep one of them in, does not do it.  A and B are lost.
Swap ==
  /\ Opcode = 62
  /\ a' \in Byte /\ b' \in Byte
  /\ pc' = Ahead(1)
  /\ UNCHANGED << c, f >> /\ KeepMemories

NoOperation ==
  /\ Opcode \in (40 .. 59) \cup {63}
  /\ pc' = Ahead(1)
  /\ KeepRegisters /\ KeepMemories

-----------------------------------------------------------------------------
Init ==
  /\ ~on /\ pc = 0
  /\ a \in Byte /\ b \in Byte /\ c \in Byte /\ f \in Byte
  /\ IsMemory(prog)
  /\ data = [x \in {} |-> Zeroed] /\ out = << >>

Execute ==
  /\ on /\ UNCHANGED on
  /\ \/ LoadImmediate \/ LoadAddress \/ Move \/ LoadData \/ LoadProgram
     \/ StoreData \/ StoreProgram \/ Branch \/ Arithmetic \/ ShiftRight
     \/ Swap \/ NoOperation

Next == SwitchOn \/ Execute

Spec == Init /\ [][Next]_vars

=============================================================================
