------------------------------ MODULE Software ------------------------------
(***************************************************************************)
(* What two programs of the repository do on the emulated computer: the    *)
(* branch test and the eight-bit multiplication.                           *)
(***************************************************************************)
EXTENDS Emulator, Assembly

Branching == prog = BranchTest

(* The branch test passes: whatever flags the machine powers on with, it   *)
(* prints 0, 1, 2, 3 and then only 4, never the 0x55 of a branch gone      *)
(* wrong.                                                                  *)
PrintsInOrder ==
  Branching => \A i \in 1 .. Len(out) : out[i] = IF i < 5 THEN i - 1 ELSE 4

\* The multiplication's operands are bytes of its own code.
Product == (prog[8] * prog[14]) % 256
AtEnd == phase = "run" /\ upc = 1 /\ pc = HaltLoop

(* When the multiplication has reached its end, what it printed last is    *)
(* the product of its operands modulo 256, and data memory holds it.       *)
MultipliesModulo256 ==
  ~Branching /\ AtEnd => /\ out # << >> /\ out[Len(out)] = Product
                         /\ data[Accumulator] = Product

(* Both programs get to their end: the branch test to the loop that prints *)
(* 4, and the multiplication, whose loop must bring its operand to zero,   *)
(* to the one it halts in, before main has made its calls of step.         *)
ProgramsEnd == <>(IF Branching THEN Len(out) >= 7 ELSE AtEnd)

=============================================================================
