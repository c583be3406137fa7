------------------------------- MODULE Retire -------------------------------
(***************************************************************************)
(* The emulator with a history variable: the registers and memories as the *)
(* last completed instruction left them.  With it, every clock of the      *)
(* emulator is an instruction of Isa or nothing at all.                    *)
(***************************************************************************)
EXTENDS Emulator

VARIABLE retired  \* a record of the architectural state

retireVars == << vars, retired >>

\* The clock that executes the last word of an instruction's microprogram.
\* A fill word also resets the counter, but at counter zero.
Completes == upc # 0 /\ On("upcrst")

Architecture ==
  [a |-> a, b |-> b, c |-> c, f |-> f, pc |-> pc,
   prog |-> prog, data |-> data, out |-> out, on |-> phase = "run"]

RetireInit == Init /\ retired = Architecture

RetireReset ==
  /\ ResetFirstClock /\ UNCHANGED retired
RetireStart ==
  /\ ResetSecondClock /\ retired' = Architecture'
RetireInstruction ==
  /\ Clock /\ Completes /\ retired' = Architecture'
RetireNothing ==
  /\ Clock /\ ~Completes /\ UNCHANGED retired

RetireNext ==
  RetireReset \/ RetireStart \/ RetireInstruction \/ RetireNothing

RetireSpec == RetireInit /\ [][RetireNext]_retireVars /\ WF_retireVars(RetireNext)

Machine == INSTANCE Isa WITH
  a <- retired.a, b <- retired.b, c <- retired.c, f <- retired.f,
  pc <- retired.pc, prog <- retired.prog, data <- retired.data,
  out <- retired.out, on <- retired.on

(* The emulated computer implements its instruction set: under every clock *)
(* of microcomp_emulator_clock the completed instructions change registers,*)
(* flags, memories, PC and port as the Reference says, except where the    *)
(* code is known to do otherwise (Isa leaves those flags and SWP open).    *)
ImplementsIsa == Machine!Spec

(* When the first word of an instruction is executed, that instruction is  *)
(* the one at the address where the last one left the PC, or at 0 after    *)
(* the reset: microcomp_emulator_reset starts the program at its beginning *)
(* and nothing is skipped or run twice.                                    *)
ExecutesNext ==
  phase = "run" /\ upc = 1 =>
    pc = retired.pc /\ ir = Read(retired.prog, pc, Erased)

=============================================================================
