----------------------------- MODULE MCPrograms -----------------------------
(***************************************************************************)
(* Two programs of the repository.  The branch test takes 27 instructions  *)
(* and ends in a loop.  The multiplication runs with the operands it is    *)
(* written with, 16 and 15, and with some for which its loop takes no turn,*)
(* one turn and eight, with and without additions; the longest takes 700   *)
(* calls of step.  The machines power on with the flags and the microcode  *)
(* register of a zeroed structure and of a garbage one.                    *)
(***************************************************************************)
EXTENDS Software

MCPrograms ==
  {BranchTest, Multiply8(16, 15)} \cup { Multiply8(x, 255) : x \in {0, 1, 128, 255} }
MCPowerOn ==
  { [a |-> 170, b |-> 3, c |-> 0, f |-> 0, ir |-> 0, mcr |-> ActiveLow],
    [a |-> 170, b |-> 3, c |-> 0, f |-> 255, ir |-> 0, mcr |-> {"upcrst"}] }
MCStepCalls == 700

=============================================================================
