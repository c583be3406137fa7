----------------------------- MODULE MCEmulator -----------------------------
(***************************************************************************)
(* Bounds: programs of two instructions, the first one any of the 256, the *)
(* second from a few that observe what the first left behind; machines     *)
(* whose structure was zero, or garbage, when main started.  All assert    *)
(* upcrst: MCReset shows what the reset does for those that do not.        *)
(***************************************************************************)
EXTENDS Retire

\* Second instruction: ADD B, STP A, STM A, BR.NC, LDP F, SWP, LDI address.
Seconds == {147, 108, 100, 120, 80, 251, 240}

Images ==
  { [x \in {0, 1, 2, 3, 4} |->
       CASE x = 0 -> first [] x = 1 -> second [] x = 2 -> 129
         [] x = 3 -> second [] OTHER -> 3]
      : first \in Byte, second \in Seconds }

ZeroedWord == ActiveLow
QuietWord  == {"upcrst"}
StoreWord  == {"upcrst", "wrp", "wrd", "aoe", "dtoe", "ddir", "bcoe", "fclk", "pcck"}

Machine1 == [a |-> 0, b |-> 0, c |-> 0, f |-> 0, ir |-> 0, mcr |-> ZeroedWord]
Machine2 == [a |-> 129, b |-> 127, c |-> 128, f |-> 3, ir |-> 246, mcr |-> QuietWord]
Machine3 == [a |-> 85, b |-> 1, c |-> 0, f |-> 65, ir |-> 99, mcr |-> StoreWord]

\* Six calls of step are three instructions.
MCPowerOn == { Machine1, Machine2, Machine3 }
MCStepCalls == 6

=============================================================================
