------------------------------ MODULE MCReset ------------------------------
(***************************************************************************)
(* The reset from every kind of garbage word: asserting upcrst or not, and *)
(* fetching the first instruction or something else.  The first instruction*)
(* of the program has any opcode; CLR A and ADD C follow it.               *)
(***************************************************************************)
EXTENDS Retire

MCPrograms ==
  { [x \in 0 .. 3 |-> IF x = 0 THEN (4 * opcode) + 3 ELSE IF x = 1 THEN 136 ELSE 155]
      : opcode \in Opcodes }

MCWords == {{}, {"upcrst"}, {"rdp", "pcoe"}, {"rdp", "pcoe", "upcrst"},
            {"rdp", "bcoe"}, {"pcck", "aclk"}, {"wrp", "rdp", "bcoe", "dtoe"},
            ActiveLow, ActiveHigh, Signals}

MCPowerOn ==
  { [a |-> 7, b |-> low, c |-> 0, f |-> 255, ir |-> 119, mcr |-> word]
      : word \in MCWords, low \in {0, 2} }

MCStepCalls == 6

=============================================================================
