------------------------------- MODULE MCAlu -------------------------------
(***************************************************************************)
(* Operands: every byte whose bits matter to a carry, a sign or a nibble:  *)
(* the small ones, the boundaries of both halves and alternating bits.     *)
(***************************************************************************)
EXTENDS AluContract

MCOperands ==
  (0 .. 4) \cup (13 .. 18) \cup {31, 32, 63, 64, 85} \cup (126 .. 130) \cup {170}
    \cup {191, 192, 239, 240} \cup (252 .. 255)
\* The carry and the S flag, each set and clear, and all the others.
MCFlagBytes == {0, 1, 64, 65, 255}
=============================================================================
