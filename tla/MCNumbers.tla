----------------------------- MODULE MCNumbers -----------------------------
(***************************************************************************)
(* Numbers: integers of nine bits around zero and at the limits, the       *)
(* booleans that comparisons and sums of booleans leave, and floats on     *)
(* both sides of the integers, of which only the smallest differences are  *)
(* exact: a float has three bits and a sign, and the unit of the last one  *)
(* is a quarter, one, eight, or sixty-four.                                *)
(***************************************************************************)
EXTENDS NumbersContract

MCIntegerLimit == 256
MCNumbers ==
       { Integer(n) : n \in (-256 .. -254) \cup (-18 .. 18) \cup {127, 128, 254, 255} }
  \cup { Bool(n) : n \in {0, 1, 2, 16, 128, 255} }
  \cup { Float(n, d) : n \in -5 .. 5, d \in {1, 2, 4} }

\* n / d in whole units of u / 4, halves upward.
Units(n, d, u) == ((8 * n) + (d * u)) \div (2 * d * u)
MCRounded(n, d) ==
  LET u == CASE Magnitude(n) < 2 * d -> 1
             [] Magnitude(n) \in 2 * d .. (8 * d) - 1 -> 4
             [] Magnitude(n) \in 8 * d .. (64 * d) - 1 -> 32
             [] OTHER -> 256
  IN  << u * Units(n, d, u), 4 >>
=============================================================================
