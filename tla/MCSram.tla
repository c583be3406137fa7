------------------------------- MODULE MCSram -------------------------------
(***************************************************************************)
(* Five words as the log of the debugger has them, on all the pins.  From  *)
(* each address to the next, one, two or three lines change.               *)
(***************************************************************************)
EXTENDS SramProgrammer

\* 00F5744D, 00F1744D, 00F4744D, 0070746D and 0075744D.
MCImage ==
  LET same == {0, 2, 3, 6, 10, 12, 13, 14, 20, 21, 22}
  IN  [a \in Cells |->
         << same \cup {16, 18, 23}, same \cup {16, 23}, same \cup {18, 23},
            same \cup {5}, same \cup {16, 18} >>[a + 1]]
=============================================================================
