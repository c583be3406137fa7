--------------------------- MODULE UploadContract ---------------------------
(***************************************************************************)
(* What the debugger promises to the operator who sends it programs: they  *)
(* run as they were sent and in the order they were sent, each once, as    *)
(* long as nothing is lost on the way.  When something is, anything may    *)
(* run, until the operator resets the board.                               *)
(***************************************************************************)
EXTENDS Sequences

CONSTANT Programs  \* what may be sent, a set of sequences of bytes

VARIABLES
  submitted,  \* the programs sent that have not run yet
  last,       \* what has run last; an empty sequence at first
  sound       \* nothing has been lost since the last reset

Init == submitted = << >> /\ last = << >> /\ sound = TRUE

Submit ==
  \E p \in Programs : submitted' = Append(submitted, p) /\ UNCHANGED << last, sound >>

Run ==
  /\ sound /\ submitted # << >>
  /\ last' = Head(submitted) /\ submitted' = Tail(submitted) /\ UNCHANGED sound

Break == sound' = FALSE /\ UNCHANGED << submitted, last >>

RunAnything == ~sound /\ UNCHANGED << submitted, sound >>

\* The operator starts again with the program that comes first, or gives up.
Reset ==
  /\ ~sound /\ sound' = TRUE /\ UNCHANGED last
  /\ \/ submitted' = << >>
     \/ submitted # << >> /\ submitted' = << Head(submitted) >>

Next == Submit \/ Run \/ Break \/ RunAnything \/ Reset

Spec == Init /\ [][Next]_<< submitted, last, sound >>

=============================================================================
