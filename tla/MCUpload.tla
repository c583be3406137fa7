------------------------------ MODULE MCUpload ------------------------------
(***************************************************************************)
(* Two programs that fit, of one and of two bytes, and one that is as long *)
(* as the buffer, which is too long; with bytes that may be taken for      *)
(* lengths.  An upload is longer than the FIFO.                            *)
(***************************************************************************)
EXTENDS Upload

MCEnd == 1
MCPrograms == { << 1 >>, << 0, 1 >>, << 0, 0, 1 >> }
MCLitter == {0, 1}
=============================================================================
