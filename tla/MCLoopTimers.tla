----------------------------- MODULE MCLoopTimers -----------------------------
(***************************************************************************)
(* A small instance of LoopTimers: a clock of 5 bits and floats with a     *)
(* mantissa of 3.                                                          *)
(***************************************************************************)
EXTENDS LoopTimers

OnAndBack == {-9, -2, 1, 5}
=============================================================================
