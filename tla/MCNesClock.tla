----------------------------- MODULE MCNesClock -----------------------------
(***************************************************************************)
(* An instance of NesClock for TLC: a line of one tile and one sprite      *)
(* fetch, so of 37 dots, and a frame of 5 lines, which like the program's  *)
(* is two dots more than a whole number of clocks.                         *)
(***************************************************************************)
EXTENDS NesClock

MCCopyDots == 10 .. 14

\* Rows at the two ends a picture can leave the nametable by, and columns next
\* to its right edge.
MCScrolls == {[coarse |-> 29, fine |-> 7], [coarse |-> 31, fine |-> 6]}
=============================================================================
