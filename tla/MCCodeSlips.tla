---------------------------- MODULE MCCodeSlips ----------------------------
(***************************************************************************)
(* Short codes for TLC: the parity of each number of digits is kept.       *)
(***************************************************************************)
EXTENDS CodeSlips

\* Each parser's lengths, and one that is too short or too long for it.
SomeLengths == {7, 8, 10, 11, 14}
=============================================================================
