--------------------------- MODULE MCScrollBuffer ---------------------------
(* ScrollBuffer for TLC, the sizes of the code scaled down: a buffer of 4    *)
(* lines that is doubled once.                                               *)
EXTENDS ScrollBuffer

ASSUME ShortLines
=============================================================================
