------------------------------ MODULE MCXmodem ------------------------------
(* Xmodem for TLC: block numbers modulo 3, files of no and of four blocks.   *)
EXTENDS Xmodem
=============================================================================
