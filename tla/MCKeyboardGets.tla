-------------------------- MODULE MCKeyboardGets ---------------------------
(* KeyboardGets for TLC: two keys, a three byte buffer. *)
EXTENDS KeyboardGets
=============================================================================
