-------------------------- MODULE MCKeyboardListener --------------------------
(* Instances of KeyboardListener for TLC.                                  *)
EXTENDS KeyboardListener
=============================================================================
