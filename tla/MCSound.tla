------------------------------- MODULE MCSound -------------------------------
(* Instances of Sound for TLC.                                             *)
EXTENDS Sound
=============================================================================
