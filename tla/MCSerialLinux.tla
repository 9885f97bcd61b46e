---------------------------- MODULE MCSerialLinux ----------------------------
(* Instances of SerialLinux for TLC.                                       *)
EXTENDS SerialLinux
=============================================================================
