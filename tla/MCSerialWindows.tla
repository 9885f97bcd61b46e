--------------------------- MODULE MCSerialWindows ---------------------------
(* Instances of SerialWindows for TLC.                                     *)
EXTENDS SerialWindows
=============================================================================
