---------------------------- MODULE MCGuiConnector ----------------------------
(* Instances of GuiConnector for TLC: a setting of each kind, the mode of  *)
(* the keyer, the amplitude of the sound, the delay of the remote and the  *)
(* port of the serial line.                                                *)
EXTENDS GuiConnector, TLC

CONSTANTS mode, amplitude, delay, port

MCPart == mode :> "keyer" @@ amplitude :> "sound" @@ delay :> "remote" @@ port :> "none"
MCUnselected == port :> "default"
=============================================================================
