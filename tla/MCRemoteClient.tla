--------------------------- MODULE MCRemoteClient ---------------------------
(* Instances of RemoteClient for TLC.                                      *)
EXTENDS RemoteClient
=============================================================================
