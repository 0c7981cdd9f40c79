------------------------ MODULE MCControlConnection ------------------------
(* TLC instance of ControlConnection.                                      *)
EXTENDS ControlConnection
=============================================================================
