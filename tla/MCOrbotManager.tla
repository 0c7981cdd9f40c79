--------------------------- MODULE MCOrbotManager ---------------------------
(* TLC instance of OrbotManager.                                           *)
EXTENDS OrbotManager
=============================================================================
