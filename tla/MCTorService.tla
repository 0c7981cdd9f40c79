---------------------------- MODULE MCTorService ----------------------------
(* TLC instance of TorService.                                             *)
EXTENDS TorService
=============================================================================
