---------------------------- MODULE MCRootShell ----------------------------
(* TLC instance of RootShell.                                              *)
EXTENDS RootShell, TLC

Symmetric == Permutations(Callers)
=============================================================================
