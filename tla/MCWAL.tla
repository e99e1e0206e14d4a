------------------------------- MODULE MCWAL --------------------------------
(* WAL for TLC: the messages are interchangeable.                          *)
EXTENDS WAL, TLC

Symmetry == Permutations(Messages)
=============================================================================
