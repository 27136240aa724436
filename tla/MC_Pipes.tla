------------------------------ MODULE MC_Pipes -------------------------------
(* A small instance of Pipes for TLC. *)
EXTENDS Pipes, TLC

Alike == Permutations(Writers)
=============================================================================
