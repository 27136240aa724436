----------------------------- MODULE MC_KMSKeys -----------------------------
(* A small instance of KMSKeys for TLC. *)
EXTENDS KMSKeys, TLC

ClientSymmetry == Permutations(Clients)
=============================================================================
