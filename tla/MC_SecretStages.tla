--------------------------- MODULE MC_SecretStages ---------------------------
(* A small instance of SecretStages for TLC. *)
EXTENDS SecretStages, TLC

ClientSymmetry == Permutations(Clients)
=============================================================================
