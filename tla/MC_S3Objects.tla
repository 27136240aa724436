---------------------------- MODULE MC_S3Objects -----------------------------
(* Small instances of S3Objects.                                           *)
EXTENDS S3Objects, TLC

ClientSymmetry == Permutations(Clients)
=============================================================================
