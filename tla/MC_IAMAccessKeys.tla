-------------------------- MODULE MC_IAMAccessKeys ---------------------------
(* Small instances of IAMAccessKeys.                                       *)
EXTENDS IAMAccessKeys, TLC

CONSTANTS c1, c2, alice, k1, k2

TwoClients == {c1, c2}
OneUser == {alice}
OneKey == {k1}
TwoKeys == {k1, k2}

ClientSymmetry == Permutations(Clients)
=============================================================================
