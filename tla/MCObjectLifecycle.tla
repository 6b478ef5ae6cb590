------------------------- MODULE MCObjectLifecycle -------------------------
(* ObjectLifecycle on few enough IDs that each is used again.              *)
EXTENDS ObjectLifecycle, TLC

CONSTANTS g1, g2, f1, h1, h2, x1

MCSymmetry == Permutations(ClientIds) \cup Permutations(HostIds)
=============================================================================
