------------------------- MODULE MCRegistryGlobals -------------------------
(* RegistryGlobals with two registries and names that are reused.        *)
EXTENDS RegistryGlobals

CONSTANTS r1, r2, n1, n2, o1, o2

MCOffers == [interface : {"dmabuf"}, version : {2, 6}]
              \cup [interface : {"aura", "keyboard", "output"}, version : {6}]

MCSymmetry == Permutations(Registries) \cup Permutations(Objects)
=============================================================================
