-------------------------- MODULE MCKeyboardFocus --------------------------
(* KeyboardFocus on two keyboards and two surfaces, with ID reuse.         *)
EXTENDS KeyboardFocus, TLC

CONSTANTS s1, s2, k1, k2, g1, g2, h1, h2

MCSymmetry == Permutations({s1, s2}) \cup Permutations({k1, k2}) \cup Permutations({g1, g2})
                \cup Permutations({h1, h2})
=============================================================================
