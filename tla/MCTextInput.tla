---------------------------- MODULE MCTextInput ----------------------------
(* TextInput on text inputs that come and go; host objects are             *)
(* interchangeable.                                                        *)
EXTENDS TextInput

CONSTANTS inA, inB, v1, v2, cbA, cbB, s1, s2

MCSymmetry == Permutations({v1, v2})
=============================================================================
