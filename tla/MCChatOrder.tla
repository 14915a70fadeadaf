---------------------------- MODULE MCChatOrder ----------------------------
(* Instances of ChatOrder for TLC: two texts that may be exchanged.        *)
EXTENDS ChatOrder

CONSTANTS hi, yo

Symmetry == Permutations(Texts)

=============================================================================
