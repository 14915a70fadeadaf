---------------------------- MODULE MCChatCausal ---------------------------
(* Instances of ChatCausal for TLC: the cfg files choose the sizes. *)
EXTENDS ChatCausal

=============================================================================
