----------------------------- MODULE MCChatFifo ----------------------------
(* Instances of ChatFifo for TLC: one client of each of two servers. *)
EXTENDS ChatFifo

CONSTANTS c1, c2

MCClients  == {c1, c2}
MCServerOf == [c \in MCClients |-> IF c = c1 THEN 1 ELSE 2]

=============================================================================
