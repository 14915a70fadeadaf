---------------------------- MODULE ChatServers ----------------------------
(***************************************************************************)
(* The chat servers of Distributed-chat-server: the addresses read from    *)
(* the configuration file, and whom a server sends to.                     *)
(***************************************************************************)
EXTENDS Integers

CONSTANTS
    NumServers,     \* length of the configuration file
    NUM_OF_ROOMS

ASSUME ServersAssumption ==
    /\ NumServers \in Nat \ {0}
    /\ NUM_OF_ROOMS \in Nat \ {0}

Servers == 1..NumServers
Rooms   == 1..NUM_OF_ROOMS

(* The servers that server s multicasts to: all, or all the others.        *)
forward_to_servers(s, all) == IF all THEN Servers ELSE Servers \ {s}

=============================================================================
