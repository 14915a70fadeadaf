---------------------------- MODULE ChatClients ----------------------------
(***************************************************************************)
(* The client side of Distributed-chat-server/chatserver.cc, shared by all *)
(* the ordering modes: the registry CLIENTS each server keeps (who is in   *)
(* which room), the commands that change it, and forward_to_clients.       *)
(*                                                                         *)
(* chatclient.cc talks to the one server named on its command line, so the *)
(* registries of the servers are disjoint and are kept here as one         *)
(* function: CLIENTS[c] is c's entry in the registry of ServerOf[c].       *)
(***************************************************************************)
EXTENDS ChatServers, Sequences

CONSTANTS
    Clients,
    ServerOf        \* the server each client was started with

ASSUME ClientsAssumption == ServerOf \in [Clients -> Servers]

VARIABLES
    CLIENTS,        \* room of each client, NoRoom, or Unregistered
    inbox           \* history: what each client has been sent, in order

clientVars == <<CLIENTS, inbox>>

NoRoom       == 0
Unregistered == -1

ClientsInit ==
    /\ CLIENTS = [c \in Clients |-> Unregistered]
    /\ inbox = [c \in Clients |-> <<>>]

-----------------------------------------------------------------------------
(* The first datagram of a client registers it, whatever it says: in room  *)
(* r after "/join r", in no room after "/nick", a refused command or text. *)
handle_new_client(c) ==
    /\ CLIENTS[c] = Unregistered
    /\ \E r \in Rooms \cup {NoRoom} : CLIENTS' = [CLIENTS EXCEPT ![c] = r]
    /\ UNCHANGED inbox

(* "/join r" is refused to a client that is in a room already. *)
Join(c) ==
    /\ CLIENTS[c] = NoRoom
    /\ \E r \in Rooms : CLIENTS' = [CLIENTS EXCEPT ![c] = r]
    /\ UNCHANGED inbox

Part(c) ==
    /\ CLIENTS[c] \in Rooms
    /\ CLIENTS' = [CLIENTS EXCEPT ![c] = NoRoom]
    /\ UNCHANGED inbox

Quit(c) ==
    /\ CLIENTS[c] # Unregistered
    /\ CLIENTS' = [CLIENTS EXCEPT ![c] = Unregistered]
    /\ UNCHANGED inbox

ClientStep ==
    \E c \in Clients : handle_new_client(c) \/ Join(c) \/ Part(c) \/ Quit(c)

-----------------------------------------------------------------------------
(* Server s sends the texts, in order, to its clients that are in room r.  *)
forward_to_clients(s, texts, r) ==
    inbox' = [c \in Clients |->
                IF ServerOf[c] = s /\ CLIENTS[c] = r
                THEN inbox[c] \o texts ELSE inbox[c]]

=============================================================================
