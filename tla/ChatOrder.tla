----------------------------- MODULE ChatOrder -----------------------------
(***************************************************************************)
(* The two orders of Distributed-chat-server/chatserver.cc that chatserver *)
(* keeps with its own numbers: ChatTotal and ChatCausal.  The servers of a *)
(* chat are all started with the same "-o", and what a server keeps for    *)
(* one order it does not touch in another.                                 *)
(***************************************************************************)
EXTENDS ChatTotal, ChatCausal

VARIABLE order      \* what the servers have been started with

ChatInit ==
    /\ order \in {"total", "causal"}
    /\ Init
    /\ CausalInit

InTotal  == order = "total" /\ UNCHANGED <<order, causalVars>>
InCausal == order = "causal" /\ UNCHANGED <<order, vars>>

ChatNext ==
    \/ \E s \in Servers, r \in Rooms, t \in Texts : Post(s, r, t) /\ InTotal
    \/ \E m \in net : handle_total_order(m) /\ InTotal
    \/ \E s \in Servers, r \in Rooms : CausalPost(s, r) /\ InCausal
    \/ \E m \in causalNet : Receive(m) /\ InCausal

ChatSpec == ChatInit /\ [][ChatNext]_<<order, vars, causalVars>>

(* Types of the servers in total and in causal mode. *)
TypesOK == TypeOK /\ CausalTypeOK

=============================================================================
