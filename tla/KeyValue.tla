------------------------------ MODULE KeyValue ------------------------------
(***************************************************************************)
(* What the big table promises: a cell holds the content last put into it  *)
(* until it is deleted.  A put may be refused, and the server may die of   *)
(* one; nothing changes then.                                              *)
(***************************************************************************)
CONSTANTS Files, Contents, Absent

VARIABLE cell

Init == cell = [f \in Files |-> Absent]

Put(f, c) == cell' = [cell EXCEPT ![f] = c]
Dele(f)   == cell' = [cell EXCEPT ![f] = Absent]

Next == \E f \in Files : Dele(f) \/ \E c \in Contents : Put(f, c)

Spec == Init /\ [][Next]_cell

=============================================================================
