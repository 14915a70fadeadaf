--------------------------- MODULE MCReplication ---------------------------
(* Instances of Replication for TLC: two files of two users, which can     *)
(* change places; the writes have different sizes.                         *)
EXTENDS Replication, TLC

CONSTANTS f1, f2, w1, w2, w3

MCUserOf == [f \in {f1, f2} |-> f]
MCSizeOf == [w \in {w1, w2, w3} |-> IF w = w1 THEN 1 ELSE IF w = w2 THEN 2 ELSE 4]

Symmetry == Permutations({f1, f2})
=============================================================================
