--------------------------- MODULE FifoMulticast ---------------------------
(***************************************************************************)
(* What a FIFO multicast promises, with no protocol: posts are numbered    *)
(* per server and room; a server knows its own posts at once, and learns   *)
(* those of another in the order they were made, one or several at a time. *)
(***************************************************************************)
EXTENDS Integers, Sequences

CONSTANTS Servers, Rooms, MaxPosts

VARIABLES
    posted,     \* [server][room]: number of posts
    log         \* [server][room][sender]: the posts it knows of, in order

vars == <<posted, log>>

Init ==
    /\ posted = [s \in Servers |-> [r \in Rooms |-> 0]]
    /\ log = [s \in Servers |-> [r \in Rooms |-> [n \in Servers |-> <<>>]]]

Post(s, r) ==
    /\ posted[s][r] < MaxPosts
    /\ posted' = [posted EXCEPT ![s][r] = @ + 1]
    /\ log' = [log EXCEPT ![s][r][s] = Append(@, posted[s][r] + 1)]

(* Server d learns the next k posts of n. *)
Learn(d, n, r, k) ==
    /\ Len(log[d][r][n]) + k <= posted[n][r]
    /\ log' = [log EXCEPT ![d][r][n] = @ \o [i \in 1..k |-> Len(@) + i]]
    /\ UNCHANGED posted

Next ==
    \/ \E s \in Servers, r \in Rooms : Post(s, r)
    \/ \E d, n \in Servers, r \in Rooms, k \in 1..MaxPosts : Learn(d, n, r, k)

Spec == Init /\ [][Next]_vars

=============================================================================
