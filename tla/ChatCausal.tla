---------------------------- MODULE ChatCausal -----------------------------
(***************************************************************************)
(* Distributed-chat-server/chatserver.cc run with "-o causal".  One pass   *)
(* of the main loop, one datagram, is one step.  A text is named by the    *)
(* server it was posted through and its number among that server's posts.  *)
(***************************************************************************)
EXTENDS ChatServers, Sequences, SequencesExt

CONSTANTS
    CausalPosts,    \* bound on the number of posts
    InOrder         \* does the network keep the order between two servers?

ASSUME CausalAssumption == CausalPosts \in Nat /\ InOrder \in BOOLEAN

VARIABLES
    causalNet,              \* datagrams in flight between servers
    CLOCK,                  \* [server]: one vector clock for all the rooms
    HOLD_BACK_QUEUE_CAUSAL, \* [server][room]: clocks of the texts held
    causalForwarded,        \* history: [server], what it forwarded, in order
    causalPosted            \* history: [server], the clock of each post

causalVars == <<causalNet, CLOCK, HOLD_BACK_QUEUE_CAUSAL, causalForwarded, causalPosted>>

Clocks   == [Servers -> 0..CausalPosts]
Datagram == [src : Servers, dst : Servers, room : Rooms, clock : Clocks,
             text : 1..CausalPosts]

CausalInit ==
    /\ causalNet = {}
    /\ CLOCK = [s \in Servers |-> [n \in Servers |-> 0]]
    /\ HOLD_BACK_QUEUE_CAUSAL = [s \in Servers |-> [r \in Rooms |-> <<>>]]
    /\ causalForwarded = [s \in Servers |-> <<>>]
    /\ causalPosted = [s \in Servers |-> <<>>]

Text(src, r, n) == [src |-> src, room |-> r, text |-> n]

-----------------------------------------------------------------------------
AllPosts == UNION {{s} \X (1..Len(causalPosted[s])) : s \in Servers}

(* A client of s in room r posts: s forwards the text at once, counts it,  *)
(* and sends it with its clock to the others.                              *)
CausalPost(s, r) ==
    LET n     == CLOCK[s][s] + 1
        clock == [CLOCK[s] EXCEPT ![s] = n]
    IN  /\ Cardinality(AllPosts) < CausalPosts
        /\ causalForwarded' = [causalForwarded EXCEPT ![s] = Append(@, Text(s, r, n))]
        /\ CLOCK' = [CLOCK EXCEPT ![s] = clock]
        /\ causalPosted' = [causalPosted EXCEPT ![s] = Append(@, clock)]
        /\ causalNet' = causalNet \cup
             {[src |-> s, dst |-> d, room |-> r, clock |-> clock, text |-> n] :
                d \in forward_to_servers(s, FALSE)}
        /\ UNCHANGED HOLD_BACK_QUEUE_CAUSAL

(* Mutant: no check. *)
SeenUnchecked(clock, own, n) == TRUE

(* The receiver has seen all that the poster had, of servers other than n. *)
have_seen_all(clock, own, n) == \A i \in Servers \ {n} : clock[i] <= own[i]

Deliverable(clock, own, n) ==
    clock[n] = own[n] + 1 /\ have_seen_all(clock, own, n)

(* The loop at index i, for a datagram from n: what can be delivered is    *)
(* erased and counted, and the entry that takes its place is skipped.      *)
Deliver(p, i, n) ==
    IF i <= Len(p.queue) /\ Deliverable(p.queue[i], p.clock, n)
    THEN [queue |-> RemoveAt(p.queue, i), clock |-> [p.clock EXCEPT ![n] = @ + 1]]
    ELSE p

(* One pass over the queue; past the end, where it has become shorter, the *)
(* index finds nothing.                                                    *)
Pass(p, n) ==
    LET upTo[i \in 0..Len(p.queue)] == IF i = 0 THEN p ELSE Deliver(upTo[i - 1], i, n)
    IN  upTo[Len(p.queue)]

(* Passes are made until one delivers nothing; as many as there are        *)
(* entries leave nothing to deliver.                                       *)
Passes(p, n) ==
    LET after[k \in 0..Len(p.queue)] == IF k = 0 THEN p ELSE Pass(after[k - 1], n)
    IN  after[Len(p.queue)]

(* The queue holds clocks, not texts: for every entry it delivers, the     *)
(* handler forwards the text of the datagram it is called with.            *)
handle_causal_order(m) ==
    LET s     == m.dst
        queue == Append(HOLD_BACK_QUEUE_CAUSAL[s][m.room], m.clock)
        after == Passes([queue |-> queue, clock |-> CLOCK[s]], m.src)
        count == after.clock[m.src] - CLOCK[s][m.src]
    IN  /\ HOLD_BACK_QUEUE_CAUSAL' =
             [HOLD_BACK_QUEUE_CAUSAL EXCEPT ![s][m.room] = after.queue]
        /\ CLOCK' = [CLOCK EXCEPT ![s] = after.clock]
        /\ causalForwarded' = [causalForwarded EXCEPT ![s] =
             @ \o [i \in 1..count |-> Text(m.src, m.room, m.text)]]

Receive(m) ==
    /\ m \in causalNet
    /\ InOrder => \A o \in causalNet :
                    o.src = m.src /\ o.dst = m.dst => o.text >= m.text
    /\ causalNet' = causalNet \ {m}
    /\ handle_causal_order(m)
    /\ UNCHANGED causalPosted

CausalNext ==
    \/ \E s \in Servers, r \in Rooms : CausalPost(s, r)
    \/ \E m \in causalNet : Receive(m)

CausalSpec == CausalInit /\ [][CausalNext]_causalVars

-----------------------------------------------------------------------------
(* Type invariant of the servers in causal mode. *)
CausalTypeOK ==
    /\ causalNet \subseteq Datagram
    /\ CLOCK \in [Servers -> Clocks]
    /\ HOLD_BACK_QUEUE_CAUSAL \in [Servers -> [Rooms -> Seq(Clocks)]]
    /\ causalForwarded \in
         [Servers -> Seq([src : Servers, room : Rooms, text : 1..CausalPosts])]
    /\ causalPosted \in [Servers -> Seq(Clocks)]

(* The clock of a server counts only posts that were made, and is a        *)
(* consistent cut: with a post it counts all that its poster had counted,  *)
(* in whatever order the datagrams come (have_seen_all).                   *)
ConsistentCut ==
    \A s, n \in Servers :
        /\ CLOCK[s][n] <= Len(causalPosted[n])
        /\ CLOCK[s][n] > 0 =>
             \A i \in Servers : causalPosted[n][CLOCK[s][n]][i] <= CLOCK[s][i]

(* A server forwards a text only after every text its poster had seen      *)
(* ("deliver messages to clients following causal order").                 *)
CausalOrder ==
    \A s \in Servers : \A i \in 1..Len(causalForwarded[s]) :
        LET e     == causalForwarded[s][i]
            clock == causalPosted[e.src][e.text]
        IN  \A n \in Servers : \A k \in 1..clock[n] :
              (n = e.src /\ k = e.text) \/
              \E j \in 1..(i - 1) : causalForwarded[s][j].src = n /\ causalForwarded[s][j].text = k

=============================================================================
