----------------------------- MODULE ChatTotal -----------------------------
(***************************************************************************)
(* Distributed-chat-server/chatserver.cc run with "-o total": every server *)
(* proposes a number for a new text, its poster's server announces the     *)
(* largest, and texts are forwarded in the order of the agreed numbers.    *)
(* A pass of the main loop, one datagram, is one step.                     *)
(*                                                                         *)
(* The program tells texts apart by their content alone, so Texts are      *)
(* contents here: the same one may be posted twice if Repeats.             *)
(***************************************************************************)
EXTENDS ChatServers, Sequences, FiniteSets, SequencesExt

CONSTANTS
    Texts,
    MaxPosts,       \* bound on the number of posts
    Repeats,        \* may a content be posted more than once?
    Crashes         \* may undefined behaviour stop a server?

ASSUME TotalAssumption ==
    /\ MaxPosts \in Nat
    /\ Repeats \in BOOLEAN
    /\ Crashes \in BOOLEAN

VARIABLES
    net,                    \* datagrams in flight between servers
    PROPOSED,               \* [server][room]
    AGREED,                 \* [server][room]
    HOLD_BACK_QUEUE_TOTAL,  \* [server][room]: set of Held
    proposals,              \* [server][text]: set of Proposed
    up,                     \* [server]: still running
    forwarded,              \* history: [server][room], what it forwarded
    posted                  \* history: the posts, in order

vars == <<net, PROPOSED, AGREED, HOLD_BACK_QUEUE_TOTAL, proposals, up,
          forwarded, posted>>

Nobody  == 0    \* the sender in the key of a text not yet agreed on
Posts   == 1..MaxPosts
Numbers == 1..(NumServers * MaxPosts)   \* each proposal is at most one larger

NewMessage == [type : {"NEW_MESSAGE"}, src : Servers, dst : Servers,
               room : Rooms, text : Texts, post : Posts]
Proposal   == [type : {"PROPOSAL"}, dst : Servers, room : Rooms, text : Texts,
               id : Numbers, by : Servers]
Agreement  == [type : {"AGREEMENT"}, dst : Servers, room : Rooms, text : Texts,
               id : Numbers, by : Servers]

(* An entry of the hold-back queue: the key (id, by), whether the text can *)
(* be delivered, and the text.  A key occurs once.                         *)
Held == [id : Numbers, by : Servers \cup {Nobody}, deliverable : BOOLEAN,
         text : Texts]

(* A proposal received.  The program does not keep the room of a proposal; *)
(* it is kept here because the vector it appends to may hold equal pairs.  *)
Proposed == [id : Numbers, by : Servers, room : Rooms]

Before(e, f) == e.id < f.id \/ (e.id = f.id /\ e.by < f.by)

Larger(m, n) == IF m > n THEN m ELSE n

Init ==
    /\ net = {}
    /\ PROPOSED = [s \in Servers |-> [r \in Rooms |-> 0]]
    /\ AGREED = [s \in Servers |-> [r \in Rooms |-> 0]]
    /\ HOLD_BACK_QUEUE_TOTAL = [s \in Servers |-> [r \in Rooms |-> {}]]
    /\ proposals = [s \in Servers |-> [t \in Texts |-> {}]]
    /\ up = [s \in Servers |-> TRUE]
    /\ forwarded = [s \in Servers |-> [r \in Rooms |-> <<>>]]
    /\ posted = <<>>

-----------------------------------------------------------------------------
(* A client of s that is in room r posts t: s sends it to all the servers, *)
(* itself included, and forwards nothing yet.                              *)
Post(s, r, t) ==
    /\ up[s]
    /\ Len(posted) < MaxPosts
    /\ ~ Repeats => \A i \in 1..Len(posted) : posted[i].text # t
    /\ posted' = Append(posted, [room |-> r, text |-> t])
    /\ net' = net \cup
         {[type |-> "NEW_MESSAGE", src |-> s, dst |-> d, room |-> r, text |-> t,
           post |-> Len(posted) + 1] : d \in forward_to_servers(s, TRUE)}
    /\ UNCHANGED <<PROPOSED, AGREED, HOLD_BACK_QUEUE_TOTAL, proposals, up, forwarded>>

(* Mutants: the agreed numbers are ignored; the number is not advanced. *)
NextOfOwn(s, r) == PROPOSED[s][r] + 1
NotAdvanced(s, r) == Larger(1, Larger(PROPOSED[s][r], AGREED[s][r]))

(* The number a server proposes: larger than any it has proposed or seen   *)
(* agreed in the room.                                                     *)
NextProposal(s, r) == Larger(PROPOSED[s][r], AGREED[s][r]) + 1

HandleNewMessage(m) ==
    LET s  == m.dst
        id == NextProposal(s, m.room)
    IN  /\ up[s]
        /\ PROPOSED' = [PROPOSED EXCEPT ![s][m.room] = id]
        /\ HOLD_BACK_QUEUE_TOTAL' = [HOLD_BACK_QUEUE_TOTAL EXCEPT ![s][m.room] =
             @ \cup {[id |-> id, by |-> Nobody, deliverable |-> FALSE,
                      text |-> m.text]}]
        /\ net' = (net \ {m}) \cup
             {[type |-> "PROPOSAL", dst |-> m.src, room |-> m.room, text |-> m.text,
               id |-> id, by |-> s]}
        /\ UNCHANGED <<AGREED, proposals, up, forwarded, posted>>

(* The largest of the proposals, of the smallest proposer in a tie.        *)
Largest(P) ==
    CHOOSE p \in P : \A o \in P : o.id < p.id \/ (o.id = p.id /\ p.by <= o.by)

(* When as many proposals for a text have come as there are servers, the   *)
(* largest is announced to all of them.                                    *)
HandleProposal(m) ==
    LET s == m.dst
        P == proposals[s][m.text] \cup {[id |-> m.id, by |-> m.by, room |-> m.room]}
    IN  /\ up[s]
        /\ IF Cardinality(P) = NumServers
           THEN /\ proposals' = [proposals EXCEPT ![s][m.text] = {}]
                /\ net' = (net \ {m}) \cup
                     {[type |-> "AGREEMENT", dst |-> d, room |-> m.room,
                       text |-> m.text, id |-> Largest(P).id, by |-> Largest(P).by] :
                        d \in forward_to_servers(s, TRUE)}
           ELSE /\ proposals' = [proposals EXCEPT ![s][m.text] = P]
                /\ net' = net \ {m}
        /\ UNCHANGED <<PROPOSED, AGREED, HOLD_BACK_QUEUE_TOTAL, up, forwarded, posted>>

(* Mutant: the entry under the proposed number is not erased. *)
AgreeWithoutErase(q, m) ==
    {q \cup {[id |-> m.id, by |-> m.by, deliverable |-> TRUE, text |-> m.text]}}

(* The queue after an agreement.  The entry of the text moves to the agreed *)
(* key.  The range-for erases the entry its iterator stands on, so which of *)
(* several entries with equal text follow the first one is up to the build.*)
Agree(q, m) ==
    LET same  == {e \in q : e.text = m.text}
        moved == [id |-> m.id, by |-> m.by, deliverable |-> TRUE, text |-> m.text]
        others(gone) == {e \in q \ gone : ~ (e.id = m.id /\ e.by = m.by)}
    IN  IF same = {} THEN {q}
        ELSE {others(gone) \cup {moved} :
                gone \in {g \in SUBSET same : \E e \in g : \A f \in same : ~ Before(f, e)}}

(* Mutant: all that can be delivered, wherever it stands in the queue. *)
AnyDeliverable(q) == {e \in q : e.deliverable}

(* The entries at the head of the queue that can be delivered.             *)
Ready(q) == {e \in q : e.deliverable /\ \A f \in q : Before(f, e) => f.deliverable}

(* The orders of a set of entries by key: a map is gone through in order.  *)
InKeyOrder(S) ==
    {out \in SetToSeqs(S) : \A i, j \in DOMAIN out : i < j => Before(out[i], out[j])}

(* The agreed number is recorded and the head of the queue is forwarded as *)
(* long as it can be delivered.  Continuing the range-for after the erase, *)
(* and begin() of a queue that has become empty, are undefined: the server *)
(* may die there, before or after it forwards.                             *)
HandleAgreement(m) ==
    LET s == m.dst
        q == HOLD_BACK_QUEUE_TOTAL[s][m.room]
    IN  /\ up[s]
        /\ net' = net \ {m}
        /\ AGREED' = [AGREED EXCEPT ![s][m.room] = Larger(@, m.id)]
        /\ \E agreed \in Agree(q, m) : \E out \in InKeyOrder(Ready(agreed)) :
             LET left == agreed \ Ready(agreed)
             IN  /\ HOLD_BACK_QUEUE_TOTAL' =
                      [HOLD_BACK_QUEUE_TOTAL EXCEPT ![s][m.room] = left]
                 /\ \/ /\ forwarded' = [forwarded EXCEPT ![s][m.room] = @ \o out]
                       /\ \/ UNCHANGED up
                          \/ Crashes /\ left = {} /\ up' = [up EXCEPT ![s] = FALSE]
                    \/ /\ Crashes
                       /\ \E e \in q : e.text = m.text
                       /\ UNCHANGED forwarded
                       /\ up' = [up EXCEPT ![s] = FALSE]
        /\ UNCHANGED <<PROPOSED, proposals, posted>>

-----------------------------------------------------------------------------
(* Datagrams arrive in any order. *)
handle_total_order(m) ==
    /\ m \in net
    /\ \/ m.type = "NEW_MESSAGE" /\ HandleNewMessage(m)
       \/ m.type = "PROPOSAL" /\ HandleProposal(m)
       \/ m.type = "AGREEMENT" /\ HandleAgreement(m)

Next ==
    \/ \E s \in Servers, r \in Rooms, t \in Texts : Post(s, r, t)
    \/ \E m \in net : handle_total_order(m)

Spec == Init /\ [][Next]_vars

-----------------------------------------------------------------------------
(* Type invariant of the servers in total mode; a map holds a key once. *)
TypeOK ==
    /\ net \subseteq NewMessage \cup Proposal \cup Agreement
    /\ PROPOSED \in [Servers -> [Rooms -> Numbers \cup {0}]]
    /\ AGREED \in [Servers -> [Rooms -> Numbers \cup {0}]]
    /\ \A s \in Servers, r \in Rooms :
         /\ HOLD_BACK_QUEUE_TOTAL[s][r] \subseteq Held
         /\ \A e, f \in HOLD_BACK_QUEUE_TOTAL[s][r] :
              e.id = f.id /\ e.by = f.by => e = f
    /\ proposals \in [Servers -> [Texts -> SUBSET Proposed]]
    /\ up \in [Servers -> BOOLEAN]
    /\ forwarded \in [Servers -> [Rooms -> Seq(Held)]]
    /\ posted \in Seq([room : Rooms, text : Texts])

TextsOf(log) == [i \in 1..Len(log) |-> log[i].text]

(* Any two servers forward the texts of a room in the same order: one has  *)
(* forwarded a beginning of what the other has ("For total ordering, we    *)
(* need to check whether all clients receive the messages in the same      *)
(* order", stresstest.cc).                                                 *)
TotalOrder ==
    \A d, e \in Servers, r \in Rooms :
        \/ IsPrefix(TextsOf(forwarded[d][r]), TextsOf(forwarded[e][r]))
        \/ IsPrefix(TextsOf(forwarded[e][r]), TextsOf(forwarded[d][r]))

(* A server forwards in the order of the agreed keys, and nothing that it  *)
(* still holds will be ordered before what it has forwarded already.       *)
AgreedOrder ==
    \A s \in Servers, r \in Rooms :
        LET log == forwarded[s][r]
        IN  /\ \A i, j \in 1..Len(log) : i < j => Before(log[i], log[j])
            /\ up[s] => \A e \in HOLD_BACK_QUEUE_TOTAL[s][r] :
                            \A i \in 1..Len(log) : Before(log[i], e)

(* Nothing is left behind: when no datagram is on its way and no server    *)
(* has died, every server has forwarded every text that was posted, holds  *)
(* none back and waits for no proposal.  (Each datagram handled leads to   *)
(* an agreement or to the end of one, so such a state is always reached if *)
(* datagrams arrive.)                                                      *)
Settled ==
    net = {} /\ (\A s \in Servers : up[s]) =>
        \A s \in Servers :
            /\ \A t \in Texts : proposals[s][t] = {}
            /\ \A r \in Rooms :
                 /\ HOLD_BACK_QUEUE_TOTAL[s][r] = {}
                 /\ {forwarded[s][r][i].text : i \in 1..Len(forwarded[s][r])}
                      = {posted[k].text : k \in {j \in 1..Len(posted) : posted[j].room = r}}

=============================================================================
