----------------------------- MODULE ChatFifo ------------------------------
(***************************************************************************)
(* Distributed-chat-server/chatserver.cc run with "-o fifo": every server  *)
(* is one event loop over one UDP socket, and a pass of the loop, one      *)
(* datagram, is one step here.                                             *)
(*                                                                         *)
(* A text is named by its number among the texts posted to the same room   *)
(* through the same server: no other property of it steers the program.    *)
(***************************************************************************)
EXTENDS ChatClients

CONSTANTS
    MaxPosts,       \* bound on the posts per server and room
    Loses,          \* may the network lose datagrams?
    Duplicates      \* may it deliver one twice?

ASSUME FifoAssumption ==
    /\ MaxPosts \in Nat
    /\ Loses \in BOOLEAN
    /\ Duplicates \in BOOLEAN

VARIABLES
    net,                    \* datagrams between servers in flight
    FIFO_MESSAGE_ID,        \* [server][room]: posts numbered so far
    RECEIVED,               \* [server][room][sender]: last id forwarded
    HOLD_BACK_QUEUE_FIFO,   \* [server][room][sender][id]: text, or Nothing
    forwarded               \* history: texts of [sender] the server has
                            \* forwarded to its clients in [room], in order

serverVars == <<net, FIFO_MESSAGE_ID, RECEIVED, HOLD_BACK_QUEUE_FIFO, forwarded>>
vars == <<clientVars, serverVars>>

Ids     == 1..MaxPosts
Nothing == 0

Datagram == [src : Servers, dst : Servers, room : Rooms, id : Ids, text : Ids]

(* What a client receives: the text and whose it is. *)
Labelled(src, r, texts) ==
    [i \in 1..Len(texts) |-> [src |-> src, room |-> r, text |-> texts[i]]]

Init ==
    /\ ClientsInit
    /\ net = {}
    /\ FIFO_MESSAGE_ID = [s \in Servers |-> [r \in Rooms |-> 0]]
    /\ RECEIVED = [s \in Servers |-> [r \in Rooms |-> [n \in Servers |-> 0]]]
    /\ HOLD_BACK_QUEUE_FIFO =
         [s \in Servers |-> [r \in Rooms |-> [n \in Servers |->
            [k \in Ids |-> Nothing]]]]
    /\ forwarded = [s \in Servers |-> [r \in Rooms |-> [n \in Servers |-> <<>>]]]

-----------------------------------------------------------------------------
(* A client in a room posts a text: its server forwards it at once to its  *)
(* own clients, numbers it and sends it to the other servers.              *)
Post(c) ==
    LET s  == ServerOf[c]
        r  == CLIENTS[c]
        id == FIFO_MESSAGE_ID[s][r] + 1
    IN  /\ CLIENTS[c] \in Rooms
        /\ id \in Ids
        /\ forward_to_clients(s, Labelled(s, r, <<id>>), r)
        /\ forwarded' = [forwarded EXCEPT ![s][r][s] = Append(@, id)]
        /\ FIFO_MESSAGE_ID' = [FIFO_MESSAGE_ID EXCEPT ![s][r] = id]
        /\ net' = net \cup
             {[src |-> s, dst |-> d, room |-> r, id |-> id, text |-> id] :
                d \in forward_to_servers(s, FALSE)}
        /\ UNCHANGED <<CLIENTS, RECEIVED, HOLD_BACK_QUEUE_FIFO>>

(* Mutant: the run jumps over the gaps. *)
LastHeld(h, n) ==
    CHOOSE k \in n..MaxPosts :
        /\ k = n \/ h[k] # Nothing
        /\ \A j \in (k + 1)..MaxPosts : h[j] = Nothing

(* Mutant: one text is released per datagram, an "if" for the "while". *)
AtMostOne(h, n) == IF n + 1 \in Ids /\ h[n + 1] # Nothing THEN n + 1 ELSE n

(* The last id of the run of texts that follows id n without a gap in h.   *)
LastInRun(h, n) ==
    CHOOSE k \in n..MaxPosts :
        /\ \A j \in (n + 1)..k : h[j] # Nothing
        /\ k + 1 \in Ids => h[k + 1] = Nothing

(* Mutant: a text is forwarded as it comes. *)
ForwardAtOnce(m) ==
    /\ forward_to_clients(m.dst, Labelled(m.src, m.room, <<m.text>>), m.room)
    /\ forwarded' = [forwarded EXCEPT ![m.dst][m.room][m.src] = Append(@, m.text)]
    /\ RECEIVED' = [RECEIVED EXCEPT ![m.dst][m.room][m.src] = m.id]
    /\ UNCHANGED <<CLIENTS, FIFO_MESSAGE_ID, HOLD_BACK_QUEUE_FIFO>>

(* The text joins the hold-back queue under its id; then every text that   *)
(* follows the last one forwarded is forwarded and leaves the queue.       *)
handle_fifo_order(m) ==
    LET s    == m.dst
        r    == m.room
        n    == m.src
        held == [HOLD_BACK_QUEUE_FIFO[s][r][n] EXCEPT ![m.id] = m.text]
        old  == RECEIVED[s][r][n]
        last == LastInRun(held, old)
        out  == [i \in 1..(last - old) |-> held[old + i]]
    IN  /\ forward_to_clients(s, Labelled(n, r, out), r)
        /\ forwarded' = [forwarded EXCEPT ![s][r][n] = @ \o out]
        /\ RECEIVED' = [RECEIVED EXCEPT ![s][r][n] = last]
        /\ HOLD_BACK_QUEUE_FIFO' = [HOLD_BACK_QUEUE_FIFO EXCEPT ![s][r][n] =
             [k \in Ids |-> IF k \in (old + 1)..last THEN Nothing ELSE held[k]]]
        /\ UNCHANGED <<CLIENTS, FIFO_MESSAGE_ID>>

-----------------------------------------------------------------------------
(* Datagrams arrive in any order; the network may lose or repeat them. *)
Receive(m) ==
    /\ m \in net
    /\ net' = net \ {m}
    /\ handle_fifo_order(m)

ReceiveCopy(m) ==
    /\ Duplicates
    /\ m \in net
    /\ UNCHANGED net
    /\ handle_fifo_order(m)

Lose(m) ==
    /\ Loses
    /\ m \in net
    /\ net' = net \ {m}
    /\ UNCHANGED <<clientVars, FIFO_MESSAGE_ID, RECEIVED, HOLD_BACK_QUEUE_FIFO,
                   forwarded>>

Next ==
    \/ ClientStep /\ UNCHANGED serverVars
    \/ \E c \in Clients : Post(c)
    \/ \E m \in net : Receive(m) \/ ReceiveCopy(m) \/ Lose(m)

Spec == Init /\ [][Next]_vars

-----------------------------------------------------------------------------
(* Type invariant of the chat server's state. *)
TypeOK ==
    /\ CLIENTS \in [Clients -> Rooms \cup {NoRoom, Unregistered}]
    /\ inbox \in [Clients -> Seq([src : Servers, room : Rooms, text : Ids])]
    /\ net \subseteq Datagram
    /\ FIFO_MESSAGE_ID \in [Servers -> [Rooms -> 0..MaxPosts]]
    /\ RECEIVED \in [Servers -> [Rooms -> [Servers -> 0..MaxPosts]]]
    /\ HOLD_BACK_QUEUE_FIFO \in
         [Servers -> [Rooms -> [Servers -> [Ids -> Ids \cup {Nothing}]]]]
    /\ forwarded \in [Servers -> [Rooms -> [Servers -> Seq(Ids)]]]

(* What server d forwards of the texts posted through n is always a prefix *)
(* of them, in the order they were posted: nothing is missing, repeated or *)
(* reordered, whatever the network does to the datagrams (handle_fifo_order*)
(* and its hold-back queue).                                               *)
FifoOrder ==
    \A d, n \in Servers, r \in Rooms :
        /\ Len(forwarded[d][r][n]) <= FIFO_MESSAGE_ID[n][r]
        /\ \A i \in 1..Len(forwarded[d][r][n]) : forwarded[d][r][n][i] = i

(* A client that comes and goes, and changes rooms, never sees two texts   *)
(* of one room and one server in the reverse of the order they were posted *)
(* in, nor the same text twice (what checkMessageOrdering of stresstest.cc *)
(* tests for a client that stays).                                         *)
ClientFifo ==
    \A c \in Clients : \A i, j \in 1..Len(inbox[c]) :
        ( /\ i < j
          /\ inbox[c][i].src = inbox[c][j].src
          /\ inbox[c][i].room = inbox[c][j].room )
        => inbox[c][i].text < inbox[c][j].text

(* A text waits in a hold-back queue only behind one that has not come:    *)
(* after a pass of the loop the text after the last one forwarded is never *)
(* held, so no text is stuck that could be forwarded.                      *)
NothingStuck ==
    \A d, n \in Servers, r \in Rooms :
        RECEIVED[d][r][n] + 1 \in Ids =>
            HOLD_BACK_QUEUE_FIFO[d][r][n][RECEIVED[d][r][n] + 1] = Nothing

(* The servers together implement the abstract FIFO multicast: *)
(* the hold-back queues, the ids and the datagrams cannot be seen in what  *)
(* is forwarded.                                                           *)
Multicast == INSTANCE FifoMulticast
               WITH posted <- FIFO_MESSAGE_ID, log <- forwarded

ImplementsMulticast == Multicast!Spec

=============================================================================
