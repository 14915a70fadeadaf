-------------------------- MODULE ChatFifo_proofs --------------------------
(***************************************************************************)
(* Proofs about ChatFifo, for every number of servers, rooms, clients and  *)
(* posts, with a network that may lose, repeat and reorder datagrams.      *)
(***************************************************************************)
EXTENDS ChatFifo, TLAPS, WellFoundedInduction, SequenceTheorems

LEMMA LeqTransitive ==
    \A a, b, c \in Nat : a <= b /\ b <= c => a <= c
OBVIOUS

(* Updating one cell of a table of tables changes that cell and no other.  *)
LEMMA Update2 ==
    ASSUME NEW A, NEW B, NEW f, NEW a \in A, NEW b \in B, NEW v,
           DOMAIN f = A, \A x \in A : DOMAIN f[x] = B,
           NEW g, g = [f EXCEPT ![a][b] = v]
    PROVE  \A x \in A, y \in B : g[x][y] = IF x = a /\ y = b THEN v ELSE f[x][y]
OBVIOUS

LEMMA Update3 ==
    ASSUME NEW A, NEW B, NEW C, NEW f, NEW a \in A, NEW b \in B, NEW c \in C, NEW v,
           DOMAIN f = A, \A x \in A : DOMAIN f[x] = B,
           \A x \in A, y \in B : DOMAIN f[x][y] = C,
           NEW g, g = [f EXCEPT ![a][b][c] = v]
    PROVE  \A x \in A, y \in B, z \in C :
              g[x][y][z] = IF x = a /\ y = b /\ z = c THEN v ELSE f[x][y][z]
<1>1. g = [f EXCEPT ![a] = [f[a] EXCEPT ![b] = [f[a][b] EXCEPT ![c] = v]]]
  OBVIOUS
<1>2. \A x \in A : g[x] = IF x = a THEN [f[a] EXCEPT ![b] = [f[a][b] EXCEPT ![c] = v]]
                                   ELSE f[x]
  BY <1>1
<1>3. \A y \in B : g[a][y] = IF y = b THEN [f[a][b] EXCEPT ![c] = v] ELSE f[a][y]
  BY <1>2
<1>4. \A z \in C : g[a][b][z] = IF z = c THEN v ELSE f[a][b][z]
  BY <1>3
<1> QED
  BY <1>2, <1>3, <1>4

LEMMA Domains3 ==
    ASSUME NEW A, NEW B, NEW C, NEW V, NEW f \in [A -> [B -> [C -> V]]]
    PROVE  /\ DOMAIN f = A
           /\ \A x \in A : DOMAIN f[x] = B
           /\ \A x \in A, y \in B : DOMAIN f[x][y] = C
OBVIOUS

(* The naturals from 1 to n, continued to last.                            *)
LEMMA CountOn ==
    ASSUME NEW n \in Nat, NEW last \in Nat, last >= n,
           NEW seq \in Seq(Nat), Len(seq) = n, \A i \in 1..n : seq[i] = i
    PROVE  LET more == seq \o [i \in 1..(last - n) |-> n + i]
           IN  /\ Len(more) = last
               /\ \A i \in 1..last : more[i] = i
<1> DEFINE out == [i \in 1..(last - n) |-> n + i]
           more == seq \o out
<1>1. /\ out \in Seq(Nat)
      /\ Len(out) = last - n
      /\ \A i \in 1..(last - n) : out[i] = n + i
  OBVIOUS
<1> HIDE DEF out
<1>2. /\ Len(more) = n + (last - n)
      /\ \A i \in 1..(n + (last - n)) :
            more[i] = IF i <= n THEN seq[i] ELSE out[i - n]
  BY <1>1, ConcatProperties
<1> HIDE DEF more
<1>3. \A i \in 1..last : more[i] = i
  <2> TAKE i \in 1..last
  <2>1. CASE i <= n
    BY <1>2, <2>1
  <2>2. CASE i > n
    <3>1. i - n \in 1..(last - n) /\ n + (i - n) = i
      BY <2>2
    <3>2. out[i - n] = n + (i - n)
      BY <1>1, <3>1
    <3>3. more[i] = out[i - n]
      BY <1>2, <2>2
    <3> QED
      BY <3>1, <3>2, <3>3
  <2> QED
    BY <2>1, <2>2
<1>4. Len(more) = last
  BY <1>2
<1> QED
  BY <1>3, <1>4 DEF more, out

(* A non-empty set of naturals has a least element.                        *)
LEMMA LeastNatural ==
    ASSUME NEW T, T \subseteq Nat, T # {}
    PROVE  \E x \in T : \A y \in T : x <= y
<1>1. \E x \in T : \A y \in T : ~ (<<y, x>> \in OpToRel(<, Nat))
  BY NatLessThanWellFounded, WFMin, Zenon
<1>2. PICK x \in T : \A y \in T : ~ (<<y, x>> \in OpToRel(<, Nat))
  BY <1>1
<1>3. \A y \in T : ~ (y < x)
  BY <1>2, Zenon DEF OpToRel
<1>4. \A y \in T : x <= y
  BY <1>3
<1> QED
  BY <1>4

(* The run LastInRun finds has no gap and cannot be continued.             *)
LEMMA LastInRunProperties ==
    ASSUME NEW h \in [Ids -> Ids \cup {Nothing}], NEW n \in 0..MaxPosts,
           MaxPosts \in Nat
    PROVE  LET k == LastInRun(h, n)
           IN  /\ k \in n..MaxPosts
               /\ \A j \in (n + 1)..k : h[j] # Nothing
               /\ k + 1 \in Ids => h[k + 1] = Nothing
<1> DEFINE Gaps == {j \in (n + 1)..(MaxPosts + 1) :
                      j \in Ids => h[j] = Nothing}
<1>1. PICK g \in Gaps : \A y \in Gaps : g <= y
  <2>1. MaxPosts + 1 \in Gaps
    BY DEF Ids
  <2>2. Gaps \subseteq Nat
    OBVIOUS
  <2> HIDE DEF Gaps
  <2> QED
    BY <2>1, <2>2, LeastNatural
<1>2. /\ g - 1 \in n..MaxPosts
      /\ \A j \in (n + 1)..(g - 1) : h[j] # Nothing
      /\ (g - 1) + 1 \in Ids => h[(g - 1) + 1] = Nothing
  <2>1. g \in (n + 1)..(MaxPosts + 1) /\ (g \in Ids => h[g] = Nothing)
    OBVIOUS
  <2>2. \A j \in (n + 1)..(g - 1) : j \notin Gaps
    BY <1>1, <2>1
  <2>3. \A j \in (n + 1)..(g - 1) : h[j] # Nothing
    BY <2>1, <2>2
  <2> QED
    BY <2>1, <2>3
<1> QED
  BY <1>2 DEF LastInRun

-----------------------------------------------------------------------------
(* What a client is sent. *)
Entry == [src : Servers, room : Rooms, text : Ids]

LEMMA LabelledType ==
    ASSUME NEW src \in Servers, NEW r \in Rooms, NEW texts \in Seq(Ids)
    PROVE  /\ Labelled(src, r, texts) \in Seq(Entry)
           /\ Len(Labelled(src, r, texts)) = Len(texts)
           /\ \A i \in 1..Len(texts) :
                Labelled(src, r, texts)[i] =
                    [src |-> src, room |-> r, text |-> texts[i]]
<1>1. Len(texts) \in Nat /\ \A i \in 1..Len(texts) : texts[i] \in Ids
  OBVIOUS
<1> QED
  BY <1>1 DEF Labelled, Entry

LEMMA ForwardType ==
    ASSUME inbox \in [Clients -> Seq(Entry)],
           NEW s, NEW r, NEW texts \in Seq(Entry),
           forward_to_clients(s, texts, r)
    PROVE  inbox' \in [Clients -> Seq(Entry)]
<1>1. \A c \in Clients : inbox[c] \o texts \in Seq(Entry)
  OBVIOUS
<1> QED
  BY <1>1 DEF forward_to_clients

(* The texts a datagram releases, and the state handle_fifo_order leaves.  *)
LEMMA RunType ==
    ASSUME NEW h \in [Ids -> Ids \cup {Nothing}], NEW n \in 0..MaxPosts,
           MaxPosts \in Nat,
           NEW out, out = [i \in 1..(LastInRun(h, n) - n) |-> h[n + i]]
    PROVE  /\ out \in Seq(Ids)
           /\ Len(out) = LastInRun(h, n) - n
           /\ \A i \in 1..Len(out) : out[i] = h[n + i] /\ n + i \in Ids
<1> DEFINE k == LastInRun(h, n)
<1>1. /\ k \in n..MaxPosts
      /\ \A j \in (n + 1)..k : h[j] # Nothing
  BY LastInRunProperties
<1> HIDE DEF k
<1>2. k - n \in Nat
  BY <1>1
<1>3. \A i \in 1..(k - n) : n + i \in Ids /\ n + i \in (n + 1)..k
  BY <1>1 DEF Ids
<1>4. \A i \in 1..(k - n) : h[n + i] \in Ids
  BY <1>1, <1>3
<1>5. out = [i \in 1..(k - n) |-> h[n + i]]
  BY DEF k
<1> QED
  BY <1>2, <1>3, <1>4, <1>5 DEF k

-----------------------------------------------------------------------------
(* Type correctness. *)
LEMMA TypeInit == Init => TypeOK
BY FifoAssumption, ClientsAssumption
   DEF Init, ClientsInit, TypeOK, Servers, NoRoom, Unregistered, Nothing

LEMMA TypePost ==
    ASSUME TypeOK, NEW c \in Clients, Post(c)
    PROVE  TypeOK'
<1> DEFINE s == ServerOf[c]
           r == CLIENTS[c]
           id == FIFO_MESSAGE_ID[s][r] + 1
<1>1. /\ s \in Servers
      /\ r \in Rooms
      /\ id \in Ids
      /\ id \in 0..MaxPosts
  BY ClientsAssumption, FifoAssumption DEF Post, Ids
<1>2. inbox' \in [Clients -> Seq(Entry)]
  <2>1. forward_to_clients(s, Labelled(s, r, <<id>>), r)
    BY DEF Post
  <2>2. <<id>> \in Seq(Ids)
    BY <1>1
  <2>3. Labelled(s, r, <<id>>) \in Seq(Entry)
    BY <1>1, <2>2, LabelledType
  <2>4. inbox \in [Clients -> Seq(Entry)]
    BY DEF TypeOK, Entry
  <2> QED
    BY <2>1, <2>3, <2>4, ForwardType
<1>3. net' \subseteq Datagram
  BY <1>1 DEF Post, TypeOK, Datagram, forward_to_servers
<1>4. forwarded' \in [Servers -> [Rooms -> [Servers -> Seq(Ids)]]]
  <2>1. Append(forwarded[s][r][s], id) \in Seq(Ids)
    BY <1>1 DEF TypeOK
  <2> QED
    BY <1>1, <2>1 DEF Post, TypeOK
<1>5. FIFO_MESSAGE_ID' \in [Servers -> [Rooms -> 0..MaxPosts]]
  BY <1>1 DEF Post, TypeOK
<1> QED
  BY <1>2, <1>3, <1>4, <1>5 DEF Post, TypeOK, Entry

LEMMA TypeHandle ==
    ASSUME TypeOK, NEW m \in net, handle_fifo_order(m)
    PROVE  /\ inbox' \in [Clients -> Seq(Entry)]
           /\ RECEIVED' \in [Servers -> [Rooms -> [Servers -> 0..MaxPosts]]]
           /\ HOLD_BACK_QUEUE_FIFO' \in
                [Servers -> [Rooms -> [Servers -> [Ids -> Ids \cup {Nothing}]]]]
           /\ forwarded' \in [Servers -> [Rooms -> [Servers -> Seq(Ids)]]]
           /\ UNCHANGED <<CLIENTS, FIFO_MESSAGE_ID>>
<1>1. /\ m.src \in Servers
      /\ m.dst \in Servers
      /\ m.room \in Rooms
      /\ m.id \in Ids
      /\ m.text \in Ids
      /\ MaxPosts \in Nat
      /\ inbox \in [Clients -> Seq(Entry)]
  BY FifoAssumption DEF TypeOK, Datagram, Entry
<1> DEFINE s == m.dst
           r == m.room
           n == m.src
           held == [HOLD_BACK_QUEUE_FIFO[s][r][n] EXCEPT ![m.id] = m.text]
           old == RECEIVED[s][r][n]
           last == LastInRun(held, old)
           out == [i \in 1..(last - old) |-> held[old + i]]
<1>2. /\ HOLD_BACK_QUEUE_FIFO[s][r][n] \in [Ids -> Ids \cup {Nothing}]
      /\ old \in 0..MaxPosts
      /\ forwarded[s][r][n] \in Seq(Ids)
  BY <1>1 DEF TypeOK
<1>3. held \in [Ids -> Ids \cup {Nothing}] /\ old \in 0..MaxPosts
  BY <1>1, <1>2
<1>4. last \in old..MaxPosts
  BY <1>1, <1>3, LastInRunProperties
<1>5. out \in Seq(Ids)
  BY <1>1, <1>3, RunType
<1>6. forwarded[s][r][n] \o out \in Seq(Ids)
  BY <1>2, <1>5, ConcatProperties, Zenon
<1>7. Labelled(n, r, out) \in Seq(Entry)
  BY <1>1, <1>5, LabelledType
<1>8. /\ forward_to_clients(s, Labelled(n, r, out), r)
      /\ forwarded' = [forwarded EXCEPT ![s][r][n] = @ \o out]
      /\ RECEIVED' = [RECEIVED EXCEPT ![s][r][n] = last]
      /\ HOLD_BACK_QUEUE_FIFO' = [HOLD_BACK_QUEUE_FIFO EXCEPT ![s][r][n] =
           [k \in Ids |-> IF k \in (old + 1)..last THEN Nothing ELSE held[k]]]
      /\ UNCHANGED <<CLIENTS, FIFO_MESSAGE_ID>>
  BY DEF handle_fifo_order
<1>9. [k \in Ids |-> IF k \in (old + 1)..last THEN Nothing ELSE held[k]]
        \in [Ids -> Ids \cup {Nothing}]
  BY <1>3
<1>10. last \in 0..MaxPosts
  BY <1>1, <1>3, <1>4
<1>11. inbox' \in [Clients -> Seq(Entry)]
  BY <1>1, <1>7, <1>8, ForwardType
<1> HIDE DEF held, old, last, out
<1>12. HOLD_BACK_QUEUE_FIFO' \in
         [Servers -> [Rooms -> [Servers -> [Ids -> Ids \cup {Nothing}]]]]
  BY <1>1, <1>8, <1>9 DEF TypeOK
<1>13. RECEIVED' \in [Servers -> [Rooms -> [Servers -> 0..MaxPosts]]]
  BY <1>1, <1>8, <1>10 DEF TypeOK
<1>14. forwarded' \in [Servers -> [Rooms -> [Servers -> Seq(Ids)]]]
  BY <1>1, <1>6, <1>8 DEF TypeOK
<1> QED
  BY <1>8, <1>11, <1>12, <1>13, <1>14

LEMMA TypeClientStep ==
    ASSUME TypeOK, ClientStep, UNCHANGED serverVars
    PROVE  TypeOK'
<1>1. CLIENTS' \in [Clients -> Rooms \cup {NoRoom, Unregistered}]
  BY DEF TypeOK, ClientStep, handle_new_client, Join, Part, Quit
<1>2. UNCHANGED inbox
  BY DEF ClientStep, handle_new_client, Join, Part, Quit
<1> QED
  BY <1>1, <1>2 DEF TypeOK, serverVars

LEMMA TypeNext == TypeOK /\ [Next]_vars => TypeOK'
<1> SUFFICES ASSUME TypeOK, [Next]_vars
             PROVE  TypeOK'
  OBVIOUS
<1>1. CASE ClientStep /\ UNCHANGED serverVars
  BY <1>1, TypeClientStep
<1>2. ASSUME NEW c \in Clients, Post(c)
      PROVE  TypeOK'
  BY <1>2, TypePost
<1>3. ASSUME NEW m \in net, Receive(m) \/ ReceiveCopy(m)
      PROVE  TypeOK'
  <2>1. handle_fifo_order(m) /\ net' \subseteq net
    BY <1>3 DEF Receive, ReceiveCopy
  <2> QED
    BY <2>1, TypeHandle DEF TypeOK, Entry
<1>4. ASSUME NEW m \in net, Lose(m)
      PROVE  TypeOK'
  BY <1>4 DEF Lose, TypeOK, clientVars
<1>5. CASE UNCHANGED vars
  BY <1>5 DEF vars, clientVars, serverVars, TypeOK
<1> QED
  BY <1>1, <1>2, <1>3, <1>4, <1>5 DEF Next

(* The state of every server keeps its type, under any interleaving. *)
THEOREM TypeCorrect == Spec => []TypeOK
<1> QED
  BY TypeInit, TypeNext, PTL DEF Spec

-----------------------------------------------------------------------------
(***************************************************************************)
(* Order.  The invariant: datagrams and held texts carry the id they were  *)
(* posted under, of a post that has been made; and what a server has       *)
(* forwarded is as long as its counter of that sender says.                *)
(***************************************************************************)
NetSound ==
    \A m \in net :
        m.src # m.dst /\ m.text = m.id /\ m.id <= FIFO_MESSAGE_ID[m.src][m.room]

HeldSound ==
    \A d, n \in Servers, r \in Rooms, k \in Ids :
        HOLD_BACK_QUEUE_FIFO[d][r][n][k] # Nothing =>
            /\ HOLD_BACK_QUEUE_FIFO[d][r][n][k] = k
            /\ k <= FIFO_MESSAGE_ID[n][r]

Counts ==
    \A d, n \in Servers, r \in Rooms :
        Len(forwarded[d][r][n]) =
            IF d = n THEN FIFO_MESSAGE_ID[n][r] ELSE RECEIVED[d][r][n]

InOrder ==
    \A d, n \in Servers, r \in Rooms :
        /\ Len(forwarded[d][r][n]) <= FIFO_MESSAGE_ID[n][r]
        /\ \A i \in 1..Len(forwarded[d][r][n]) : forwarded[d][r][n][i] = i

OrderInv == NetSound /\ HeldSound /\ Counts /\ InOrder

LEMMA TableDomains ==
    ASSUME TypeOK
    PROVE  /\ /\ DOMAIN forwarded = Servers
              /\ \A d \in Servers : DOMAIN forwarded[d] = Rooms
              /\ \A d \in Servers, r \in Rooms : DOMAIN forwarded[d][r] = Servers
           /\ /\ DOMAIN RECEIVED = Servers
              /\ \A d \in Servers : DOMAIN RECEIVED[d] = Rooms
              /\ \A d \in Servers, r \in Rooms : DOMAIN RECEIVED[d][r] = Servers
           /\ /\ DOMAIN HOLD_BACK_QUEUE_FIFO = Servers
              /\ \A d \in Servers : DOMAIN HOLD_BACK_QUEUE_FIFO[d] = Rooms
              /\ \A d \in Servers, r \in Rooms : DOMAIN HOLD_BACK_QUEUE_FIFO[d][r] = Servers
<1>1. /\ DOMAIN forwarded = Servers
      /\ \A d \in Servers : DOMAIN forwarded[d] = Rooms
      /\ \A d \in Servers, r \in Rooms : DOMAIN forwarded[d][r] = Servers
  <2>1. forwarded \in [Servers -> [Rooms -> [Servers -> Seq(Ids)]]]
    BY DEF TypeOK
  <2> QED
    BY <2>1, Domains3
<1>2. /\ DOMAIN RECEIVED = Servers
      /\ \A d \in Servers : DOMAIN RECEIVED[d] = Rooms
      /\ \A d \in Servers, r \in Rooms : DOMAIN RECEIVED[d][r] = Servers
  <2>1. RECEIVED \in [Servers -> [Rooms -> [Servers -> 0..MaxPosts]]]
    BY DEF TypeOK
  <2> QED
    BY <2>1, Domains3
<1>3. /\ DOMAIN HOLD_BACK_QUEUE_FIFO = Servers
      /\ \A d \in Servers : DOMAIN HOLD_BACK_QUEUE_FIFO[d] = Rooms
      /\ \A d \in Servers, r \in Rooms : DOMAIN HOLD_BACK_QUEUE_FIFO[d][r] = Servers
  <2>1. HOLD_BACK_QUEUE_FIFO \in [Servers -> [Rooms -> [Servers -> [Ids -> Ids \cup {Nothing}]]]]
    BY DEF TypeOK
  <2> QED
    BY <2>1, Domains3
<1> QED
  BY <1>1, <1>2, <1>3

LEMMA OrderInit == Init => OrderInv
BY FifoAssumption DEF Init, OrderInv, NetSound, HeldSound, Counts, InOrder, Nothing

LEMMA OrderPost ==
    ASSUME TypeOK, OrderInv, NEW c \in Clients, Post(c)
    PROVE  OrderInv'
<1> DEFINE s == ServerOf[c]
           q == CLIENTS[c]
           id == FIFO_MESSAGE_ID[s][q] + 1
<1>1. /\ s \in Servers
      /\ q \in Rooms
      /\ id \in Ids
      /\ FIFO_MESSAGE_ID[s][q] \in Nat
      /\ forwarded[s][q][s] \in Seq(Ids)
      /\ forwarded' = [forwarded EXCEPT ![s][q][s] = Append(@, id)]
      /\ FIFO_MESSAGE_ID' = [FIFO_MESSAGE_ID EXCEPT ![s][q] = id]
      /\ net' = net \cup
             {[src |-> s, dst |-> d, room |-> q, id |-> id, text |-> id] :
                d \in forward_to_servers(s, FALSE)}
      /\ UNCHANGED <<RECEIVED, HOLD_BACK_QUEUE_FIFO>>
  BY ClientsAssumption, FifoAssumption DEF Post, TypeOK
<1> HIDE DEF s, q, id
<1>2. /\ \A n \in Servers, r \in Rooms :
            FIFO_MESSAGE_ID'[n][r] =
                IF n = s /\ r = q THEN id ELSE FIFO_MESSAGE_ID[n][r]
      /\ \A n \in Servers, r \in Rooms : FIFO_MESSAGE_ID[n][r] \in Nat
      /\ id = FIFO_MESSAGE_ID[s][q] + 1
  <2>1. /\ DOMAIN FIFO_MESSAGE_ID = Servers
        /\ \A n \in Servers : DOMAIN FIFO_MESSAGE_ID[n] = Rooms
        /\ \A n \in Servers, r \in Rooms : FIFO_MESSAGE_ID[n][r] \in Nat
    BY FifoAssumption DEF TypeOK
  <2> QED
    BY <1>1, <2>1, Update2 DEF id
<1>3. \A d, n \in Servers, r \in Rooms :
            forwarded'[d][r][n] =
                IF d = s /\ n = s /\ r = q THEN Append(forwarded[s][q][s], id)
                ELSE forwarded[d][r][n]
  <2>1. /\ DOMAIN forwarded = Servers
        /\ \A d \in Servers : DOMAIN forwarded[d] = Rooms
        /\ \A d \in Servers, r \in Rooms : DOMAIN forwarded[d][r] = Servers
    BY TableDomains
  <2> DEFINE v == Append(forwarded[s][q][s], id)
  <2>2. forwarded' = [forwarded EXCEPT ![s][q][s] = v]
    BY <1>1
  <2> HIDE DEF v
  <2>3. \A d \in Servers, r \in Rooms, n \in Servers :
            forwarded'[d][r][n] =
                IF d = s /\ r = q /\ n = s THEN v ELSE forwarded[d][r][n]
    <3>1. s \in Servers /\ q \in Rooms
      BY <1>1
    <3> QED
      BY <2>1, <2>2, <3>1, Update3, Zenon
  <2> QED
    BY <2>3 DEF v
<1>4. NetSound'
  <2>1. \A m \in net : m.src \in Servers /\ m.room \in Rooms /\ m.id \in Nat
    BY FifoAssumption DEF TypeOK, Datagram, Ids
  <2>2. \A m \in net :
            m.src # m.dst /\ m.text = m.id /\ m.id <= FIFO_MESSAGE_ID'[m.src][m.room]
    BY <1>2, <2>1 DEF OrderInv, NetSound
  <2>3. \A m \in net' \ net :
            m.src # m.dst /\ m.text = m.id /\ m.id <= FIFO_MESSAGE_ID'[m.src][m.room]
    BY <1>1, <1>2 DEF forward_to_servers
  <2> QED
    BY <2>2, <2>3 DEF NetSound
<1>5. HeldSound'
  BY <1>1, <1>2, FifoAssumption DEF OrderInv, HeldSound, Ids
<1>6. /\ Len(forwarded[s][q][s]) = FIFO_MESSAGE_ID[s][q]
      /\ Len(Append(forwarded[s][q][s], id)) = id
      /\ \A i \in 1..id : Append(forwarded[s][q][s], id)[i] = i
  BY <1>1, <1>2 DEF OrderInv, Counts, InOrder
<1>7. Counts'
  <2>1. \A d, n \in Servers, r \in Rooms :
            Len(forwarded'[d][r][n]) =
                IF d = n THEN FIFO_MESSAGE_ID'[n][r] ELSE RECEIVED[d][r][n]
    <3> TAKE d, n \in Servers, r \in Rooms
    <3>1. CASE d = s /\ n = s /\ r = q
      BY <1>2, <1>3, <1>6, <3>1
    <3>2. CASE ~ (d = s /\ n = s /\ r = q)
      BY <1>2, <1>3, <3>2 DEF OrderInv, Counts
    <3> QED
      BY <3>1, <3>2
  <2> QED
    BY <1>1, <2>1 DEF Counts
<1>8. \A d, n \in Servers, r \in Rooms : Len(forwarded[d][r][n]) \in Nat
  BY DEF TypeOK
<1>9. InOrder'
  <2> SUFFICES ASSUME NEW d \in Servers, NEW n \in Servers, NEW r \in Rooms
               PROVE  /\ Len(forwarded'[d][r][n]) <= FIFO_MESSAGE_ID'[n][r]
                      /\ \A i \in 1..Len(forwarded'[d][r][n]) :
                            forwarded'[d][r][n][i] = i
    BY DEF InOrder
  <2>1. CASE d = s /\ n = s /\ r = q
    <3>1. /\ forwarded'[d][r][n] = Append(forwarded[s][q][s], id)
          /\ FIFO_MESSAGE_ID'[n][r] = id
      BY <1>2, <1>3, <2>1
    <3>2. id <= id
      BY <1>1, <1>2
    <3> QED
      BY <1>6, <3>1, <3>2, Zenon
  <2>2. CASE ~ (d = s /\ n = s /\ r = q)
    <3>1. /\ forwarded'[d][r][n] = forwarded[d][r][n]
          /\ FIFO_MESSAGE_ID[n][r] <= FIFO_MESSAGE_ID'[n][r]
          /\ FIFO_MESSAGE_ID[n][r] \in Nat
          /\ FIFO_MESSAGE_ID'[n][r] \in Nat
      BY <1>1, <1>2, <1>3, <2>2
    <3>2. /\ Len(forwarded[d][r][n]) <= FIFO_MESSAGE_ID[n][r]
          /\ \A i \in 1..Len(forwarded[d][r][n]) : forwarded[d][r][n][i] = i
      BY DEF OrderInv, InOrder
    <3> QED
      BY <1>8, <3>1, <3>2, LeqTransitive, Zenon
  <2> QED
    BY <2>1, <2>2
<1> QED
  BY <1>4, <1>5, <1>7, <1>9 DEF OrderInv

(* What the handler of one datagram does, in terms of the counters alone.  *)
LEMMA HandleEffect ==
    ASSUME TypeOK, OrderInv, NEW m \in net, handle_fifo_order(m)
    PROVE  \E last \in RECEIVED[m.dst][m.room][m.src]..MaxPosts :
             LET s   == m.dst
                 r   == m.room
                 n   == m.src
                 old == RECEIVED[s][r][n]
                 out == [i \in 1..(last - old) |-> old + i]
             IN  /\ last <= FIFO_MESSAGE_ID[n][r]
                 /\ forward_to_clients(s, Labelled(n, r, out), r)
                 /\ forwarded' = [forwarded EXCEPT ![s][r][n] = @ \o out]
                 /\ RECEIVED' = [RECEIVED EXCEPT ![s][r][n] = last]
                 /\ \E h \in [Ids -> Ids \cup {Nothing}] :
                      /\ HOLD_BACK_QUEUE_FIFO' =
                            [HOLD_BACK_QUEUE_FIFO EXCEPT ![s][r][n] = h]
                      /\ \A k \in Ids : h[k] # Nothing =>
                            h[k] = k /\ k <= FIFO_MESSAGE_ID[n][r]
                      /\ last + 1 \in Ids => h[last + 1] = Nothing
                 /\ UNCHANGED <<CLIENTS, FIFO_MESSAGE_ID>>
<1> DEFINE s == m.dst
           r == m.room
           n == m.src
           held == [HOLD_BACK_QUEUE_FIFO[s][r][n] EXCEPT ![m.id] = m.text]
           old == RECEIVED[s][r][n]
           last == LastInRun(held, old)
           out == [i \in 1..(last - old) |-> held[old + i]]
           left == [k \in Ids |-> IF k \in (old + 1)..last THEN Nothing ELSE held[k]]
<1>1. /\ s \in Servers
      /\ r \in Rooms
      /\ n \in Servers
      /\ m.id \in Ids
      /\ m.text = m.id
      /\ m.id <= FIFO_MESSAGE_ID[n][r]
      /\ MaxPosts \in Nat
  BY FifoAssumption DEF TypeOK, Datagram, OrderInv, NetSound
<1>2. /\ HOLD_BACK_QUEUE_FIFO[s][r][n] \in [Ids -> Ids \cup {Nothing}]
      /\ old \in 0..MaxPosts
      /\ FIFO_MESSAGE_ID[n][r] \in 0..MaxPosts
      /\ old <= FIFO_MESSAGE_ID[n][r]
  <2>1. n # s
    BY DEF OrderInv, NetSound
  <2>2. old = Len(forwarded[s][r][n])
    BY <1>1, <2>1 DEF OrderInv, Counts
  <2> QED
    BY <1>1, <2>2 DEF TypeOK, OrderInv, InOrder
<1>3. /\ held \in [Ids -> Ids \cup {Nothing}]
      /\ \A k \in Ids : held[k] # Nothing =>
            held[k] = k /\ k <= FIFO_MESSAGE_ID[n][r]
  <2>1. \A k \in Ids : HOLD_BACK_QUEUE_FIFO[s][r][n][k] # Nothing =>
            /\ HOLD_BACK_QUEUE_FIFO[s][r][n][k] = k
            /\ k <= FIFO_MESSAGE_ID[n][r]
    BY <1>1 DEF OrderInv, HeldSound
  <2> QED
    BY <1>1, <1>2, <2>1
<1> HIDE DEF held
<1>4. /\ last \in old..MaxPosts
      /\ \A j \in (old + 1)..last : held[j] # Nothing
      /\ last + 1 \in Ids => held[last + 1] = Nothing
  BY <1>1, <1>2, <1>3, LastInRunProperties
<1>5. /\ forward_to_clients(s, Labelled(n, r, out), r)
      /\ forwarded' = [forwarded EXCEPT ![s][r][n] = @ \o out]
      /\ RECEIVED' = [RECEIVED EXCEPT ![s][r][n] = last]
      /\ HOLD_BACK_QUEUE_FIFO' = [HOLD_BACK_QUEUE_FIFO EXCEPT ![s][r][n] = left]
      /\ UNCHANGED <<CLIENTS, FIFO_MESSAGE_ID>>
  BY DEF handle_fifo_order, held
<1> HIDE DEF last
<1>6. \A j \in (old + 1)..last : held[j] = j /\ j \in Ids /\ j <= FIFO_MESSAGE_ID[n][r]
  BY <1>1, <1>2, <1>3, <1>4 DEF Ids
<1>7. out = [i \in 1..(last - old) |-> old + i]
  BY <1>2, <1>4, <1>6
<1>8. last <= FIFO_MESSAGE_ID[n][r]
  <2>1. CASE last = old
    BY <1>2, <2>1
  <2>2. CASE last # old
    BY <1>2, <1>4, <1>6, <2>2
  <2> QED
    BY <2>1, <2>2
<1>9. /\ left \in [Ids -> Ids \cup {Nothing}]
      /\ \A k \in Ids : left[k] # Nothing =>
            left[k] = k /\ k <= FIFO_MESSAGE_ID[n][r]
      /\ last + 1 \in Ids => left[last + 1] = Nothing
  BY <1>2, <1>3, <1>4
<1> HIDE DEF left, out
<1> QED
  BY <1>4, <1>5, <1>7, <1>8, <1>9

(* The parts of the invariant that the handler of one datagram disturbs.   *)
LEMMA OrderHandle ==
    ASSUME TypeOK, OrderInv, NEW m \in net, handle_fifo_order(m), net' \subseteq net
    PROVE  OrderInv'
<1> DEFINE s == m.dst
           q == m.room
           p == m.src
           old == RECEIVED[s][q][p]
<1>1. PICK last \in old..MaxPosts :
        LET out == [i \in 1..(last - old) |-> old + i]
        IN  /\ last <= FIFO_MESSAGE_ID[p][q]
            /\ forwarded' = [forwarded EXCEPT ![s][q][p] = @ \o out]
            /\ RECEIVED' = [RECEIVED EXCEPT ![s][q][p] = last]
            /\ \E h \in [Ids -> Ids \cup {Nothing}] :
                 /\ HOLD_BACK_QUEUE_FIFO' =
                       [HOLD_BACK_QUEUE_FIFO EXCEPT ![s][q][p] = h]
                 /\ \A k \in Ids : h[k] # Nothing =>
                       h[k] = k /\ k <= FIFO_MESSAGE_ID[p][q]
            /\ UNCHANGED FIFO_MESSAGE_ID
  BY HandleEffect
<1>2. PICK h \in [Ids -> Ids \cup {Nothing}] :
        /\ HOLD_BACK_QUEUE_FIFO' = [HOLD_BACK_QUEUE_FIFO EXCEPT ![s][q][p] = h]
        /\ \A k \in Ids : h[k] # Nothing => h[k] = k /\ k <= FIFO_MESSAGE_ID[p][q]
  BY <1>1
<1> DEFINE out == [i \in 1..(last - old) |-> old + i]
           new == forwarded[s][q][p] \o out
<1>3. /\ s \in Servers
      /\ p \in Servers
      /\ q \in Rooms
      /\ s # p
      /\ old \in Nat
      /\ last \in Nat
      /\ last >= old
  <2>1. s \in Servers /\ p \in Servers /\ q \in Rooms
    BY DEF TypeOK, Datagram
  <2>2. s # p
    BY DEF OrderInv, NetSound
  <2>3. old \in 0..MaxPosts
    BY <2>1 DEF TypeOK
  <2> QED
    BY <2>1, <2>2, <2>3, FifoAssumption
<1>4. /\ forwarded[s][q][p] \in Seq(Nat)
      /\ Len(forwarded[s][q][p]) = old
      /\ \A i \in 1..old : forwarded[s][q][p][i] = i
  <2>1. forwarded[s][q][p] \in Seq(Ids)
    BY <1>3 DEF TypeOK
  <2>2. forwarded[s][q][p] \in Seq(Nat)
    BY <2>1, FifoAssumption, SeqMonotonic DEF Ids
  <2>3. Len(forwarded[s][q][p]) = old
    BY <1>3 DEF OrderInv, Counts
  <2>4. \A i \in 1..Len(forwarded[s][q][p]) : forwarded[s][q][p][i] = i
    BY <1>3 DEF OrderInv, InOrder
  <2> QED
    BY <2>2, <2>3, <2>4
<1>5. /\ Len(new) = last
      /\ \A i \in 1..last : new[i] = i
  BY <1>3, <1>4, CountOn
<1>6. \A d \in Servers, r \in Rooms, n \in Servers :
        forwarded'[d][r][n] =
            IF d = s /\ r = q /\ n = p THEN new ELSE forwarded[d][r][n]
  <2>1. /\ DOMAIN forwarded = Servers
        /\ \A d \in Servers : DOMAIN forwarded[d] = Rooms
        /\ \A d \in Servers, r \in Rooms : DOMAIN forwarded[d][r] = Servers
    BY TableDomains
  <2>2. forwarded' = [forwarded EXCEPT ![s][q][p] = new]
    BY <1>1
  <2> HIDE DEF new, s, q, p
  <2> QED
    BY <1>3, <2>1, <2>2, Update3, Zenon
<1>7. \A d \in Servers, r \in Rooms, n \in Servers :
        RECEIVED'[d][r][n] =
            IF d = s /\ r = q /\ n = p THEN last ELSE RECEIVED[d][r][n]
  <2>1. /\ DOMAIN RECEIVED = Servers
        /\ \A d \in Servers : DOMAIN RECEIVED[d] = Rooms
        /\ \A d \in Servers, r \in Rooms : DOMAIN RECEIVED[d][r] = Servers
    BY TableDomains
  <2>2. RECEIVED' = [RECEIVED EXCEPT ![s][q][p] = last]
    BY <1>1
  <2> HIDE DEF s, q, p
  <2> QED
    BY <1>3, <2>1, <2>2, Update3, Zenon
<1>8. \A d \in Servers, r \in Rooms, n \in Servers :
        HOLD_BACK_QUEUE_FIFO'[d][r][n] =
            IF d = s /\ r = q /\ n = p THEN h ELSE HOLD_BACK_QUEUE_FIFO[d][r][n]
  <2>1. /\ DOMAIN HOLD_BACK_QUEUE_FIFO = Servers
        /\ \A d \in Servers : DOMAIN HOLD_BACK_QUEUE_FIFO[d] = Rooms
        /\ \A d \in Servers, r \in Rooms : DOMAIN HOLD_BACK_QUEUE_FIFO[d][r] = Servers
    BY TableDomains
  <2> HIDE DEF s, q, p
  <2> QED
    BY <1>2, <1>3, <2>1, Update3, Zenon
<1>9. FIFO_MESSAGE_ID' = FIFO_MESSAGE_ID /\ last <= FIFO_MESSAGE_ID[p][q]
  BY <1>1
<1> HIDE DEF new, out, old, s, q, p
<1>10. NetSound'
  BY <1>9 DEF OrderInv, NetSound
<1>11. HeldSound'
  BY <1>2, <1>8, <1>9 DEF OrderInv, HeldSound
<1>12. Counts'
  BY <1>3, <1>5, <1>6, <1>7, <1>9 DEF OrderInv, Counts
<1>13. InOrder'
  BY <1>3, <1>5, <1>6, <1>9 DEF OrderInv, InOrder
<1> QED
  BY <1>10, <1>11, <1>12, <1>13 DEF OrderInv

LEMMA OrderNext ==
    ASSUME TypeOK, OrderInv, [Next]_vars
    PROVE  OrderInv'
<1>1. CASE ClientStep /\ UNCHANGED serverVars
  BY <1>1 DEF serverVars, OrderInv, NetSound, HeldSound, Counts, InOrder
<1>2. ASSUME NEW c \in Clients, Post(c)
      PROVE  OrderInv'
  BY <1>2, OrderPost
<1>3. ASSUME NEW m \in net, Receive(m) \/ ReceiveCopy(m)
      PROVE  OrderInv'
  <2>1. handle_fifo_order(m) /\ net' \subseteq net
    BY <1>3 DEF Receive, ReceiveCopy
  <2> QED
    BY <2>1, OrderHandle
<1>4. ASSUME NEW m \in net, Lose(m)
      PROVE  OrderInv'
  BY <1>4 DEF Lose, OrderInv, NetSound, HeldSound, Counts, InOrder
<1>5. CASE UNCHANGED vars
  BY <1>5 DEF vars, serverVars, OrderInv, NetSound, HeldSound, Counts, InOrder
<1> QED
  BY <1>1, <1>2, <1>3, <1>4, <1>5 DEF Next

FifoInv == TypeOK /\ OrderInv

LEMMA FifoInvariant == Spec => []FifoInv
<1>1. Init => FifoInv
  BY TypeInit, OrderInit DEF FifoInv
<1>2. FifoInv /\ [Next]_vars => FifoInv'
  BY TypeNext, OrderNext DEF FifoInv
<1> QED
  BY <1>1, <1>2, PTL DEF Spec

(* In fifo mode every server forwards, of each sender and room, a prefix   *)
(* of what was posted, whatever the network does.                          *)
THEOREM FifoCorrect == Spec => []FifoOrder
<1>1. FifoInv => FifoOrder
  BY DEF FifoInv, OrderInv, InOrder, FifoOrder
<1> QED
  BY <1>1, FifoInvariant, PTL

-----------------------------------------------------------------------------
(***************************************************************************)
(* What the clients see.  A client has been sent nothing its server has    *)
(* not forwarded, and what it has been sent of one sender increases.       *)
(***************************************************************************)
InboxBehind ==
    \A c \in Clients : \A i \in 1..Len(inbox[c]) :
        inbox[c][i].text <=
            Len(forwarded[ServerOf[c]][inbox[c][i].room][inbox[c][i].src])

Increasing ==
    \A c \in Clients : \A i, j \in 1..Len(inbox[c]) :
        ( /\ i < j
          /\ inbox[c][i].src = inbox[c][j].src
          /\ inbox[c][i].room = inbox[c][j].room )
        => inbox[c][i].text < inbox[c][j].text

ClientInv == InboxBehind /\ Increasing

LEMMA ConcatIndex ==
    ASSUME NEW S, NEW a \in Seq(S), NEW b \in Seq(S)
    PROVE  /\ Len(a \o b) = Len(a) + Len(b)
           /\ \A i \in 1..(Len(a) + Len(b)) :
                (a \o b)[i] = IF i <= Len(a) THEN a[i] ELSE b[i - Len(a)]
BY ConcatProperties

LEMMA ForwardOrder ==
    ASSUME TypeOK, ClientInv,
           NEW s \in Servers, NEW p \in Servers, NEW q \in Rooms,
           NEW texts \in Seq(Ids),
           \A i \in 1..Len(texts) : texts[i] = Len(forwarded[s][q][p]) + i,
           forward_to_clients(s, Labelled(p, q, texts), q),
           \A d \in Servers, r \in Rooms, n \in Servers :
              Len(forwarded'[d][r][n]) =
                 IF d = s /\ r = q /\ n = p
                 THEN Len(forwarded[s][q][p]) + Len(texts)
                 ELSE Len(forwarded[d][r][n])
    PROVE  ClientInv'
<1> DEFINE new == Labelled(p, q, texts)
           old == Len(forwarded[s][q][p])
<1>1. /\ new \in Seq(Entry)
      /\ Len(new) = Len(texts)
      /\ \A i \in 1..Len(texts) :
            new[i] = [src |-> p, room |-> q, text |-> old + i]
  BY LabelledType
<1>2. /\ inbox \in [Clients -> Seq(Entry)]
      /\ \A d, n \in Servers, r \in Rooms : Len(forwarded[d][r][n]) \in Nat
      /\ old \in Nat
      /\ Len(texts) \in Nat
  <2>1. inbox \in [Clients -> Seq(Entry)]
    BY DEF TypeOK, Entry
  <2>2. \A d, n \in Servers, r \in Rooms : forwarded[d][r][n] \in Seq(Ids)
    BY DEF TypeOK
  <2> QED
    BY <2>1, <2>2, LenProperties
<1>4. \A d \in Servers, r \in Rooms, n \in Servers :
        /\ Len(forwarded'[d][r][n]) \in Nat
        /\ Len(forwarded[d][r][n]) <= Len(forwarded'[d][r][n])
  BY <1>2
<1> HIDE DEF new
<1>3. ASSUME NEW c \in Clients
      PROVE  /\ \A i \in 1..Len(inbox'[c]) :
                   inbox'[c][i].text <=
                     Len(forwarded'[ServerOf[c]][inbox'[c][i].room][inbox'[c][i].src])
             /\ \A i, j \in 1..Len(inbox'[c]) :
                   ( /\ i < j
                     /\ inbox'[c][i].src = inbox'[c][j].src
                     /\ inbox'[c][i].room = inbox'[c][j].room )
                   => inbox'[c][i].text < inbox'[c][j].text
  <2>1. /\ ServerOf[c] \in Servers
        /\ inbox[c] \in Seq(Entry)
        /\ Len(inbox[c]) \in Nat
        /\ \A i \in 1..Len(inbox[c]) :
              /\ inbox[c][i] \in Entry
              /\ inbox[c][i].src \in Servers
              /\ inbox[c][i].room \in Rooms
              /\ inbox[c][i].text \in Nat
    <3>1. ServerOf[c] \in Servers /\ inbox[c] \in Seq(Entry)
      BY <1>2, ClientsAssumption
    <3>2. \A i \in 1..Len(inbox[c]) : inbox[c][i] \in Entry
      BY <3>1, ElementOfSeq
    <3>3. \A e \in Entry : e.src \in Servers /\ e.room \in Rooms /\ e.text \in Nat
      BY FifoAssumption DEF Entry, Ids
    <3>4. Len(inbox[c]) \in Nat
      BY <3>1, LenProperties
    <3> QED
      BY <3>1, <3>2, <3>3, <3>4
  <2>2. /\ \A i \in 1..Len(inbox[c]) :
              inbox[c][i].text <=
                Len(forwarded[ServerOf[c]][inbox[c][i].room][inbox[c][i].src])
        /\ \A i, j \in 1..Len(inbox[c]) :
              ( /\ i < j
                /\ inbox[c][i].src = inbox[c][j].src
                /\ inbox[c][i].room = inbox[c][j].room )
              => inbox[c][i].text < inbox[c][j].text
    BY DEF ClientInv, InboxBehind, Increasing
  <2>3. CASE ServerOf[c] = s /\ CLIENTS[c] = q
    <3> DEFINE box == inbox[c] \o new
    <3>1. inbox'[c] = box
      BY <2>3 DEF forward_to_clients, new
    <3>2. /\ Len(box) = Len(inbox[c]) + Len(texts)
          /\ \A i \in 1..Len(box) :
                box[i] = IF i <= Len(inbox[c]) THEN inbox[c][i]
                                               ELSE new[i - Len(inbox[c])]
      <4>1. /\ Len(box) = Len(inbox[c]) + Len(new)
            /\ \A i \in 1..(Len(inbox[c]) + Len(new)) :
                  box[i] = IF i <= Len(inbox[c]) THEN inbox[c][i]
                                                 ELSE new[i - Len(inbox[c])]
        BY <1>1, <2>1, ConcatIndex
      <4> QED
        BY <1>1, <4>1
    <3> DEFINE L == Len(inbox[c])
               M == Len(texts)
    <3>3. L \in Nat /\ M \in Nat /\ Len(box) = L + M
      BY <1>2, <2>1, <3>2
    <3>4. ASSUME NEW i \in 1..Len(box), i <= L
          PROVE  /\ i \in 1..L
                 /\ box[i] = inbox[c][i]
                 /\ box[i].text \in Nat
                 /\ box[i].src \in Servers
                 /\ box[i].room \in Rooms
                 /\ box[i].text <= Len(forwarded[ServerOf[c]][box[i].room][box[i].src])
      <4>1. i \in 1..L
        BY <3>3, <3>4
      <4>2. box[i] = inbox[c][i]
        BY <3>2, <3>4
      <4> QED
        BY <2>1, <2>2, <4>1, <4>2
    <3>5. ASSUME NEW i \in 1..Len(box), i > L
          PROVE  box[i].src = p /\ box[i].room = q /\ box[i].text = old + (i - L)
      <4>1. i - L \in 1..M
        BY <3>3, <3>5
      <4>2. box[i] = new[i - L]
        BY <3>2, <3>3, <3>5
      <4>3. new[i - L] = [src |-> p, room |-> q, text |-> old + (i - L)]
        BY <1>1, <4>1
      <4> HIDE DEF old, L
      <4> QED
        BY <4>2, <4>3
    <3> HIDE DEF box, L, M, old
    <3>6. ASSUME NEW i \in 1..Len(box)
          PROVE  box[i].text <=
                   Len(forwarded'[ServerOf[c]][box[i].room][box[i].src])
      <4>1. CASE i <= L
        <5> DEFINE e == box[i]
        <5>1. /\ e.text \in Nat
              /\ e.src \in Servers
              /\ e.room \in Rooms
              /\ e.text <= Len(forwarded[ServerOf[c]][e.room][e.src])
          BY <3>4, <4>1
        <5> HIDE DEF e
        <5>2. /\ Len(forwarded[ServerOf[c]][e.room][e.src]) \in Nat
              /\ Len(forwarded'[ServerOf[c]][e.room][e.src]) \in Nat
              /\ Len(forwarded[ServerOf[c]][e.room][e.src]) <=
                 Len(forwarded'[ServerOf[c]][e.room][e.src])
          BY <1>2, <1>4, <2>1, <5>1, Zenon
        <5>3. e.text <= Len(forwarded'[ServerOf[c]][e.room][e.src])
          BY <5>1, <5>2, LeqTransitive, Zenon
        <5> QED
          BY <5>3 DEF e
      <4>2. CASE i > L
        <5>1. Len(forwarded'[ServerOf[c]][box[i].room][box[i].src]) = old + M
          BY <2>3, <3>5, <4>2 DEF M, old
        <5> QED
          BY <1>2, <3>3, <3>5, <4>2, <5>1
      <4> QED
        BY <3>3, <4>1, <4>2
    <3>7. ASSUME NEW i \in 1..Len(box), NEW j \in 1..Len(box), i < j,
                 box[i].src = box[j].src, box[i].room = box[j].room
          PROVE  box[i].text < box[j].text
      <4>1. CASE j <= L
        <5>1. i <= L
          BY <3>3, <3>7, <4>1
        <5>2. /\ i \in 1..L /\ box[i] = inbox[c][i]
              /\ j \in 1..L /\ box[j] = inbox[c][j]
          BY <3>4, <4>1, <5>1
        <5> QED
          BY <2>2, <3>7, <5>2 DEF L
      <4>2. CASE i <= L /\ j > L
        <5>1. box[i].text \in Nat /\ box[i].text <= old
          BY <2>3, <3>4, <3>5, <3>7, <4>2 DEF old
        <5>2. box[j].text = old + (j - L)
          BY <3>5, <4>2
        <5> QED
          BY <1>2, <3>3, <4>2, <5>1, <5>2
      <4>3. CASE i > L
        <5>1. box[i].text = old + (i - L)
          BY <3>5, <4>3
        <5>2. box[j].text = old + (j - L)
          BY <3>3, <3>5, <3>7, <4>3
        <5> QED
          BY <1>2, <3>3, <3>7, <5>1, <5>2
      <4> QED
        BY <3>3, <4>1, <4>2, <4>3
    <3> QED
      BY <3>1, <3>6, <3>7
  <2>4. CASE ~ (ServerOf[c] = s /\ CLIENTS[c] = q)
    <3>1. inbox'[c] = inbox[c]
      BY <2>4 DEF forward_to_clients
    <3>2. ASSUME NEW i \in 1..Len(inbox[c])
          PROVE  inbox[c][i].text <=
                   Len(forwarded'[ServerOf[c]][inbox[c][i].room][inbox[c][i].src])
      <4> DEFINE e == inbox[c][i]
      <4>1. /\ e.src \in Servers
            /\ e.room \in Rooms
            /\ e.text \in Nat
            /\ e.text <= Len(forwarded[ServerOf[c]][e.room][e.src])
        BY <2>1, <2>2
      <4> HIDE DEF e
      <4>2. /\ Len(forwarded[ServerOf[c]][e.room][e.src]) \in Nat
            /\ Len(forwarded'[ServerOf[c]][e.room][e.src]) \in Nat
            /\ Len(forwarded[ServerOf[c]][e.room][e.src]) <=
               Len(forwarded'[ServerOf[c]][e.room][e.src])
        BY <1>2, <1>4, <2>1, <4>1, Zenon
      <4>3. e.text <= Len(forwarded'[ServerOf[c]][e.room][e.src])
        BY <4>1, <4>2, LeqTransitive, Zenon
      <4> QED
        BY <4>3 DEF e
    <3> QED
      BY <2>2, <3>1, <3>2
  <2> QED
    BY <2>3, <2>4
<1> QED
  BY <1>3 DEF ClientInv, InboxBehind, Increasing

LEMMA ClientPost ==
    ASSUME TypeOK, OrderInv, ClientInv, NEW c \in Clients, Post(c)
    PROVE  ClientInv'
<1> DEFINE s == ServerOf[c]
           q == CLIENTS[c]
           id == FIFO_MESSAGE_ID[s][q] + 1
           texts == <<id>>
<1>1. /\ s \in Servers
      /\ q \in Rooms
      /\ id \in Ids
      /\ forward_to_clients(s, Labelled(s, q, texts), q)
      /\ forwarded' = [forwarded EXCEPT ![s][q][s] = Append(@, id)]
  BY ClientsAssumption DEF Post
<1>2. /\ texts \in Seq(Ids)
      /\ Len(texts) = 1
      /\ \A i \in 1..Len(texts) : texts[i] = id
  BY <1>1
<1> DEFINE new == Append(forwarded[s][q][s], id)
<1>3. /\ Len(forwarded[s][q][s]) = FIFO_MESSAGE_ID[s][q]
      /\ FIFO_MESSAGE_ID[s][q] \in Nat
      /\ Len(new) = Len(forwarded[s][q][s]) + 1
  <2>1. FIFO_MESSAGE_ID[s][q] \in 0..MaxPosts /\ forwarded[s][q][s] \in Seq(Ids)
    BY <1>1 DEF TypeOK
  <2>2. Len(forwarded[s][q][s]) = FIFO_MESSAGE_ID[s][q]
    BY <1>1 DEF OrderInv, Counts
  <2>3. FIFO_MESSAGE_ID[s][q] \in Nat
    BY <2>1, FifoAssumption
  <2>4. Len(new) = Len(forwarded[s][q][s]) + 1
    BY <2>1
  <2> QED
    BY <2>2, <2>3, <2>4
<1>4. \A d \in Servers, r \in Rooms, n \in Servers :
        forwarded'[d][r][n] =
            IF d = s /\ r = q /\ n = s THEN new ELSE forwarded[d][r][n]
  <2>1. /\ forwarded' = [forwarded EXCEPT ![s][q][s] = new]
        /\ s \in Servers
        /\ q \in Rooms
    BY <1>1
  <2> HIDE DEF new, s, q
  <2> QED
    BY <2>1, TableDomains, Update3, Zenon
<1>5. \A i \in 1..Len(texts) : texts[i] = Len(forwarded[s][q][s]) + i
  BY <1>2, <1>3
<1> HIDE DEF s, q, id, texts, new
<1>6. \A d \in Servers, r \in Rooms, n \in Servers :
        Len(forwarded'[d][r][n]) =
            IF d = s /\ r = q /\ n = s
            THEN Len(forwarded[s][q][s]) + Len(texts) ELSE Len(forwarded[d][r][n])
  BY <1>2, <1>3, <1>4
<1> QED
  BY <1>1, <1>2, <1>5, <1>6, ForwardOrder

LEMMA ClientHandle ==
    ASSUME TypeOK, OrderInv, ClientInv, NEW m \in net, handle_fifo_order(m)
    PROVE  ClientInv'
<1> DEFINE s == m.dst
           q == m.room
           p == m.src
           old == RECEIVED[s][q][p]
<1>1. PICK last \in old..MaxPosts :
        LET out == [i \in 1..(last - old) |-> old + i]
        IN  /\ last <= FIFO_MESSAGE_ID[p][q]
            /\ forward_to_clients(s, Labelled(p, q, out), q)
            /\ forwarded' = [forwarded EXCEPT ![s][q][p] = @ \o out]
  BY HandleEffect
<1> DEFINE out == [i \in 1..(last - old) |-> old + i]
           new == forwarded[s][q][p] \o out
<1>2. s \in Servers /\ p \in Servers /\ q \in Rooms /\ s # p
  BY DEF TypeOK, Datagram, OrderInv, NetSound
<1>3. /\ old \in Nat
      /\ old = Len(forwarded[s][q][p])
      /\ forwarded[s][q][p] \in Seq(Ids)
  <2>1. old \in 0..MaxPosts /\ forwarded[s][q][p] \in Seq(Ids)
    BY <1>2 DEF TypeOK
  <2>2. old = Len(forwarded[s][q][p])
    BY <1>2 DEF OrderInv, Counts
  <2> QED
    BY <2>1, <2>2
<1>4. /\ out \in Seq(Ids)
      /\ Len(out) = last - old
      /\ \A i \in 1..Len(out) : out[i] = old + i
  <2>1. old \in Nat /\ last \in old..MaxPosts /\ MaxPosts \in Nat
    BY <1>3, FifoAssumption
  <2> HIDE DEF old
  <2>2. last - old \in Nat /\ \A i \in 1..(last - old) : old + i \in Ids
    BY <2>1 DEF Ids
  <2> QED
    BY <2>2
<1>5. Len(new) = Len(forwarded[s][q][p]) + Len(out)
  BY <1>3, <1>4, ConcatIndex
<1>6. \A d \in Servers, r \in Rooms, n \in Servers :
        forwarded'[d][r][n] =
            IF d = s /\ r = q /\ n = p THEN new ELSE forwarded[d][r][n]
  <2>1. forwarded' = [forwarded EXCEPT ![s][q][p] = new]
    BY <1>1
  <2> HIDE DEF new, s, q, p
  <2> QED
    BY <1>2, <2>1, TableDomains, Update3, Zenon
<1>7. forward_to_clients(s, Labelled(p, q, out), q)
  BY <1>1
<1> HIDE DEF s, q, p, old, out, new
<1>8. \A d \in Servers, r \in Rooms, n \in Servers :
        Len(forwarded'[d][r][n]) =
            IF d = s /\ r = q /\ n = p
            THEN Len(forwarded[s][q][p]) + Len(out) ELSE Len(forwarded[d][r][n])
  BY <1>5, <1>6
<1> QED
  BY <1>2, <1>3, <1>4, <1>7, <1>8, ForwardOrder

LEMMA ClientNext ==
    ASSUME TypeOK, OrderInv, ClientInv, [Next]_vars
    PROVE  ClientInv'
<1>1. CASE ClientStep /\ UNCHANGED serverVars
  BY <1>1 DEF ClientStep, handle_new_client, Join, Part, Quit, serverVars,
              ClientInv, InboxBehind, Increasing
<1>2. ASSUME NEW c \in Clients, Post(c)
      PROVE  ClientInv'
  BY <1>2, ClientPost
<1>3. ASSUME NEW m \in net, Receive(m) \/ ReceiveCopy(m)
      PROVE  ClientInv'
  BY <1>3, ClientHandle DEF Receive, ReceiveCopy
<1>4. ASSUME NEW m \in net, Lose(m)
      PROVE  ClientInv'
  BY <1>4 DEF Lose, clientVars, ClientInv, InboxBehind, Increasing
<1>5. CASE UNCHANGED vars
  BY <1>5 DEF vars, clientVars, serverVars, ClientInv, InboxBehind, Increasing
<1> QED
  BY <1>1, <1>2, <1>3, <1>4, <1>5 DEF Next

(* In fifo mode no client ever sees two texts of one sender and room in    *)
(* the reverse order, or one of them twice, however it joins and leaves.   *)
THEOREM ClientFifoCorrect == Spec => []ClientFifo
<1> DEFINE Inv == FifoInv /\ ClientInv
<1>1. Init => Inv
  BY TypeInit, OrderInit
     DEF FifoInv, Init, ClientsInit, ClientInv, InboxBehind, Increasing
<1>2. Inv /\ [Next]_vars => Inv'
  BY TypeNext, OrderNext, ClientNext DEF FifoInv
<1>3. Inv => ClientFifo
  BY DEF ClientInv, Increasing, ClientFifo
<1> QED
  BY <1>1, <1>2, <1>3, PTL DEF Spec

-----------------------------------------------------------------------------
LEMMA StuckHandle ==
    ASSUME TypeOK, OrderInv, NothingStuck, NEW m \in net, handle_fifo_order(m)
    PROVE  NothingStuck'
<1> DEFINE s == m.dst
           q == m.room
           p == m.src
           old == RECEIVED[s][q][p]
<1>1. PICK last \in old..MaxPosts :
        /\ RECEIVED' = [RECEIVED EXCEPT ![s][q][p] = last]
        /\ \E h \in [Ids -> Ids \cup {Nothing}] :
             /\ HOLD_BACK_QUEUE_FIFO' = [HOLD_BACK_QUEUE_FIFO EXCEPT ![s][q][p] = h]
             /\ last + 1 \in Ids => h[last + 1] = Nothing
  BY HandleEffect
<1>2. PICK h \in [Ids -> Ids \cup {Nothing}] :
        /\ HOLD_BACK_QUEUE_FIFO' = [HOLD_BACK_QUEUE_FIFO EXCEPT ![s][q][p] = h]
        /\ last + 1 \in Ids => h[last + 1] = Nothing
  BY <1>1
<1>3. s \in Servers /\ p \in Servers /\ q \in Rooms
  BY DEF TypeOK, Datagram
<1>4. RECEIVED' = [RECEIVED EXCEPT ![s][q][p] = last]
  BY <1>1
<1> HIDE DEF s, q, p, old
<1>5. \A d \in Servers, r \in Rooms, n \in Servers :
        RECEIVED'[d][r][n] =
            IF d = s /\ r = q /\ n = p THEN last ELSE RECEIVED[d][r][n]
  BY <1>3, <1>4, TableDomains, Update3, Zenon
<1>6. \A d \in Servers, r \in Rooms, n \in Servers :
        HOLD_BACK_QUEUE_FIFO'[d][r][n] =
            IF d = s /\ r = q /\ n = p THEN h ELSE HOLD_BACK_QUEUE_FIFO[d][r][n]
  BY <1>2, <1>3, TableDomains, Update3, Zenon
<1> QED
  BY <1>2, <1>5, <1>6 DEF NothingStuck

(* After every pass of the loop, no server holds the text  *)
(* after the last one it has forwarded.                                    *)
THEOREM NothingStuckCorrect == Spec => []NothingStuck
<1>1. Init => NothingStuck
  BY DEF Init, NothingStuck
<1>2. FifoInv /\ NothingStuck /\ [Next]_vars => NothingStuck'
  <2> SUFFICES ASSUME FifoInv, NothingStuck, [Next]_vars
               PROVE  NothingStuck'
    OBVIOUS
  <2>1. CASE ClientStep /\ UNCHANGED serverVars
    BY <2>1 DEF serverVars, NothingStuck
  <2>2. ASSUME NEW c \in Clients, Post(c)
        PROVE  NothingStuck'
    BY <2>2 DEF Post, NothingStuck
  <2>3. ASSUME NEW m \in net, handle_fifo_order(m)
        PROVE  NothingStuck'
    BY <2>3, StuckHandle DEF FifoInv, handle_fifo_order
  <2>4. ASSUME NEW m \in net, Lose(m)
        PROVE  NothingStuck'
    BY <2>4 DEF Lose, NothingStuck
  <2>5. CASE UNCHANGED vars
    BY <2>5 DEF vars, serverVars, NothingStuck
  <2> QED
    BY <2>1, <2>2, <2>3, <2>4, <2>5 DEF Next, Receive, ReceiveCopy
<1> QED
  BY <1>1, <1>2, FifoInvariant, PTL DEF Spec

-----------------------------------------------------------------------------
(***************************************************************************)
(* Refinement.  A post is a post of the abstract multicast; the handler of *)
(* a datagram learns the texts it releases, or nothing.                    *)
(***************************************************************************)
LEMMA PostRefines ==
    ASSUME TypeOK, NEW c \in Clients, Post(c)
    PROVE  Multicast!Next
<1> DEFINE s == ServerOf[c]
           q == CLIENTS[c]
<1>1. s \in Servers /\ q \in Rooms /\ FIFO_MESSAGE_ID[s][q] \in 0..MaxPosts
  BY ClientsAssumption DEF Post, TypeOK
<1>2. FIFO_MESSAGE_ID[s][q] < MaxPosts
  BY <1>1, FifoAssumption DEF Post, Ids
<1>3. Multicast!Post(s, q)
  BY <1>2 DEF Multicast!Post, Post
<1> QED
  BY <1>1, <1>3 DEF Multicast!Next

LEMMA Between ==
    ASSUME NEW n \in Nat, NEW a \in 0..n, NEW b \in a..n, b # a
    PROVE  b - a \in 1..n /\ a + (b - a) = b
  OBVIOUS

LEMMA HandleRefines ==
    ASSUME TypeOK, OrderInv, NEW m \in net, handle_fifo_order(m)
    PROVE  [Multicast!Next]_(Multicast!vars)
<1> DEFINE s == m.dst
           q == m.room
           p == m.src
           old == RECEIVED[s][q][p]
<1>1. PICK last \in old..MaxPosts :
        LET out == [i \in 1..(last - old) |-> old + i]
        IN  /\ last <= FIFO_MESSAGE_ID[p][q]
            /\ forwarded' = [forwarded EXCEPT ![s][q][p] = @ \o out]
            /\ UNCHANGED FIFO_MESSAGE_ID
  BY HandleEffect
<1>2. s \in Servers /\ p \in Servers /\ q \in Rooms /\ s # p
  BY DEF TypeOK, Datagram, OrderInv, NetSound
<1>3. /\ old \in 0..MaxPosts
      /\ MaxPosts \in Nat
      /\ old = Len(forwarded[s][q][p])
      /\ forwarded[s][q][p] \in Seq(Ids)
  BY <1>2, FifoAssumption DEF TypeOK, OrderInv, Counts
<1>4. CASE last = old
  <2>1. [i \in 1..(last - old) |-> old + i] = <<>>
    BY <1>3, <1>4
  <2>2. forwarded' = [forwarded EXCEPT ![s][q][p] = forwarded[s][q][p]]
    BY <1>1, <1>3, <2>1, ConcatEmptySeq
  <2>3. forwarded' = forwarded
    <3>1. forwarded \in [Servers -> [Rooms -> [Servers -> Seq(Ids)]]]
      BY DEF TypeOK
    <3>2. forwarded[s] \in [Rooms -> [Servers -> Seq(Ids)]]
      BY <1>2, <3>1
    <3>3. forwarded[s][q] \in [Servers -> Seq(Ids)]
      BY <1>2, <3>2
    <3>4. [forwarded[s][q] EXCEPT ![p] = forwarded[s][q][p]] = forwarded[s][q]
      BY <1>2, <3>3
    <3>5. [forwarded[s] EXCEPT ![q] = forwarded[s][q]] = forwarded[s]
      BY <1>2, <3>2
    <3>6. [forwarded EXCEPT ![s] = forwarded[s]] = forwarded
      BY <1>2, <3>1
    <3>7. forwarded' = [forwarded EXCEPT ![s] =
                          [forwarded[s] EXCEPT ![q] =
                             [forwarded[s][q] EXCEPT ![p] = forwarded[s][q][p]]]]
      BY <2>2
    <3> HIDE DEF s, q, p
    <3> QED
      BY <3>4, <3>5, <3>6, <3>7
  <2> QED
    BY <1>1, <2>3 DEF Multicast!vars
<1>5. CASE last # old
  <2>0. MaxPosts \in Nat /\ old \in 0..MaxPosts /\ last \in old..MaxPosts /\ last # old
    BY <1>3, <1>5
  <2>1. last - old \in 1..MaxPosts /\ old + (last - old) = last
    <3> HIDE DEF old
    <3> QED
      BY <2>0, <1>3, <1>5
  <2>2. Multicast!Learn(s, p, q, last - old)
    BY <1>1, <1>3, <2>1 DEF Multicast!Learn
  <2> QED
    BY <1>2, <2>1, <2>2 DEF Multicast!Next
<1> QED
  BY <1>4, <1>5

(* The chat servers implement the abstract FIFO multicast.                 *)
THEOREM FifoRefines == Spec => ImplementsMulticast
<1>1. Init => Multicast!Init
  BY DEF Init, Multicast!Init
<1>2. FifoInv /\ [Next]_vars => [Multicast!Next]_(Multicast!vars)
  <2> SUFFICES ASSUME FifoInv, [Next]_vars
               PROVE  [Multicast!Next]_(Multicast!vars)
    OBVIOUS
  <2>1. CASE ClientStep /\ UNCHANGED serverVars
    BY <2>1 DEF serverVars, Multicast!vars
  <2>2. ASSUME NEW c \in Clients, Post(c)
        PROVE  Multicast!Next
    BY <2>2, PostRefines DEF FifoInv
  <2>3. ASSUME NEW m \in net, Receive(m) \/ ReceiveCopy(m)
        PROVE  [Multicast!Next]_(Multicast!vars)
    BY <2>3, HandleRefines
       DEF FifoInv, Receive, ReceiveCopy
  <2>4. ASSUME NEW m \in net, Lose(m)
        PROVE  UNCHANGED Multicast!vars
    BY <2>4 DEF Lose, Multicast!vars
  <2>5. CASE UNCHANGED vars
    BY <2>5 DEF vars, serverVars, Multicast!vars
  <2> QED
    BY <2>1, <2>2, <2>3, <2>4, <2>5 DEF Next
<1> QED
  BY <1>1, <1>2, FifoInvariant, PTL DEF Spec, ImplementsMulticast, Multicast!Spec

=============================================================================
