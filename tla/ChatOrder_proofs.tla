-------------------------- MODULE ChatOrder_proofs --------------------------
(***************************************************************************)
(* Proofs about ChatTotal and ChatCausal, for every number of servers,     *)
(* rooms, texts and posts, with datagrams in any order, and in total mode  *)
(* with servers that die; and about ChatOrder, where they are together.    *)
(***************************************************************************)
EXTENDS ChatOrder, TLAPS, FiniteSetTheorems, SequenceTheorems, WellFoundedInduction

-----------------------------------------------------------------------------
(* Numbers, sets and functions. *)

(* Updating one cell of a table of tables changes that cell and no other.  *)
LEMMA Update2 ==
    ASSUME NEW A, NEW B, NEW f, NEW a \in A, NEW b \in B, NEW v,
           DOMAIN f = A, \A x \in A : DOMAIN f[x] = B,
           NEW g, g = [f EXCEPT ![a][b] = v]
    PROVE  \A x \in A, y \in B : g[x][y] = IF x = a /\ y = b THEN v ELSE f[x][y]
OBVIOUS

LEMMA Update2Type ==
    ASSUME NEW A, NEW B, NEW V, NEW f \in [A -> [B -> V]], NEW a \in A, NEW b \in B,
           NEW v \in V
    PROVE  [f EXCEPT ![a][b] = v] \in [A -> [B -> V]]
OBVIOUS

(* A non-empty set of naturals has a least element.                        *)
LEMMA LeastNatural ==
    ASSUME NEW T, T \subseteq Nat, T # {}
    PROVE  \E x \in T : \A y \in T : x <= y
<1>1. \E x \in T : \A y \in T : ~ (<<y, x>> \in OpToRel(<, Nat))
  BY NatLessThanWellFounded, WFMin, Zenon
<1>2. PICK x \in T : \A y \in T : ~ (<<y, x>> \in OpToRel(<, Nat))
  BY <1>1
<1>3. \A y \in T : ~ (y < x)
  BY <1>2, Zenon DEF OpToRel
<1>4. \A y \in T : x <= y
  BY <1>3
<1> QED
  BY <1>4

(* A set of records with numbers up to n has one that Largest can choose.  *)
LEMMA LargestChosen ==
    ASSUME NEW n \in Nat, NEW P, P # {}, \A p \in P : p.id \in 1..n /\ p.by \in Nat
    PROVE  /\ Largest(P) \in P
           /\ \A o \in P : \/ o.id < Largest(P).id
                           \/ o.id = Largest(P).id /\ Largest(P).by <= o.by
<1> DEFINE Gaps == {n - p.id : p \in P}
<1>1. Gaps # {} /\ Gaps \subseteq Nat
  OBVIOUS
<1>2. PICK g \in Gaps : \A h \in Gaps : g <= h
  BY <1>1, LeastNatural
<1>3. PICK q \in P : g = n - q.id
  OBVIOUS
<1>4. \A o \in P : o.id <= q.id
  <2> TAKE o \in P
  <2>1. n - o.id \in Gaps
    OBVIOUS
  <2>2. n - q.id <= n - o.id
    BY <1>2, <1>3, <2>1
  <2> QED
    BY <2>2
<1> HIDE DEF Gaps
<1> DEFINE Bys == {p.by : p \in {o \in P : o.id = q.id}}
<1>5. Bys # {} /\ Bys \subseteq Nat
  OBVIOUS
<1>6. PICK b \in Bys : \A c \in Bys : b <= c
  BY <1>5, LeastNatural
<1>7. PICK p \in P : p.id = q.id /\ p.by = b
  OBVIOUS
<1>8. \A o \in P : o.id < p.id \/ (o.id = p.id /\ p.by <= o.by)
  <2> TAKE o \in P
  <2>1. CASE o.id = q.id
    <3>1. o.by \in Bys
      BY <2>1
    <3> QED
      BY <1>6, <1>7, <2>1, <3>1
  <2>2. CASE o.id # q.id
    <3>1. o.id \in Int /\ q.id \in Int /\ o.id <= q.id
      BY <1>4
    <3> QED
      BY <1>7, <2>2, <3>1
  <2> QED
    BY <2>1, <2>2
<1> QED
  BY <1>7, <1>8 DEF Largest

(* As many proposals as servers, no two of one server, are one of each.    *)
LEMMA OneOfEach ==
    ASSUME NEW P, Cardinality(P) = NumServers, IsFiniteSet(P),
           \A p \in P : p.by \in Servers,
           \A p, q \in P : p.by = q.by => p = q
    PROVE  \A d \in Servers : \E p \in P : p.by = d
<1> DEFINE f == [p \in P |-> p.by]
<1>1. f \in Injection(P, Servers)
  BY DEF Injection, IsInjective
<1>2. IsFiniteSet(Servers) /\ Cardinality(Servers) = NumServers
  BY FS_Interval, ServersAssumption DEF Servers
<1>3. f \in Surjection(P, Servers)
  <2> HIDE DEF f
  <2> QED
    BY <1>1, <1>2, FS_Injection
<1> QED
  BY <1>3 DEF Surjection

LEMMA EachMakesAll ==
    ASSUME NEW P, IsFiniteSet(P),
           \A p \in P : p.by \in Servers,
           \A p, q \in P : p.by = q.by => p = q,
           \A d \in Servers : \E p \in P : p.by = d
    PROVE  Cardinality(P) = NumServers
<1> DEFINE f == [p \in P |-> p.by]
<1>1. f \in Injection(P, Servers)
  BY DEF Injection, IsInjective
<1>2. f \in Surjection(P, Servers)
  BY DEF Surjection
<1>3. ExistsBijection(P, Servers)
  BY <1>1, <1>2 DEF ExistsBijection, Bijection
<1>4. IsFiniteSet(Servers) /\ Cardinality(Servers) = NumServers
  BY FS_Interval, ServersAssumption DEF Servers
<1> QED
  BY <1>3, <1>4, FS_Bijection

-----------------------------------------------------------------------------
(* Keys and queues. *)
Keyed(S) ==
    /\ \A e \in S : e.id \in Nat /\ e.by \in Nat
    /\ \A e, f \in S : e.id = f.id /\ e.by = f.by => e = f

(* InKeyOrder lists the whole set in strict order.                         *)
LEMMA KeyOrderLists ==
    ASSUME NEW S, IsFiniteSet(S), NEW out \in InKeyOrder(S)
    PROVE  /\ out \in Seq(S)
           /\ \A i, j \in 1..Len(out) : i < j => Before(out[i], out[j])
           /\ \A e \in S : \E i \in 1..Len(out) : out[i] = e
<1> DEFINE n == Cardinality(S)
<1>1. n \in Nat
  BY FS_CardinalityType
<1>2. /\ out \in [1..n -> S]
      /\ \A i, j \in 1..n : i # j => out[i] # out[j]
      /\ \A i, j \in DOMAIN out : i < j => Before(out[i], out[j])
  BY DEF InKeyOrder, SetToSeqs
<1>3. IsFiniteSet(1..n) /\ Cardinality(1..n) = n
  <2>1. IsFiniteSet(1..n) /\ Cardinality(1..n) = IF 1 > n THEN 0 ELSE n - 1 + 1
    BY <1>1, FS_Interval
  <2> QED
    BY <1>1, <2>1
<1> HIDE DEF n
<1>4. out \in Injection(1..n, S)
  BY <1>2 DEF Injection, IsInjective
<1>5. out \in Surjection(1..n, S)
  BY <1>3, <1>4, FS_Injection DEF n
<1>6. out \in Seq(S) /\ Len(out) = n
  BY <1>1, <1>2
<1>7. \A e \in S : \E i \in 1..n : out[i] = e
  BY <1>5 DEF Surjection
<1> QED
  BY <1>2, <1>6, <1>7

(* Every two entries with different keys are ordered. *)
LEMMA BeforeTotal ==
    ASSUME NEW S, Keyed(S), NEW e \in S, NEW f \in S
    PROVE  /\ e = f \/ Before(e, f) \/ Before(f, e)
           /\ ~ (Before(e, f) /\ Before(f, e))
           /\ \A g \in S : Before(e, f) /\ Before(f, g) => Before(e, g)
BY DEF Keyed, Before

(* What is forwarded comes before what is left, and so do all entries that *)
(* cannot be delivered come after it.                                      *)
LEMMA ReadyFirst ==
    ASSUME NEW q, Keyed(q), NEW e \in Ready(q), NEW f \in q \ Ready(q)
    PROVE  Before(e, f)
<1>1. e \in q /\ f \in q /\ e # f
  BY DEF Ready
<1> SUFFICES ASSUME ~ Before(e, f) PROVE FALSE
  OBVIOUS
<1>2. Before(f, e)
  BY <1>1, BeforeTotal
<1>3. f.deliverable
  BY <1>1, <1>2 DEF Ready
<1>4. \A g \in q : Before(g, f) => g.deliverable
  <2> TAKE g \in q
  <2> HAVE Before(g, f)
  <2>1. Before(g, e)
    BY <1>1, <1>2 DEF Keyed, Before
  <2> QED
    BY <2>1 DEF Ready
<1>5. f \in Ready(q)
  BY <1>1, <1>3, <1>4 DEF Ready
<1> QED
  BY <1>5

-----------------------------------------------------------------------------
(* Types.  The numbers are those of the datagrams handled: each            *)
(* NEW_MESSAGE that has been handled raised the largest number by at most  *)
(* one.                                                                    *)
MessageUpTo(n) ==
    NewMessage \cup
    [type : {"PROPOSAL"}, dst : Servers, room : Rooms, text : Texts,
     id : 1..n, by : Servers] \cup
    [type : {"AGREEMENT"}, dst : Servers, room : Rooms, text : Texts,
     id : 1..n, by : Servers]

HeldUpTo(n) == [id : 1..n, by : Servers \cup {Nobody}, deliverable : BOOLEAN, text : Texts]

ProposedUpTo(n) == [id : 1..n, by : Servers, room : Rooms]

UniqueKeys(q) == \A e, f \in q : e.id = f.id /\ e.by = f.by => e = f

TypeUpTo(n) ==
    /\ net \subseteq MessageUpTo(n)
    /\ PROPOSED \in [Servers -> [Rooms -> 0..n]]
    /\ AGREED \in [Servers -> [Rooms -> 0..n]]
    /\ HOLD_BACK_QUEUE_TOTAL \in [Servers -> [Rooms -> SUBSET HeldUpTo(n)]]
    /\ proposals \in [Servers -> [Texts -> SUBSET ProposedUpTo(n)]]
    /\ up \in [Servers -> BOOLEAN]
    /\ forwarded \in [Servers -> [Rooms -> Seq(HeldUpTo(n))]]
    /\ posted \in Seq([room : Rooms, text : Texts])

(* What no type says: sets are finite, keys occur once, and a number that  *)
(* no server has reached cannot be waiting.                                *)
Shape ==
    /\ \A s \in Servers, r \in Rooms :
         /\ IsFiniteSet(HOLD_BACK_QUEUE_TOTAL[s][r])
         /\ UniqueKeys(HOLD_BACK_QUEUE_TOTAL[s][r])
         /\ \A e \in HOLD_BACK_QUEUE_TOTAL[s][r] : e.by = Nobody => e.id <= PROPOSED[s][r]
    /\ \A s \in Servers, t \in Texts : IsFiniteSet(proposals[s][t])

News    == {m \in net : m.type = "NEW_MESSAGE"}
Handled == NumServers * Len(posted) - Cardinality(News)

Counted ==
    /\ IsFiniteSet(News)
    /\ \A m \in News : m.post <= Len(posted)
    /\ Len(posted) <= MaxPosts
    /\ Handled \in Nat

Typed == TypeUpTo(Handled) /\ Shape /\ Counted

LEMMA UpToGrows ==
    ASSUME NEW n \in Nat, NEW k \in Nat, n <= k
    PROVE  /\ MessageUpTo(n) \subseteq MessageUpTo(k)
           /\ HeldUpTo(n) \subseteq HeldUpTo(k)
           /\ ProposedUpTo(n) \subseteq ProposedUpTo(k)
           /\ 0..n \subseteq 0..k
           /\ Seq(HeldUpTo(n)) \subseteq Seq(HeldUpTo(k))
<1>1. HeldUpTo(n) \subseteq HeldUpTo(k)
  BY DEF HeldUpTo
<1>2. MessageUpTo(n) \subseteq MessageUpTo(k)
  <2>1. 1..n \subseteq 1..k
    OBVIOUS
  <2> QED
    BY <2>1 DEF MessageUpTo
<1>3. ProposedUpTo(n) \subseteq ProposedUpTo(k) /\ 0..n \subseteq 0..k
  BY DEF ProposedUpTo
<1> QED
  BY <1>1, <1>2, <1>3

LEMMA TypeUpToGrows ==
    ASSUME NEW n \in Nat, NEW k \in Nat, n <= k, TypeUpTo(n)
    PROVE  TypeUpTo(k)
<1> USE DEF TypeUpTo
<1>1. net \subseteq MessageUpTo(k)
  BY UpToGrows
<1>2. /\ PROPOSED \in [Servers -> [Rooms -> 0..k]]
      /\ AGREED \in [Servers -> [Rooms -> 0..k]]
  BY UpToGrows
<1>3. HOLD_BACK_QUEUE_TOTAL \in [Servers -> [Rooms -> SUBSET HeldUpTo(k)]]
  BY UpToGrows
<1>4. proposals \in [Servers -> [Texts -> SUBSET ProposedUpTo(k)]]
  BY UpToGrows
<1>5. forwarded \in [Servers -> [Rooms -> Seq(HeldUpTo(k))]]
  BY UpToGrows
<1> QED
  BY <1>1, <1>2, <1>3, <1>4, <1>5

(* A datagram is what its type says. *)
LEMMA MessageKinds ==
    ASSUME NEW n \in Nat, TypeUpTo(n), NEW m \in net
    PROVE  /\ m.type = "NEW_MESSAGE" => m \in NewMessage
           /\ m.type = "PROPOSAL" =>
                 m \in [type : {"PROPOSAL"}, dst : Servers, room : Rooms, text : Texts,
                        id : 1..n, by : Servers]
           /\ m.type = "AGREEMENT" =>
                 m \in [type : {"AGREEMENT"}, dst : Servers, room : Rooms, text : Texts,
                        id : 1..n, by : Servers]
BY DEF TypeUpTo, MessageUpTo, NewMessage

NewsOf(s, r, t, p) ==
    {[type |-> "NEW_MESSAGE", src |-> s, dst |-> d, room |-> r, text |-> t, post |-> p] :
        d \in Servers}

LEMMA NewsOfOnePost ==
    ASSUME NEW s, NEW r, NEW t, NEW p
    PROVE  IsFiniteSet(NewsOf(s, r, t, p)) /\ Cardinality(NewsOf(s, r, t, p)) = NumServers
<1> DEFINE msg(d) == [type |-> "NEW_MESSAGE", src |-> s, dst |-> d, room |-> r, text |-> t,
                      post |-> p]
           new == {msg(d) : d \in Servers}
           f == [d \in Servers |-> msg(d)]
<1>1. \A d, e \in Servers : msg(d) = msg(e) => d = e
  <2> TAKE d, e \in Servers
  <2> HAVE msg(d) = msg(e)
  <2>1. msg(d).dst = msg(e).dst
    OBVIOUS
  <2> QED
    BY <2>1
<1> HIDE DEF msg
<1>2. f \in Injection(Servers, new)
  BY <1>1 DEF Injection, IsInjective
<1>3. f \in Surjection(Servers, new)
  BY DEF Surjection
<1>4. ExistsBijection(Servers, new)
  BY <1>2, <1>3 DEF ExistsBijection, Bijection
<1>5. IsFiniteSet(Servers) /\ Cardinality(Servers) = NumServers
  BY FS_Interval, ServersAssumption DEF Servers
<1> HIDE DEF new
<1>6. IsFiniteSet(new) /\ Cardinality(new) = NumServers
  BY <1>4, <1>5, FS_Bijection
<1>7. NewsOf(s, r, t, p) = new
  BY DEF NewsOf, new, msg
<1> QED
  BY <1>6, <1>7

LEMMA TypedInit ==
    ASSUME Init
    PROVE  Typed
<1> USE DEF Init
<1>1. News = {} /\ Len(posted) = 0
  BY DEF News
<1>2. Handled = 0 /\ Counted
  BY <1>1, FS_EmptySet, ServersAssumption, TotalAssumption DEF Handled, Counted
<1>3. TypeUpTo(0)
  <2>1. forwarded \in [Servers -> [Rooms -> Seq(HeldUpTo(0))]]
    OBVIOUS
  <2> QED
    BY <2>1 DEF TypeUpTo
<1>4. Shape
  BY FS_EmptySet DEF Shape, UniqueKeys
<1> QED
  BY <1>2, <1>3, <1>4 DEF Typed

LEMMA TypedPost ==
    ASSUME Typed, NEW s \in Servers, NEW r \in Rooms, NEW t \in Texts, Post(s, r, t)
    PROVE  Typed'
<1> DEFINE new == {[type |-> "NEW_MESSAGE", src |-> s, dst |-> d, room |-> r, text |-> t,
                    post |-> Len(posted) + 1] : d \in Servers}
<1> USE DEF Typed
<1>1. /\ posted \in Seq([room : Rooms, text : Texts])
      /\ posted' = Append(posted, [room |-> r, text |-> t])
      /\ Len(posted) \in Nat
      /\ Len(posted) < MaxPosts
  BY DEF TypeUpTo, Post
<1>2. /\ posted' \in Seq([room : Rooms, text : Texts])
      /\ Len(posted') = Len(posted) + 1
  BY <1>1
<1>3. net' = net \cup new
  BY DEF Post, forward_to_servers
<1>4. new \subseteq NewMessage
  <2>1. Len(posted) + 1 \in Posts
    BY <1>1, TotalAssumption DEF Posts
  <2> QED
    BY <2>1 DEF NewMessage
<1>5. \A m \in new : m.type = "NEW_MESSAGE" /\ m.post = Len(posted) + 1
  OBVIOUS
<1>6. IsFiniteSet(new) /\ Cardinality(new) = NumServers
  <2>1. new = NewsOf(s, r, t, Len(posted) + 1)
    BY DEF NewsOf
  <2> HIDE DEF new
  <2> QED
    BY <2>1, NewsOfOnePost
<1> HIDE DEF new
<1>7. News' = News \cup new
  BY <1>3, <1>5 DEF News
<1>8. News \cap new = {}
  <2>1. \A m \in News : m.post <= Len(posted)
    BY DEF Counted
  <2>2. ~ (Len(posted) + 1 <= Len(posted))
    BY <1>1
  <2> QED
    BY <1>5, <2>1, <2>2
<1>9. /\ IsFiniteSet(News')
      /\ Cardinality(News') = Cardinality(News) + NumServers
  <2>1. /\ IsFiniteSet(News \cup new)
        /\ Cardinality(News \cup new) =
             Cardinality(News) + Cardinality(new) - Cardinality(News \cap new)
    BY <1>6, FS_Union DEF Counted
  <2>2. Cardinality(News \cap new) = 0
    BY <1>8, FS_EmptySet
  <2>3. Cardinality(News) \in Nat
    BY FS_CardinalityType DEF Counted
  <2> QED
    BY <1>6, <1>7, <2>1, <2>2, <2>3, ServersAssumption
<1>10. Handled' = Handled
  <2>1. NumServers * (Len(posted) + 1) = NumServers * Len(posted) + NumServers
    BY <1>1, ServersAssumption
  <2>2. Cardinality(News) \in Nat /\ NumServers * Len(posted) \in Int
    BY <1>1, FS_CardinalityType, ServersAssumption DEF Counted
  <2> QED
    BY <1>2, <1>9, <2>1, <2>2, ServersAssumption DEF Handled
<1>11. Counted'
  <2>1. \A m \in News' : m.post <= Len(posted')
    <3> TAKE m \in News'
    <3>1. CASE m \in new
      BY <1>1, <1>2, <1>5, <3>1
    <3>2. CASE m \in News
      <4>1. m.post \in Nat
        <5>1. m \in net /\ m.type = "NEW_MESSAGE"
          BY <3>2 DEF News
        <5>2. m \in NewMessage
          BY <5>1, MessageKinds DEF Counted
        <5> QED
          BY <5>2, TotalAssumption DEF NewMessage, Posts
      <4> QED
        BY <1>1, <1>2, <3>2, <4>1 DEF Counted
    <3> QED
      BY <1>7, <3>1, <3>2
  <2> QED
    BY <1>1, <1>2, <1>9, <1>10, <2>1, TotalAssumption DEF Counted
<1>12. TypeUpTo(Handled)'
  <2>1. net' \subseteq MessageUpTo(Handled)
    BY <1>3, <1>4 DEF TypeUpTo, MessageUpTo
  <2> QED
    BY <1>2, <1>10, <2>1 DEF TypeUpTo, Post
<1>13. Shape'
  BY DEF Shape, Post
<1> QED
  BY <1>11, <1>12, <1>13

(* A datagram that is not a NEW_MESSAGE leaves them and their count alone. *)
LEMMA SameNews ==
    ASSUME Counted, News' = News, posted' = posted
    PROVE  Counted' /\ Handled' = Handled
BY DEF Counted, Handled

LEMMA TypedNew ==
    ASSUME Typed, NEW m \in net, m.type = "NEW_MESSAGE", HandleNewMessage(m)
    PROVE  Typed'
<1> DEFINE s == m.dst
           r == m.room
           id == NextProposal(s, r)
           e == [id |-> id, by |-> Nobody, deliverable |-> FALSE, text |-> m.text]
           p == [type |-> "PROPOSAL", dst |-> m.src, room |-> m.room, text |-> m.text,
                 id |-> id, by |-> s]
<1> USE DEF Typed
<1>1. PICK n \in Nat : n = Handled
  BY DEF Counted
<1>2. m \in NewMessage
  BY <1>1, MessageKinds
<1>3. s \in Servers /\ r \in Rooms /\ m.text \in Texts /\ m.src \in Servers
  BY <1>2 DEF NewMessage
<1>4. /\ PROPOSED[s][r] \in 0..n /\ AGREED[s][r] \in 0..n
      /\ id \in 1..(n + 1) /\ id > PROPOSED[s][r]
  <2>1. n \in Nat /\ PROPOSED[s][r] \in 0..n /\ AGREED[s][r] \in 0..n
    BY <1>1, <1>3 DEF TypeUpTo, Counted
  <2> QED
    BY <2>1 DEF NextProposal, Larger
<1>5. /\ PROPOSED' = [PROPOSED EXCEPT ![s][r] = id]
      /\ HOLD_BACK_QUEUE_TOTAL' =
           [HOLD_BACK_QUEUE_TOTAL EXCEPT ![s][r] = HOLD_BACK_QUEUE_TOTAL[s][r] \cup {e}]
      /\ net' = (net \ {m}) \cup {p}
      /\ UNCHANGED <<AGREED, proposals, up, forwarded, posted>>
  BY DEF HandleNewMessage
<1>6. News' = News \ {m} /\ m \in News
  <2>1. p.type # "NEW_MESSAGE"
    OBVIOUS
  <2> HIDE DEF p
  <2> QED
    BY <1>5, <2>1 DEF News
<1>7. /\ IsFiniteSet(News') /\ Cardinality(News') = Cardinality(News) - 1
      /\ Cardinality(News) \in Nat
  BY <1>6, FS_RemoveElement, FS_CardinalityType DEF Counted
<1>8. Handled' = n + 1
  <2>1. NumServers * Len(posted) \in Int
    BY ServersAssumption DEF TypeUpTo
  <2> QED
    BY <1>1, <1>5, <1>7, <2>1 DEF Handled
<1>9. Counted'
  BY <1>1, <1>5, <1>6, <1>7, <1>8 DEF Counted
<1>10. TypeUpTo(n + 1)
  BY <1>1, TypeUpToGrows
<1> HIDE DEF id
<1>11. e \in HeldUpTo(n + 1)
  BY <1>3, <1>4 DEF HeldUpTo
<1>12. p \in MessageUpTo(n + 1)
  BY <1>3, <1>4 DEF MessageUpTo
<1>13. TypeUpTo(n + 1)'
  <2>1. net' \subseteq MessageUpTo(n + 1)
    BY <1>5, <1>10, <1>12 DEF TypeUpTo
  <2>2. PROPOSED' \in [Servers -> [Rooms -> 0..(n + 1)]]
    BY <1>3, <1>4, <1>5, <1>10 DEF TypeUpTo
  <2>3. HOLD_BACK_QUEUE_TOTAL' \in [Servers -> [Rooms -> SUBSET HeldUpTo(n + 1)]]
    <3>1. HOLD_BACK_QUEUE_TOTAL[s][r] \cup {e} \in SUBSET HeldUpTo(n + 1)
      <4>1. HOLD_BACK_QUEUE_TOTAL[s][r] \subseteq HeldUpTo(n + 1)
        BY <1>3, <1>10 DEF TypeUpTo
      <4> HIDE DEF e
      <4> QED
        BY <1>11, <4>1
    <3>2. HOLD_BACK_QUEUE_TOTAL \in [Servers -> [Rooms -> SUBSET HeldUpTo(n + 1)]]
      BY <1>10 DEF TypeUpTo
    <3> HIDE DEF e, r, s
    <3>3. [HOLD_BACK_QUEUE_TOTAL EXCEPT ![s][r] = HOLD_BACK_QUEUE_TOTAL[s][r] \cup {e}]
             \in [Servers -> [Rooms -> SUBSET HeldUpTo(n + 1)]]
      BY <1>3, <3>1, <3>2, Update2Type
    <3> QED
      BY <1>5, <3>3
  <2>4. /\ AGREED \in [Servers -> [Rooms -> 0..(n + 1)]]
        /\ proposals \in [Servers -> [Texts -> SUBSET ProposedUpTo(n + 1)]]
        /\ up \in [Servers -> BOOLEAN]
        /\ forwarded \in [Servers -> [Rooms -> Seq(HeldUpTo(n + 1))]]
        /\ posted \in Seq([room : Rooms, text : Texts])
    BY <1>10 DEF TypeUpTo
  <2> HIDE DEF e, p, r, s
  <2> QED
    BY <1>5, <2>1, <2>2, <2>3, <2>4 DEF TypeUpTo
<1>14. TypeUpTo(Handled)'
  BY <1>1, <1>8, <1>13 DEF TypeUpTo
<1>15. Shape'
  <2>1. \A x \in Servers, y \in Rooms : HOLD_BACK_QUEUE_TOTAL'[x][y] =
           IF x = s /\ y = r THEN HOLD_BACK_QUEUE_TOTAL[s][r] \cup {e}
                             ELSE HOLD_BACK_QUEUE_TOTAL[x][y]
    BY <1>3, <1>5 DEF TypeUpTo
  <2>2. \A x \in Servers, y \in Rooms : PROPOSED'[x][y] =
           IF x = s /\ y = r THEN id ELSE PROPOSED[x][y]
    BY <1>3, <1>5 DEF TypeUpTo
  <2>3. IsFiniteSet(HOLD_BACK_QUEUE_TOTAL[s][r] \cup {e})
    BY <1>3, FS_AddElement DEF Shape
  <2>4. \A f \in HOLD_BACK_QUEUE_TOTAL[s][r] : f.id \in Nat
    BY <1>1, <1>3 DEF TypeUpTo, HeldUpTo
  <2>5. \A f \in HOLD_BACK_QUEUE_TOTAL[s][r] : f.by = Nobody => f.id < id
    BY <1>1, <1>3, <1>4, <2>4 DEF Shape
  <2>6. UniqueKeys(HOLD_BACK_QUEUE_TOTAL[s][r] \cup {e})
    <3>1. UniqueKeys(HOLD_BACK_QUEUE_TOTAL[s][r])
      BY <1>3 DEF Shape
    <3>2. e.id = id /\ e.by = Nobody
      OBVIOUS
    <3> HIDE DEF e
    <3> QED
      BY <1>4, <2>4, <2>5, <3>1, <3>2 DEF UniqueKeys
  <2>7. \A f \in HOLD_BACK_QUEUE_TOTAL[s][r] \cup {e} : f.by = Nobody => f.id <= id
    BY <1>4, <2>4, <2>5
  <2> HIDE DEF e
  <2> QED
    BY <1>5, <2>1, <2>2, <2>3, <2>6, <2>7 DEF Shape
<1> QED
  BY <1>9, <1>14, <1>15

LEMMA TypedProposal ==
    ASSUME Typed, NEW m \in net, m.type = "PROPOSAL", HandleProposal(m)
    PROVE  Typed'
<1> DEFINE n == Handled
           s == m.dst
           t == m.text
           p == [id |-> m.id, by |-> m.by, room |-> m.room]
           P == proposals[s][t] \cup {p}
           agreements == {[type |-> "AGREEMENT", dst |-> d, room |-> m.room, text |-> t,
                           id |-> Largest(P).id, by |-> Largest(P).by] : d \in Servers}
<1> USE DEF Typed
<1>1. n \in Nat
  BY DEF Counted
<1>2. /\ s \in Servers /\ m.room \in Rooms /\ t \in Texts
      /\ m.id \in 1..n /\ m.by \in Servers
  BY <1>1, MessageKinds
<1>3. P \subseteq ProposedUpTo(n) /\ IsFiniteSet(P)
  <2>1. p \in ProposedUpTo(n)
    BY <1>2 DEF ProposedUpTo
  <2>2. proposals[s][t] \subseteq ProposedUpTo(n) /\ IsFiniteSet(proposals[s][t])
    BY <1>2 DEF TypeUpTo, Shape
  <2> QED
    BY <2>1, <2>2, FS_AddElement
<1>4. /\ UNCHANGED <<PROPOSED, AGREED, HOLD_BACK_QUEUE_TOTAL, up, forwarded, posted>>
      /\ \/ /\ proposals' = [proposals EXCEPT ![s][t] = {}]
            /\ net' = (net \ {m}) \cup agreements
         \/ /\ proposals' = [proposals EXCEPT ![s][t] = P]
            /\ net' = net \ {m}
  BY DEF HandleProposal, forward_to_servers
<1>5. agreements \subseteq MessageUpTo(n)
  <2>1. \A q \in P : q.id \in 1..n /\ q.by \in Servers
    BY <1>3 DEF ProposedUpTo
  <2>2. \A q \in P : q.id \in 1..n /\ q.by \in Nat
    BY <2>1 DEF Servers
  <2>3. Largest(P) \in P
    <3> HIDE DEF P
    <3>1. P # {}
      BY DEF P
    <3> QED
      BY <1>1, <2>2, <3>1, LargestChosen
  <2>4. Largest(P).id \in 1..n /\ Largest(P).by \in Servers
    BY <2>1, <2>3
  <2> HIDE DEF P, n
  <2> QED
    BY <1>2, <2>4 DEF MessageUpTo
<1>6. \A a \in agreements : a.type = "AGREEMENT"
  OBVIOUS
<1> HIDE DEF agreements, P
<1>7. News' = News
  BY <1>4, <1>6 DEF News
<1>8. Counted' /\ Handled' = Handled
  BY <1>4, <1>7, SameNews
<1>9. net' \subseteq MessageUpTo(n)
  BY <1>4, <1>5 DEF TypeUpTo
<1>10. \E Q : /\ Q \subseteq ProposedUpTo(n) /\ IsFiniteSet(Q)
              /\ proposals' = [proposals EXCEPT ![s][t] = Q]
  BY <1>3, <1>4, FS_EmptySet
<1>11. PICK Q : /\ Q \subseteq ProposedUpTo(n) /\ IsFiniteSet(Q)
                /\ proposals' = [proposals EXCEPT ![s][t] = Q]
  BY <1>10
<1>12. proposals' \in [Servers -> [Texts -> SUBSET ProposedUpTo(n)]]
  BY <1>2, <1>11, Update2Type DEF TypeUpTo
<1>13. \A x \in Servers, y \in Texts : IsFiniteSet(proposals'[x][y])
  BY <1>2, <1>11 DEF TypeUpTo, Shape
<1>14. TypeUpTo(n)'
  BY <1>4, <1>8, <1>9, <1>12 DEF TypeUpTo
<1>15. Shape'
  BY <1>4, <1>13 DEF Shape
<1> QED
  BY <1>8, <1>14, <1>15

(* What an agreement makes of a queue. *)
LEMMA AgreeKeeps ==
    ASSUME NEW n \in Nat, NEW q, q \subseteq HeldUpTo(n), IsFiniteSet(q), UniqueKeys(q),
           NEW m, m.id \in 1..n, m.by \in Servers, m.text \in Texts,
           NEW agreed \in Agree(q, m)
    PROVE  /\ agreed \subseteq HeldUpTo(n)
           /\ IsFiniteSet(agreed)
           /\ UniqueKeys(agreed)
           /\ \A e \in agreed : e.by = Nobody => e \in q
<1> DEFINE moved == [id |-> m.id, by |-> m.by, deliverable |-> TRUE, text |-> m.text]
<1>1. PICK g \in SUBSET q :
         agreed = q \/ agreed = {e \in q \ g : ~ (e.id = m.id /\ e.by = m.by)} \cup {moved}
  <2>1. CASE {e \in q : e.text = m.text} = {}
    BY <2>1 DEF Agree
  <2>2. CASE {e \in q : e.text = m.text} # {}
    BY <2>2 DEF Agree
  <2> QED
    BY <2>1, <2>2
<1>2. CASE agreed = q
  BY <1>2
<1>3. CASE agreed = {e \in q \ g : ~ (e.id = m.id /\ e.by = m.by)} \cup {moved}
  <2> DEFINE others == {e \in q \ g : ~ (e.id = m.id /\ e.by = m.by)}
  <2>1. moved \in HeldUpTo(n)
    BY DEF HeldUpTo
  <2>2. IsFiniteSet(others)
    BY FS_Subset
  <2>3. moved.by # Nobody /\ moved.id = m.id /\ moved.by = m.by
    BY ServersAssumption DEF Servers, Nobody
  <2> HIDE DEF moved
  <2>4. IsFiniteSet(agreed)
    BY <1>3, <2>2, FS_AddElement
  <2> QED
    BY <1>3, <2>1, <2>3, <2>4 DEF UniqueKeys
<1> QED
  BY <1>1, <1>2, <1>3

LEMMA TypedAgreement ==
    ASSUME Typed, NEW m \in net, m.type = "AGREEMENT", HandleAgreement(m)
    PROVE  Typed'
<1> DEFINE n == Handled
           s == m.dst
           r == m.room
           q == HOLD_BACK_QUEUE_TOTAL[s][r]
<1> USE DEF Typed
<1>1. n \in Nat
  BY DEF Counted
<1>2. /\ s \in Servers /\ r \in Rooms /\ m.text \in Texts
      /\ m.id \in 1..n /\ m.by \in Servers
  BY <1>1, MessageKinds
<1>3. q \subseteq HeldUpTo(n) /\ IsFiniteSet(q) /\ UniqueKeys(q)
  BY <1>2 DEF TypeUpTo, Shape
<1>4. /\ net' = net \ {m}
      /\ AGREED' = [AGREED EXCEPT ![s][r] = Larger(AGREED[s][r], m.id)]
      /\ UNCHANGED <<PROPOSED, proposals, posted>>
      /\ up' = up \/ up' = [up EXCEPT ![s] = FALSE]
  BY DEF HandleAgreement
<1>5. PICK agreed \in Agree(q, m) : \E out \in InKeyOrder(Ready(agreed)) :
        /\ HOLD_BACK_QUEUE_TOTAL' =
             [HOLD_BACK_QUEUE_TOTAL EXCEPT ![s][r] = agreed \ Ready(agreed)]
        /\ \/ forwarded' = [forwarded EXCEPT ![s][r] = forwarded[s][r] \o out]
           \/ forwarded' = forwarded
  BY DEF HandleAgreement
<1>6. PICK out \in InKeyOrder(Ready(agreed)) :
         /\ HOLD_BACK_QUEUE_TOTAL' =
              [HOLD_BACK_QUEUE_TOTAL EXCEPT ![s][r] = agreed \ Ready(agreed)]
         /\ \/ forwarded' = [forwarded EXCEPT ![s][r] = forwarded[s][r] \o out]
            \/ forwarded' = forwarded
  BY <1>5
<1>7. /\ agreed \subseteq HeldUpTo(n)
      /\ IsFiniteSet(agreed)
      /\ UniqueKeys(agreed)
      /\ \A e \in agreed : e.by = Nobody => e \in q
  BY <1>1, <1>2, <1>3, AgreeKeeps
<1>8. Ready(agreed) \subseteq agreed
  BY DEF Ready
<1>9. IsFiniteSet(Ready(agreed)) /\ IsFiniteSet(agreed \ Ready(agreed))
  BY <1>7, <1>8, FS_Subset
<1>10. out \in Seq(Ready(agreed))
  BY <1>9, KeyOrderLists
<1>11. out \in Seq(HeldUpTo(n))
  BY <1>7, <1>8, <1>10
<1>12. News' = News
  BY <1>4 DEF News
<1>13. Counted' /\ Handled' = Handled
  BY <1>4, <1>12, SameNews
<1>14. forwarded' \in [Servers -> [Rooms -> Seq(HeldUpTo(n))]]
  <2>1. forwarded \in [Servers -> [Rooms -> Seq(HeldUpTo(n))]]
    BY DEF TypeUpTo
  <2>2. forwarded[s][r] \o out \in Seq(HeldUpTo(n))
    BY <1>2, <1>11, <2>1
  <2>3. [forwarded EXCEPT ![s][r] = forwarded[s][r] \o out]
           \in [Servers -> [Rooms -> Seq(HeldUpTo(n))]]
    BY <1>2, <2>1, <2>2, Update2Type
  <2> QED
    BY <1>6, <2>1, <2>3
<1>15. HOLD_BACK_QUEUE_TOTAL' \in [Servers -> [Rooms -> SUBSET HeldUpTo(n)]]
  <2>1. HOLD_BACK_QUEUE_TOTAL \in [Servers -> [Rooms -> SUBSET HeldUpTo(n)]]
    BY DEF TypeUpTo
  <2>2. agreed \ Ready(agreed) \in SUBSET HeldUpTo(n)
    BY <1>7
  <2>3. [HOLD_BACK_QUEUE_TOTAL EXCEPT ![s][r] = agreed \ Ready(agreed)]
           \in [Servers -> [Rooms -> SUBSET HeldUpTo(n)]]
    BY <1>2, <2>1, <2>2, Update2Type
  <2> QED
    BY <1>6, <2>3
<1>16. AGREED' \in [Servers -> [Rooms -> 0..n]]
  <2>1. Larger(AGREED[s][r], m.id) \in 0..n
    BY <1>1, <1>2 DEF TypeUpTo, Larger
  <2> QED
    BY <1>2, <1>4, <2>1, Update2Type DEF TypeUpTo
<1>17. TypeUpTo(n)'
  BY <1>4, <1>13, <1>14, <1>15, <1>16 DEF TypeUpTo
<1>18. Shape'
  <2>1. \A x \in Servers, y \in Rooms : HOLD_BACK_QUEUE_TOTAL'[x][y] =
           IF x = s /\ y = r THEN agreed \ Ready(agreed) ELSE HOLD_BACK_QUEUE_TOTAL[x][y]
    BY <1>2, <1>6 DEF TypeUpTo
  <2>2. UniqueKeys(agreed \ Ready(agreed))
    BY <1>7 DEF UniqueKeys
  <2>3. \A e \in agreed \ Ready(agreed) : e.by = Nobody => e.id <= PROPOSED[s][r]
    BY <1>2, <1>7 DEF Shape
  <2>4. UNCHANGED <<PROPOSED, proposals>>
    BY <1>4
  <2>5. IsFiniteSet(agreed \ Ready(agreed))
    BY <1>9
  <2> QED
    BY <2>1, <2>2, <2>3, <2>4, <2>5 DEF Shape
<1> QED
  BY <1>13, <1>17, <1>18

LEMMA TypedStep ==
    ASSUME Typed, [Next]_vars
    PROVE  Typed'
<1>1. CASE UNCHANGED vars
  BY <1>1 DEF vars, Typed, TypeUpTo, Shape, Counted, News, Handled
<1>2. ASSUME NEW s \in Servers, NEW r \in Rooms, NEW t \in Texts, Post(s, r, t)
      PROVE  Typed'
  BY <1>2, TypedPost
<1>3. ASSUME NEW m \in net, handle_total_order(m)
      PROVE  Typed'
  BY <1>3, TypedNew, TypedProposal, TypedAgreement DEF handle_total_order
<1> QED
  BY <1>1, <1>2, <1>3 DEF Next

LEMMA AlwaysTyped == Spec => []Typed
<1>1. Init => Typed
  BY TypedInit
<1>2. Typed /\ [Next]_vars => Typed'
  BY TypedStep
<1> QED
  BY <1>1, <1>2, PTL DEF Spec

(* A server counts no further than the number of datagrams that posts can  *)
(* make.                                                                   *)
LEMMA HandledBounded ==
    ASSUME Typed
    PROVE  Handled <= NumServers * MaxPosts
<1>1. /\ Len(posted) \in Nat /\ Len(posted) <= MaxPosts
      /\ Cardinality(News) \in Nat
  BY FS_CardinalityType DEF Typed, TypeUpTo, Counted
<1>2. \A a, x, y \in Nat : x <= y => a * x <= a * y
  OBVIOUS
<1>3. NumServers * Len(posted) <= NumServers * MaxPosts
  BY <1>1, <1>2, ServersAssumption, TotalAssumption
<1>4. NumServers * Len(posted) \in Int /\ NumServers * MaxPosts \in Int
  BY <1>1, ServersAssumption, TotalAssumption
<1> QED
  BY <1>1, <1>3, <1>4 DEF Handled

(* ChatTotal: the numbers, queues and logs of the servers are well formed, *)
(* a queue holds a key once, and no number is larger than the number of    *)
(* datagrams that the posts made (handle_total_order).                     *)
THEOREM TotalTyped == Spec => []TypeOK
<1>1. Typed => TypeOK
  <2> SUFFICES ASSUME Typed PROVE TypeOK
    OBVIOUS
  <2>1. Handled \in Nat /\ NumServers * MaxPosts \in Nat
    BY ServersAssumption, TotalAssumption DEF Typed, Counted
  <2>2. TypeUpTo(NumServers * MaxPosts)
    BY <2>1, HandledBounded, TypeUpToGrows DEF Typed
  <2>3. /\ net \subseteq NewMessage \cup Proposal \cup Agreement
        /\ proposals \in [Servers -> [Texts -> SUBSET Proposed]]
    BY <2>2 DEF TypeUpTo, MessageUpTo, ProposedUpTo, Proposal, Agreement, Proposed, Numbers
  <2>4. HeldUpTo(NumServers * MaxPosts) = Held
    BY DEF HeldUpTo, Held, Numbers
  <2>5. \A s \in Servers, r \in Rooms :
         /\ HOLD_BACK_QUEUE_TOTAL[s][r] \subseteq Held
         /\ \A e, f \in HOLD_BACK_QUEUE_TOTAL[s][r] :
              e.id = f.id /\ e.by = f.by => e = f
    BY <2>2, <2>4 DEF TypeUpTo, Typed, Shape, UniqueKeys
  <2>6. forwarded \in [Servers -> [Rooms -> Seq(Held)]]
    BY <2>2, <2>4 DEF TypeUpTo
  <2>7. 0..(NumServers * MaxPosts) \subseteq Numbers \cup {0}
    BY <2>1 DEF Numbers
  <2>8. /\ PROPOSED \in [Servers -> [Rooms -> Numbers \cup {0}]]
        /\ AGREED \in [Servers -> [Rooms -> Numbers \cup {0}]]
    BY <2>2, <2>7 DEF TypeUpTo
  <2> QED
    BY <2>2, <2>3, <2>5, <2>6, <2>8 DEF TypeUpTo, TypeOK
<1> QED
  BY <1>1, AlwaysTyped, PTL

-----------------------------------------------------------------------------
(* What the order rests on, for a chat in which no text is posted twice.   *)
(* Every text t goes through the same stages.  It comes to a server as a   *)
(* NEW_MESSAGE; the server gives it a number, waits, and proposes the      *)
(* number; when all proposals are in, a key is agreed on and announced;    *)
(* each server then holds the text under its key, and logs it.             *)
NewTo(s, d, r, t, p) ==
    [type |-> "NEW_MESSAGE", src |-> s, dst |-> d, room |-> r, text |-> t, post |-> p]
ProposalTo(s, r, t, k, b) ==
    [type |-> "PROPOSAL", dst |-> s, room |-> r, text |-> t, id |-> k, by |-> b]
AgreementTo(d, r, t, k, b) ==
    [type |-> "AGREEMENT", dst |-> d, room |-> r, text |-> t, id |-> k, by |-> b]
Offer(k, b, r)   == [id |-> k, by |-> b, room |-> r]
Waiting(k, t)    == [id |-> k, by |-> Nobody, deliverable |-> FALSE, text |-> t]
Ordered(k, b, t) == [id |-> k, by |-> b, deliverable |-> TRUE, text |-> t]

PostedIn(r, t)           == \E i \in 1..Len(posted) : posted[i] = [room |-> r, text |-> t]
Coming(s, d, r, t, p)    == NewTo(s, d, r, t, p) \in net
InFlight(s, r, t, k, b)  == ProposalTo(s, r, t, k, b) \in net
Got(s, r, t, k, b)       == Offer(k, b, r) \in proposals[s][t]
Announced(d, r, t, k, b) == AgreementTo(d, r, t, k, b) \in net
Waits(d, r, k, t)        == Waiting(k, t) \in HOLD_BACK_QUEUE_TOTAL[d][r]
Holds(d, r, k, b, t)     == Ordered(k, b, t) \in HOLD_BACK_QUEUE_TOTAL[d][r]
Logged(d, r, k, b, t)    ==
    \E i \in 1..Len(forwarded[d][r]) : forwarded[d][r][i] = Ordered(k, b, t)

(* Server d has proposed k for t, and no key is agreed on yet.             *)
Proposes(d, r, k, t) == \E s \in Servers : InFlight(s, r, t, k, d) \/ Got(s, r, t, k, d)

(* The key of t is the number k of server b.                               *)
Agreed(r, k, b, t) ==
    \E d \in Servers : Announced(d, r, t, k, b) \/ Holds(d, r, k, b, t) \/ Logged(d, r, k, b, t)

(* Server b has given t the number k. *)
Numbered(b, r, k, t) == Agreed(r, k, b, t) \/ Proposes(b, r, k, t) \/ Waits(b, r, k, t)

(* The server that collects the proposals for t. *)
Home(s, t) ==
    \/ \E d \in Servers, r \in Rooms, p \in Nat : Coming(s, d, r, t, p)
    \/ \E r \in Rooms, k \in Nat, b \in Servers : InFlight(s, r, t, k, b) \/ Got(s, r, t, k, b)

Earlier(k, b, l, c) == k < l \/ (k = l /\ b < c)

(* A text is in one room, in which it was posted. *)
OneRoom ==
    /\ \A r, q \in Rooms, t \in Texts : PostedIn(r, t) /\ PostedIn(q, t) => r = q
    /\ \A s, d \in Servers, r \in Rooms, t \in Texts, p \in Nat :
          Coming(s, d, r, t, p) => PostedIn(r, t)
    /\ \A b \in Servers, r \in Rooms, t \in Texts, k \in Nat :
          Numbered(b, r, k, t) => PostedIn(r, t)

(* A queue holds a text once. *)
OneEntry ==
    \A d \in Servers, r \in Rooms, t \in Texts, k, l \in Nat, b, c \in Servers :
       /\ Waits(d, r, k, t) /\ Waits(d, r, l, t) => k = l
       /\ Holds(d, r, k, b, t) /\ Holds(d, r, l, c, t) => k = l /\ b = c
       /\ ~ (Waits(d, r, k, t) /\ Holds(d, r, l, b, t))

(* A server gives a number to one text, and none beyond its last.          *)
OneText ==
    \A b \in Servers, r \in Rooms, k \in Nat, t, u \in Texts :
       Numbered(b, r, k, t) => k <= PROPOSED[b][r] /\ (Numbered(b, r, k, u) => t = u)

(* One key is agreed on for a text. *)
OneKey ==
    \A r \in Rooms, k, l \in Nat, b, c \in Servers, t \in Texts :
       Agreed(r, k, b, t) /\ Agreed(r, l, c, t) => k = l /\ b = c

OneHome == \A s, e \in Servers, t \in Texts : Home(s, t) /\ Home(e, t) => s = e

(* As long as a text is on its way to a server, the server has not given   *)
(* it a number, and so no key is agreed on.                                *)
NewFirst ==
    \A s, d \in Servers, r \in Rooms, t \in Texts, p \in Nat :
       Coming(s, d, r, t, p) =>
          /\ \A o \in Nat : Coming(s, d, r, t, o) => o = p
          /\ \A k \in Nat : ~ Proposes(d, r, k, t) /\ ~ Waits(d, r, k, t)
          /\ \A k \in Nat, b \in Servers : ~ Agreed(r, k, b, t)

(* A server proposes one number, in one datagram, before a key is agreed   *)
(* on; it waits meanwhile, and has logged nothing from that number on.     *)
OneOffer ==
    \A d \in Servers, r \in Rooms, t \in Texts, k \in Nat :
       Proposes(d, r, k, t) =>
          /\ \A l \in Nat : Proposes(d, r, l, t) => k = l
          /\ \A s, e \in Servers : ~ (InFlight(s, r, t, k, d) /\ Got(e, r, t, k, d))
          /\ \A l \in Nat, b \in Servers : ~ Agreed(r, l, b, t)
          /\ up[d] => Waits(d, r, k, t)
          /\ \A l \in Nat, b \in Servers, u \in Texts : Logged(d, r, l, b, u) => l < k

(* A server that an agreement is on its way to waits for it, under a       *)
(* number that is not larger than the one agreed on.                       *)
Expected ==
    \A d \in Servers, r \in Rooms, t \in Texts, k \in Nat, b \in Servers : up[d] =>
       /\ Announced(d, r, t, k, b) => \E l \in Nat : Waits(d, r, l, t)
       /\ Agreed(r, k, b, t) => \A l \in Nat : Waits(d, r, l, t) => l <= k

(* A text that has a key is, at every server, logged or still to come; a   *)
(* server that died without it had logged nothing after it.                *)
Everywhere ==
    \A r \in Rooms, k \in Nat, b \in Servers, t \in Texts, d \in Servers :
       Agreed(r, k, b, t) =>
          \/ Logged(d, r, k, b, t)
          \/ up[d] /\ (Holds(d, r, k, b, t) \/ Announced(d, r, t, k, b))
          \/ /\ ~ up[d]
             /\ \A l \in Nat, c \in Servers, u \in Texts :
                   Logged(d, r, l, c, u) => Earlier(l, c, k, b)

(* What a server has logged comes before all that it has not.              *)
LogFirst ==
    \A d \in Servers, r \in Rooms, t, u \in Texts, k, l \in Nat, b, c \in Servers :
       /\ Logged(d, r, k, b, t) \/ Holds(d, r, k, b, t) => k <= AGREED[d][r]
       /\ up[d] /\ Logged(d, r, k, b, t) =>
             /\ Waits(d, r, l, u) => k < l
             /\ Holds(d, r, l, c, u) => Earlier(k, b, l, c)

LogOrdered ==
    \A d \in Servers, r \in Rooms, i, j \in Nat :
       i \in 1..Len(forwarded[d][r]) /\ j \in 1..Len(forwarded[d][r]) /\ i < j =>
          Before(forwarded[d][r][i], forwarded[d][r][j])

(* Entries that wait have no sender in their key, the others have.         *)
Forms ==
    \A d \in Servers, r \in Rooms :
       /\ \A e \in HOLD_BACK_QUEUE_TOTAL[d][r] :
             \/ \E k \in Nat, t \in Texts : e = Waiting(k, t)
             \/ \E k \in Nat, b \in Servers, t \in Texts : e = Ordered(k, b, t)
       /\ \A i \in 1..Len(forwarded[d][r]) :
             \E k \in Nat, b \in Servers, t \in Texts : forwarded[d][r][i] = Ordered(k, b, t)

OrderInv ==
    /\ OneRoom /\ OneEntry /\ OneText /\ OneKey /\ OneHome /\ NewFirst
    /\ OneOffer /\ Expected /\ Everywhere /\ LogFirst /\ LogOrdered /\ Forms

-----------------------------------------------------------------------------
(* The datagrams, proposals and entries are told apart by their fields.    *)
LEMMA Distinct ==
    ASSUME NEW s, NEW d, NEW r, NEW t, NEW p, NEW k, NEW b,
           NEW s2, NEW d2, NEW r2, NEW t2, NEW p2, NEW k2, NEW b2
    PROVE  /\ NewTo(s, d, r, t, p) = NewTo(s2, d2, r2, t2, p2) =>
                s = s2 /\ d = d2 /\ r = r2 /\ t = t2 /\ p = p2
           /\ ProposalTo(s, r, t, k, b) = ProposalTo(s2, r2, t2, k2, b2) =>
                s = s2 /\ r = r2 /\ t = t2 /\ k = k2 /\ b = b2
           /\ AgreementTo(d, r, t, k, b) = AgreementTo(d2, r2, t2, k2, b2) =>
                d = d2 /\ r = r2 /\ t = t2 /\ k = k2 /\ b = b2
           /\ Offer(k, b, r) = Offer(k2, b2, r2) => k = k2 /\ b = b2 /\ r = r2
           /\ Waiting(k, t) = Waiting(k2, t2) => k = k2 /\ t = t2
           /\ Ordered(k, b, t) = Ordered(k2, b2, t2) => k = k2 /\ b = b2 /\ t = t2
           /\ NewTo(s, d, r, t, p).type = "NEW_MESSAGE"
           /\ ProposalTo(s, r, t, k, b).type = "PROPOSAL"
           /\ AgreementTo(d, r, t, k, b).type = "AGREEMENT"
           /\ Waiting(k, t) # Ordered(k2, b2, t2)
<1>1. NewTo(s, d, r, t, p) = NewTo(s2, d2, r2, t2, p2) =>
                s = s2 /\ d = d2 /\ r = r2 /\ t = t2 /\ p = p2
  BY DEF NewTo
<1>2. ProposalTo(s, r, t, k, b) = ProposalTo(s2, r2, t2, k2, b2) =>
                s = s2 /\ r = r2 /\ t = t2 /\ k = k2 /\ b = b2
  BY DEF ProposalTo
<1>3. AgreementTo(d, r, t, k, b) = AgreementTo(d2, r2, t2, k2, b2) =>
                d = d2 /\ r = r2 /\ t = t2 /\ k = k2 /\ b = b2
  BY DEF AgreementTo
<1>4. Offer(k, b, r) = Offer(k2, b2, r2) => k = k2 /\ b = b2 /\ r = r2
  BY DEF Offer
<1>5. Waiting(k, t) = Waiting(k2, t2) => k = k2 /\ t = t2
  BY DEF Waiting
<1>6. Ordered(k, b, t) = Ordered(k2, b2, t2) => k = k2 /\ b = b2 /\ t = t2
  BY DEF Ordered
<1>7. /\ NewTo(s, d, r, t, p).type = "NEW_MESSAGE"
      /\ ProposalTo(s, r, t, k, b).type = "PROPOSAL"
      /\ AgreementTo(d, r, t, k, b).type = "AGREEMENT"
  BY DEF NewTo, ProposalTo, AgreementTo
<1>8. Waiting(k, t) # Ordered(k2, b2, t2)
  BY DEF Waiting, Ordered
<1> QED
  BY <1>1, <1>2, <1>3, <1>4, <1>5, <1>6, <1>7, <1>8

(* The stages range over numbers, servers and texts. *)
LEMMA StageTypes ==
    ASSUME Typed
    PROVE  /\ \A d \in Servers, r \in Rooms : PROPOSED[d][r] \in Nat /\ AGREED[d][r] \in Nat
           /\ \A m \in net : m.type = "NEW_MESSAGE" =>
                \E s, d \in Servers, r \in Rooms, t \in Texts, p \in Nat :
                   m = NewTo(s, d, r, t, p) /\ Coming(s, d, r, t, p) /\ p <= Len(posted)
           /\ \A m \in net : m.type = "PROPOSAL" =>
                \E s, b \in Servers, r \in Rooms, t \in Texts, k \in Nat :
                   m = ProposalTo(s, r, t, k, b) /\ InFlight(s, r, t, k, b)
           /\ \A m \in net : m.type = "AGREEMENT" =>
                \E d, b \in Servers, r \in Rooms, t \in Texts, k \in Nat :
                   m = AgreementTo(d, r, t, k, b) /\ Announced(d, r, t, k, b)
<1>1. PICK n \in Nat : n = Handled /\ TypeUpTo(n)
  BY DEF Typed, Counted
<1>2. \A d \in Servers, r \in Rooms : PROPOSED[d][r] \in Nat /\ AGREED[d][r] \in Nat
  BY <1>1 DEF TypeUpTo
<1>3. ASSUME NEW m \in net, m.type = "NEW_MESSAGE"
      PROVE  \E s, d \in Servers, r \in Rooms, t \in Texts, p \in Nat :
                m = NewTo(s, d, r, t, p) /\ Coming(s, d, r, t, p) /\ p <= Len(posted)
  <2>1. m \in NewMessage
    BY <1>1, <1>3, MessageKinds
  <2>2. /\ m.src \in Servers /\ m.dst \in Servers /\ m.room \in Rooms
        /\ m.text \in Texts /\ m.post \in Nat
        /\ m = NewTo(m.src, m.dst, m.room, m.text, m.post)
    BY <2>1, TotalAssumption DEF NewMessage, NewTo, Posts
  <2>3. m.post <= Len(posted)
    BY <1>3 DEF Typed, Counted, News
  <2> QED
    BY <2>2, <2>3 DEF Coming
<1>4. ASSUME NEW m \in net, m.type = "PROPOSAL"
      PROVE  \E s, b \in Servers, r \in Rooms, t \in Texts, k \in Nat :
                   m = ProposalTo(s, r, t, k, b) /\ InFlight(s, r, t, k, b)
  <2>1. m \in [type : {"PROPOSAL"}, dst : Servers, room : Rooms, text : Texts,
               id : 1..n, by : Servers]
    BY <1>1, <1>4, MessageKinds
  <2>2. /\ m.dst \in Servers /\ m.room \in Rooms /\ m.text \in Texts
        /\ m.id \in Nat /\ m.by \in Servers
        /\ m = ProposalTo(m.dst, m.room, m.text, m.id, m.by)
    BY <2>1 DEF ProposalTo
  <2> QED
    BY <2>2 DEF InFlight
<1>5. ASSUME NEW m \in net, m.type = "AGREEMENT"
      PROVE  \E d, b \in Servers, r \in Rooms, t \in Texts, k \in Nat :
                   m = AgreementTo(d, r, t, k, b) /\ Announced(d, r, t, k, b)
  <2>1. m \in [type : {"AGREEMENT"}, dst : Servers, room : Rooms, text : Texts,
               id : 1..n, by : Servers]
    BY <1>1, <1>5, MessageKinds
  <2>2. /\ m.dst \in Servers /\ m.room \in Rooms /\ m.text \in Texts
        /\ m.id \in Nat /\ m.by \in Servers
        /\ m = AgreementTo(m.dst, m.room, m.text, m.id, m.by)
    BY <2>1 DEF AgreementTo
  <2> QED
    BY <2>2 DEF Announced
<1> QED
  BY <1>2, <1>3, <1>4, <1>5

LEMMA OrderInit ==
    ASSUME Init
    PROVE  OrderInv
<1>1. /\ \A r \in Rooms, t \in Texts : ~ PostedIn(r, t)
      /\ \A s, d \in Servers, r \in Rooms, t \in Texts, p \in Nat : ~ Coming(s, d, r, t, p)
      /\ \A s, b \in Servers, r \in Rooms, t \in Texts, k \in Nat :
            ~ InFlight(s, r, t, k, b) /\ ~ Got(s, r, t, k, b)
      /\ \A d, b \in Servers, r \in Rooms, t \in Texts, k \in Nat :
            /\ ~ Announced(d, r, t, k, b) /\ ~ Waits(d, r, k, t)
            /\ ~ Holds(d, r, k, b, t) /\ ~ Logged(d, r, k, b, t)
      /\ \A d \in Servers, r \in Rooms : HOLD_BACK_QUEUE_TOTAL[d][r] = {} /\ forwarded[d][r] = <<>>
  BY DEF Init, PostedIn, Coming, InFlight, Got, Announced, Waits, Holds, Logged
<1>2. /\ \A b \in Servers, r \in Rooms, t \in Texts, k \in Nat :
            ~ Agreed(r, k, b, t) /\ ~ Proposes(b, r, k, t) /\ ~ Numbered(b, r, k, t)
      /\ \A s \in Servers, t \in Texts : ~ Home(s, t)
  BY <1>1 DEF Agreed, Proposes, Numbered, Home
<1>3. OneRoom /\ OneEntry /\ OneText /\ OneKey /\ OneHome /\ NewFirst
  BY <1>1, <1>2 DEF OneRoom, OneEntry, OneText, OneKey, OneHome, NewFirst
<1>4. OneOffer /\ Expected /\ Everywhere /\ LogFirst
  BY <1>1, <1>2 DEF OneOffer, Expected, Everywhere, LogFirst
<1>5. LogOrdered /\ Forms
  BY <1>1 DEF LogOrdered, Forms
<1> QED
  BY <1>3, <1>4, <1>5 DEF OrderInv

-----------------------------------------------------------------------------
(* A post: a text that was posted nowhere is on its way to every server.   *)
LEMMA PostSteps ==
    ASSUME Typed, ~ Repeats,
           NEW s \in Servers, NEW r \in Rooms, NEW t \in Texts, Post(s, r, t)
    PROVE  /\ \A q \in Rooms : ~ PostedIn(q, t)
           /\ \A q \in Rooms, u \in Texts :
                PostedIn(q, u)' <=> PostedIn(q, u) \/ (q = r /\ u = t)
           /\ \A a, d \in Servers, q \in Rooms, u \in Texts, p \in Nat :
                Coming(a, d, q, u, p)' <=>
                  \/ Coming(a, d, q, u, p)
                  \/ a = s /\ q = r /\ u = t /\ p = Len(posted) + 1
           /\ \A a, b \in Servers, q \in Rooms, u \in Texts, k \in Nat :
                /\ InFlight(a, q, u, k, b)' <=> InFlight(a, q, u, k, b)
                /\ Announced(a, q, u, k, b)' <=> Announced(a, q, u, k, b)
           /\ UNCHANGED <<PROPOSED, AGREED, HOLD_BACK_QUEUE_TOTAL, proposals, up, forwarded>>
<1>1. /\ posted \in Seq([room : Rooms, text : Texts])
      /\ posted' = Append(posted, [room |-> r, text |-> t])
      /\ Len(posted) \in Nat
      /\ \A i \in 1..Len(posted) : posted[i].text # t
      /\ net' = net \cup {NewTo(s, d, r, t, Len(posted) + 1) : d \in Servers}
      /\ UNCHANGED <<PROPOSED, AGREED, HOLD_BACK_QUEUE_TOTAL, proposals, up, forwarded>>
  BY DEF Post, Typed, TypeUpTo, NewTo, forward_to_servers
<1>2. \A q \in Rooms : ~ PostedIn(q, t)
  BY <1>1 DEF PostedIn
<1>3. \A q \in Rooms, u \in Texts :
         PostedIn(q, u)' <=> PostedIn(q, u) \/ (q = r /\ u = t)
  <2> TAKE q \in Rooms, u \in Texts
  <2>1. /\ Len(posted') = Len(posted) + 1
        /\ \A i \in 1..Len(posted) : posted'[i] = posted[i]
        /\ posted'[Len(posted) + 1] = [room |-> r, text |-> t]
    BY <1>1
  <2>2. 1..(Len(posted) + 1) = 1..Len(posted) \cup {Len(posted) + 1}
    BY <1>1
  <2>3. [room |-> q, text |-> u] = [room |-> r, text |-> t] <=> q = r /\ u = t
    OBVIOUS
  <2> QED
    BY <2>1, <2>2, <2>3 DEF PostedIn
<1>4. \A a, d \in Servers, q \in Rooms, u \in Texts, p \in Nat :
         Coming(a, d, q, u, p)' <=>
           \/ Coming(a, d, q, u, p)
           \/ a = s /\ q = r /\ u = t /\ p = Len(posted) + 1
  <2> DEFINE new == {NewTo(s, d, r, t, Len(posted) + 1) : d \in Servers}
  <2> TAKE a, d \in Servers, q \in Rooms, u \in Texts, p \in Nat
  <2>1. NewTo(a, d, q, u, p) \in new <=> a = s /\ q = r /\ u = t /\ p = Len(posted) + 1
    <3>1. \A e \in Servers : NewTo(a, d, q, u, p) = NewTo(s, e, r, t, Len(posted) + 1) =>
             a = s /\ d = e /\ q = r /\ u = t /\ p = Len(posted) + 1
      BY DEF NewTo
    <3> QED
      BY <3>1
  <2> HIDE DEF new
  <2>2. net' = net \cup new
    BY <1>1 DEF new
  <2> QED
    BY <2>1, <2>2 DEF Coming
<1>5. \A a, b \in Servers, q \in Rooms, u \in Texts, k \in Nat :
         /\ InFlight(a, q, u, k, b)' <=> InFlight(a, q, u, k, b)
         /\ Announced(a, q, u, k, b)' <=> Announced(a, q, u, k, b)
  <2>1. \A m \in {NewTo(s, d, r, t, Len(posted) + 1) : d \in Servers} : m.type = "NEW_MESSAGE"
    BY Distinct
  <2> TAKE a, b \in Servers, q \in Rooms, u \in Texts, k \in Nat
  <2>2. /\ ProposalTo(a, q, u, k, b).type = "PROPOSAL"
        /\ AgreementTo(a, q, u, k, b).type = "AGREEMENT"
    BY Distinct
  <2> QED
    BY <1>1, <2>1, <2>2 DEF InFlight, Announced
<1> QED
  BY <1>1, <1>2, <1>3, <1>4, <1>5

(* What follows for a text from the stages it is in. *)
LEMMA Fresh ==
    ASSUME OneRoom, NEW t \in Texts, \A q \in Rooms : ~ PostedIn(q, t)
    PROVE  /\ \A s, d \in Servers, q \in Rooms, p \in Nat : ~ Coming(s, d, q, t, p)
           /\ \A b \in Servers, q \in Rooms, k \in Nat :
                ~ Agreed(q, k, b, t) /\ ~ Proposes(b, q, k, t) /\ ~ Waits(b, q, k, t)
           /\ \A s \in Servers : ~ Home(s, t)
<1>1. \A s, d \in Servers, q \in Rooms, p \in Nat : ~ Coming(s, d, q, t, p)
  BY DEF OneRoom
<1>2. \A b \in Servers, q \in Rooms, k \in Nat :
                ~ Agreed(q, k, b, t) /\ ~ Proposes(b, q, k, t) /\ ~ Waits(b, q, k, t)
  BY DEF OneRoom, Numbered
<1>3. \A s \in Servers : ~ Home(s, t)
  BY <1>1, <1>2 DEF Home, Proposes
<1> QED
  BY <1>1, <1>2, <1>3

(* What is queued and logged may stay as it is. *)
LEMMA LogFrame ==
    ASSUME LogFirst, LogOrdered, Forms, UNCHANGED <<AGREED, HOLD_BACK_QUEUE_TOTAL, up, forwarded>>
    PROVE  LogFirst' /\ LogOrdered' /\ Forms'
<1>1. \A d, b \in Servers, r \in Rooms, t \in Texts, k \in Nat :
         /\ Logged(d, r, k, b, t)' <=> Logged(d, r, k, b, t)
         /\ Holds(d, r, k, b, t)' <=> Holds(d, r, k, b, t)
         /\ Waits(d, r, k, t)' <=> Waits(d, r, k, t)
  BY DEF Logged, Holds, Waits
<1>2. ASSUME NEW d \in Servers, NEW r \in Rooms, NEW t \in Texts, NEW u \in Texts,
             NEW k \in Nat, NEW l \in Nat, NEW b \in Servers, NEW c \in Servers
      PROVE  /\ Logged(d, r, k, b, t)' \/ Holds(d, r, k, b, t)' => k <= AGREED'[d][r]
             /\ up'[d] /\ Logged(d, r, k, b, t)' =>
                   /\ Waits(d, r, l, u)' => k < l
                   /\ Holds(d, r, l, c, u)' => Earlier(k, b, l, c)
  <2>1. /\ Logged(d, r, k, b, t) \/ Holds(d, r, k, b, t) => k <= AGREED[d][r]
        /\ up[d] /\ Logged(d, r, k, b, t) =>
              /\ Waits(d, r, l, u) => k < l
              /\ Holds(d, r, l, c, u) => Earlier(k, b, l, c)
    BY DEF LogFirst
  <2>2. /\ Logged(d, r, k, b, t)' <=> Logged(d, r, k, b, t)
        /\ Holds(d, r, k, b, t)' <=> Holds(d, r, k, b, t)
        /\ Waits(d, r, l, u)' <=> Waits(d, r, l, u)
        /\ Holds(d, r, l, c, u)' <=> Holds(d, r, l, c, u)
    BY <1>1
  <2> QED
    BY <2>1, <2>2
<1>3. LogFirst'
  BY <1>2 DEF LogFirst, Earlier
<1>4. LogOrdered' /\ Forms'
  BY DEF LogOrdered, Forms, Before
<1> QED
  BY <1>3, <1>4

LEMMA OrderPost ==
    ASSUME Typed, OrderInv, ~ Repeats,
           NEW s \in Servers, NEW r \in Rooms, NEW t \in Texts, Post(s, r, t)
    PROVE  OrderInv'
<1> USE DEF OrderInv
<1>1. \A q \in Rooms : ~ PostedIn(q, t)
  BY PostSteps
<1>2. \A q \in Rooms, u \in Texts :
         PostedIn(q, u)' <=> PostedIn(q, u) \/ (q = r /\ u = t)
  BY PostSteps
<1>3. \A a, d \in Servers, q \in Rooms, u \in Texts, p \in Nat :
         Coming(a, d, q, u, p)' <=>
           \/ Coming(a, d, q, u, p)
           \/ a = s /\ q = r /\ u = t /\ p = Len(posted) + 1
  BY PostSteps
<1>4. \A a, b \in Servers, q \in Rooms, u \in Texts, k \in Nat :
         /\ InFlight(a, q, u, k, b)' <=> InFlight(a, q, u, k, b)
         /\ Announced(a, q, u, k, b)' <=> Announced(a, q, u, k, b)
  BY PostSteps
<1>5. UNCHANGED <<PROPOSED, AGREED, HOLD_BACK_QUEUE_TOTAL, proposals, up, forwarded>>
  BY PostSteps
<1>6. /\ \A a, d \in Servers, q \in Rooms, p \in Nat : ~ Coming(a, d, q, t, p)
      /\ \A b \in Servers, q \in Rooms, k \in Nat :
                ~ Agreed(q, k, b, t) /\ ~ Proposes(b, q, k, t) /\ ~ Waits(b, q, k, t)
      /\ \A a \in Servers : ~ Home(a, t)
  BY <1>1, Fresh
<1>7. /\ \A a, b \in Servers, q \in Rooms, u \in Texts, k \in Nat :
           Got(a, q, u, k, b)' <=> Got(a, q, u, k, b)
      /\ \A b \in Servers, q \in Rooms, u \in Texts, k \in Nat :
           /\ Waits(b, q, k, u)' <=> Waits(b, q, k, u)
           /\ \A c \in Servers : /\ Holds(b, q, k, c, u)' <=> Holds(b, q, k, c, u)
                                 /\ Logged(b, q, k, c, u)' <=> Logged(b, q, k, c, u)
  BY <1>5 DEF Got, Waits, Holds, Logged
<1>8. \A b \in Servers, q \in Rooms, u \in Texts, k \in Nat :
         /\ Agreed(q, k, b, u)' <=> Agreed(q, k, b, u)
         /\ Proposes(b, q, k, u)' <=> Proposes(b, q, k, u)
  BY <1>4, <1>7 DEF Agreed, Proposes
<1>9. \A b \in Servers, q \in Rooms, u \in Texts, k \in Nat :
         Numbered(b, q, k, u)' <=> Numbered(b, q, k, u)
  BY <1>7, <1>8 DEF Numbered
<1>10. \A a \in Servers, u \in Texts : Home(a, u)' => Home(a, u) \/ (a = s /\ u = t)
  BY <1>3, <1>4, <1>7 DEF Home
<1>11. OneRoom'
  <2>1. \A q, x \in Rooms, u \in Texts : PostedIn(q, u)' /\ PostedIn(x, u)' => q = x
    BY <1>1, <1>2 DEF OneRoom
  <2>2. \A a, d \in Servers, q \in Rooms, u \in Texts, p \in Nat :
           Coming(a, d, q, u, p)' => PostedIn(q, u)'
    BY <1>2, <1>3 DEF OneRoom
  <2>3. \A b \in Servers, q \in Rooms, u \in Texts, k \in Nat :
           Numbered(b, q, k, u)' => PostedIn(q, u)'
    BY <1>2, <1>9 DEF OneRoom
  <2> QED
    BY <2>1, <2>2, <2>3 DEF OneRoom
<1>12. OneEntry' /\ OneKey'
  <2>1. OneEntry'
    BY <1>7 DEF OneEntry
  <2>2. OneKey'
    BY <1>8 DEF OneKey
  <2> QED
    BY <2>1, <2>2
<1>13. OneText'
  BY <1>5, <1>9 DEF OneText
<1>14. OneHome'
  BY <1>6, <1>10 DEF OneHome
<1>15. NewFirst'
  BY <1>3, <1>6, <1>7, <1>8 DEF NewFirst
<1>16. OneOffer'
  BY <1>4, <1>5, <1>7, <1>8 DEF OneOffer
<1>17. Expected'
  BY <1>4, <1>5, <1>7, <1>8 DEF Expected
<1>18. Everywhere'
  BY <1>4, <1>5, <1>7, <1>8 DEF Everywhere, Earlier
<1>19. LogFirst' /\ LogOrdered' /\ Forms'
  BY <1>5, LogFrame
<1> QED
  BY <1>11, <1>12, <1>13, <1>14, <1>15, <1>16, <1>17, <1>18, <1>19

-----------------------------------------------------------------------------
(* Server d handles the NEW_MESSAGE of t from s: it waits under a number k *)
(* beyond all those it has used or seen agreed, and proposes k.            *)
NewHandled(s, d, r, t, p, k) ==
    /\ Coming(s, d, r, t, p)
    /\ up[d] /\ k > PROPOSED[d][r] /\ k > AGREED[d][r]
    /\ \A x \in Servers, q \in Rooms :
         PROPOSED'[x][q] = IF x = d /\ q = r THEN k ELSE PROPOSED[x][q]
    /\ \A a, x \in Servers, q \in Rooms, u \in Texts, o \in Nat :
         Coming(a, x, q, u, o)' <=>
           /\ Coming(a, x, q, u, o)
           /\ ~ (a = s /\ x = d /\ q = r /\ u = t /\ o = p)
    /\ \A a, b \in Servers, q \in Rooms, u \in Texts, l \in Nat :
         /\ InFlight(a, q, u, l, b)' <=>
              \/ InFlight(a, q, u, l, b)
              \/ a = s /\ q = r /\ u = t /\ l = k /\ b = d
         /\ Announced(a, q, u, l, b)' <=> Announced(a, q, u, l, b)
         /\ Holds(a, q, l, b, u)' <=> Holds(a, q, l, b, u)
    /\ \A x \in Servers, q \in Rooms, u \in Texts, l \in Nat :
         Waits(x, q, l, u)' <=>
           \/ Waits(x, q, l, u)
           \/ x = d /\ q = r /\ l = k /\ u = t
    /\ \A x \in Servers, q \in Rooms :
         HOLD_BACK_QUEUE_TOTAL[x][q]' = IF x = d /\ q = r
            THEN HOLD_BACK_QUEUE_TOTAL[x][q] \cup {Waiting(k, t)}
            ELSE HOLD_BACK_QUEUE_TOTAL[x][q]
    /\ UNCHANGED <<AGREED, proposals, up, forwarded, posted>>

LEMMA NewSteps ==
    ASSUME Typed, NEW m \in net, m.type = "NEW_MESSAGE", HandleNewMessage(m)
    PROVE  \E s, d \in Servers, r \in Rooms, t \in Texts, p, k \in Nat :
             NewHandled(s, d, r, t, p, k)
<1>1. PICK s, d \in Servers, r \in Rooms, t \in Texts, p \in Nat :
         m = NewTo(s, d, r, t, p) /\ Coming(s, d, r, t, p)
  BY StageTypes
<1>2. /\ m.dst = d /\ m.src = s /\ m.room = r /\ m.text = t
  BY <1>1 DEF NewTo
<1>3. PROPOSED[d][r] \in Nat /\ AGREED[d][r] \in Nat
  BY StageTypes
<1>4. PICK k \in Nat : k = NextProposal(d, r) /\ k > PROPOSED[d][r] /\ k > AGREED[d][r]
  BY <1>3 DEF NextProposal, Larger
<1>5. /\ up[d]
      /\ PROPOSED' = [PROPOSED EXCEPT ![d][r] = k]
      /\ HOLD_BACK_QUEUE_TOTAL' = [HOLD_BACK_QUEUE_TOTAL EXCEPT ![d][r] =
           HOLD_BACK_QUEUE_TOTAL[d][r] \cup {Waiting(k, t)}]
      /\ net' = (net \ {NewTo(s, d, r, t, p)}) \cup {ProposalTo(s, r, t, k, d)}
      /\ UNCHANGED <<AGREED, proposals, up, forwarded, posted>>
  BY <1>1, <1>2, <1>4 DEF HandleNewMessage, Waiting, ProposalTo
<1>6. /\ DOMAIN PROPOSED = Servers /\ \A x \in Servers : DOMAIN PROPOSED[x] = Rooms
      /\ DOMAIN HOLD_BACK_QUEUE_TOTAL = Servers
      /\ \A x \in Servers : DOMAIN HOLD_BACK_QUEUE_TOTAL[x] = Rooms
  BY DEF Typed, TypeUpTo
<1>7. \A x \in Servers, q \in Rooms :
         PROPOSED'[x][q] = IF x = d /\ q = r THEN k ELSE PROPOSED[x][q]
  BY <1>5, <1>6, Update2
<1>8. \A x \in Servers, q \in Rooms :
         HOLD_BACK_QUEUE_TOTAL[x][q]' = IF x = d /\ q = r
            THEN HOLD_BACK_QUEUE_TOTAL[x][q] \cup {Waiting(k, t)}
            ELSE HOLD_BACK_QUEUE_TOTAL[x][q]
  BY <1>5, <1>6, Update2
<1>9. \A a, x \in Servers, q \in Rooms, u \in Texts, o \in Nat :
         Coming(a, x, q, u, o)' <=>
           /\ Coming(a, x, q, u, o)
           /\ ~ (a = s /\ x = d /\ q = r /\ u = t /\ o = p)
  <2> TAKE a, x \in Servers, q \in Rooms, u \in Texts, o \in Nat
  <2>1. NewTo(a, x, q, u, o) = NewTo(s, d, r, t, p) =>
           a = s /\ x = d /\ q = r /\ u = t /\ o = p
    BY Distinct
  <2>2. NewTo(a, x, q, u, o) # ProposalTo(s, r, t, k, d)
    BY DEF NewTo, ProposalTo
  <2> QED
    BY <1>5, <2>1, <2>2 DEF Coming
<1>10. \A a, b \in Servers, q \in Rooms, u \in Texts, l \in Nat :
         /\ InFlight(a, q, u, l, b)' <=>
              \/ InFlight(a, q, u, l, b)
              \/ a = s /\ q = r /\ u = t /\ l = k /\ b = d
         /\ Announced(a, q, u, l, b)' <=> Announced(a, q, u, l, b)
         /\ Holds(a, q, l, b, u)' <=> Holds(a, q, l, b, u)
  <2> TAKE a, b \in Servers, q \in Rooms, u \in Texts, l \in Nat
  <2>1. ProposalTo(a, q, u, l, b) = ProposalTo(s, r, t, k, d) =>
           a = s /\ q = r /\ u = t /\ l = k /\ b = d
    BY Distinct
  <2>2. /\ ProposalTo(a, q, u, l, b) # NewTo(s, d, r, t, p)
        /\ AgreementTo(a, q, u, l, b) # NewTo(s, d, r, t, p)
        /\ AgreementTo(a, q, u, l, b) # ProposalTo(s, r, t, k, d)
    BY DEF NewTo, ProposalTo, AgreementTo
  <2>3. Ordered(l, b, u) # Waiting(k, t)
    BY Distinct
  <2>4. InFlight(a, q, u, l, b)' <=>
              \/ InFlight(a, q, u, l, b)
              \/ a = s /\ q = r /\ u = t /\ l = k /\ b = d
    BY <1>5, <2>1, <2>2 DEF InFlight
  <2>5. Announced(a, q, u, l, b)' <=> Announced(a, q, u, l, b)
    BY <1>5, <2>2 DEF Announced
  <2>6. Holds(a, q, l, b, u)' <=> Holds(a, q, l, b, u)
    BY <1>8, <2>3 DEF Holds
  <2> QED
    BY <2>4, <2>5, <2>6
<1>11. \A x \in Servers, q \in Rooms, u \in Texts, l \in Nat :
         Waits(x, q, l, u)' <=>
           \/ Waits(x, q, l, u)
           \/ x = d /\ q = r /\ l = k /\ u = t
  <2> TAKE x \in Servers, q \in Rooms, u \in Texts, l \in Nat
  <2>1. Waiting(l, u) = Waiting(k, t) <=> l = k /\ u = t
    BY Distinct
  <2> QED
    BY <1>8, <2>1 DEF Waits
<1>12. NewHandled(s, d, r, t, p, k)
  BY <1>1, <1>4, <1>5, <1>7, <1>8, <1>9, <1>10, <1>11 DEF NewHandled
<1> QED
  BY <1>12

LEMMA OrderNew ==
    ASSUME Typed, OrderInv, NEW m \in net, m.type = "NEW_MESSAGE", HandleNewMessage(m)
    PROVE  OrderInv'
<1>1. PICK s, d \in Servers, r \in Rooms, t \in Texts, p, k \in Nat :
             NewHandled(s, d, r, t, p, k)
  BY NewSteps
<1> USE DEF OrderInv
<1>2. Coming(s, d, r, t, p) /\ up[d] /\ k > PROPOSED[d][r] /\ k > AGREED[d][r]
  BY <1>1 DEF NewHandled
<1>3. \A x \in Servers, q \in Rooms :
         PROPOSED'[x][q] = IF x = d /\ q = r THEN k ELSE PROPOSED[x][q]
  BY <1>1 DEF NewHandled
<1>4. \A a, x \in Servers, q \in Rooms, u \in Texts, o \in Nat :
         Coming(a, x, q, u, o)' <=>
           /\ Coming(a, x, q, u, o)
           /\ ~ (a = s /\ x = d /\ q = r /\ u = t /\ o = p)
  BY <1>1 DEF NewHandled
<1>5. \A a, b \in Servers, q \in Rooms, u \in Texts, l \in Nat :
         InFlight(a, q, u, l, b)' <=>
              \/ InFlight(a, q, u, l, b)
              \/ a = s /\ q = r /\ u = t /\ l = k /\ b = d
  BY <1>1 DEF NewHandled
<1>6. \A a, b \in Servers, q \in Rooms, u \in Texts, l \in Nat :
         /\ Announced(a, q, u, l, b)' <=> Announced(a, q, u, l, b)
         /\ Holds(a, q, l, b, u)' <=> Holds(a, q, l, b, u)
  BY <1>1 DEF NewHandled
<1>7. \A x \in Servers, q \in Rooms, u \in Texts, l \in Nat :
         Waits(x, q, l, u)' <=>
           \/ Waits(x, q, l, u)
           \/ x = d /\ q = r /\ l = k /\ u = t
  BY <1>1 DEF NewHandled
<1>8. UNCHANGED <<AGREED, proposals, up, forwarded, posted>>
  BY <1>1 DEF NewHandled
<1>9. /\ \A a, b \in Servers, q \in Rooms, u \in Texts, l \in Nat :
           /\ Got(a, q, u, l, b)' <=> Got(a, q, u, l, b)
           /\ Logged(a, q, l, b, u)' <=> Logged(a, q, l, b, u)
      /\ \A q \in Rooms, u \in Texts : PostedIn(q, u)' <=> PostedIn(q, u)
  BY <1>8 DEF Got, Logged, PostedIn
<1>10. \A b \in Servers, q \in Rooms, u \in Texts, l \in Nat :
         Agreed(q, l, b, u)' <=> Agreed(q, l, b, u)
  BY <1>6, <1>9 DEF Agreed
<1>11. \A b \in Servers, q \in Rooms, u \in Texts, l \in Nat :
         Proposes(b, q, l, u)' <=>
           Proposes(b, q, l, u) \/ (b = d /\ q = r /\ l = k /\ u = t)
  BY <1>5, <1>9 DEF Proposes
<1>12. \A b \in Servers, q \in Rooms, u \in Texts, l \in Nat :
         Numbered(b, q, l, u)' <=>
           Numbered(b, q, l, u) \/ (b = d /\ q = r /\ l = k /\ u = t)
  BY <1>7, <1>10, <1>11 DEF Numbered
<1>13. \A a \in Servers, u \in Texts : Home(a, u)' => Home(a, u)
  <2>1. Home(s, t)
    BY <1>2 DEF Home
  <2> QED
    BY <1>4, <1>5, <1>9, <2>1 DEF Home
<1>14. /\ PostedIn(r, t)
       /\ \A o \in Nat : Coming(s, d, r, t, o) => o = p
       /\ \A l \in Nat : ~ Proposes(d, r, l, t) /\ ~ Waits(d, r, l, t)
       /\ \A l \in Nat, b \in Servers : ~ Agreed(r, l, b, t)
  BY <1>2 DEF OneRoom, NewFirst
<1>15. \A a \in Servers, o \in Nat : ~ Coming(a, d, r, t, o)'
  <2> SUFFICES ASSUME NEW a \in Servers, NEW o \in Nat, Coming(a, d, r, t, o)' PROVE FALSE
    OBVIOUS
  <2>1. Coming(a, d, r, t, o)
    BY <1>4
  <2>2. Home(a, t) /\ Home(s, t)
    BY <1>2, <2>1 DEF Home
  <2>3. a = s
    BY <2>2 DEF OneHome
  <2>4. o = p
    BY <1>14, <2>1, <2>3
  <2> QED
    BY <1>4, <2>3, <2>4
<1>16. OneRoom'
  BY <1>4, <1>9, <1>12, <1>14 DEF OneRoom
<1>17. OneEntry'
  <2>1. \A l \in Nat, b \in Servers : ~ Holds(d, r, l, b, t)
    BY <1>14 DEF Agreed
  <2> QED
    BY <1>6, <1>7, <1>14, <2>1 DEF OneEntry
<1>18. OneText'
  <2>1. \A x \in Servers, q \in Rooms :
           PROPOSED[x][q] \in Nat /\ PROPOSED'[x][q] \in Nat /\ PROPOSED[x][q] <= PROPOSED'[x][q]
    BY <1>2, <1>3, StageTypes
  <2>2. \A b \in Servers, q \in Rooms, l \in Nat, u \in Texts :
           Numbered(b, q, l, u)' => l <= PROPOSED'[b][q]
    BY <1>2, <1>3, <1>12, <2>1 DEF OneText
  <2>3. \A u \in Texts : ~ Numbered(d, r, k, u)
    BY <1>2, <2>1 DEF OneText
  <2>4. \A b \in Servers, q \in Rooms, l \in Nat, u, v \in Texts :
           Numbered(b, q, l, u)' /\ Numbered(b, q, l, v)' => u = v
    BY <1>12, <2>3 DEF OneText
  <2> QED
    BY <2>2, <2>4 DEF OneText
<1>19. OneKey'
  BY <1>10 DEF OneKey
<1>20. OneHome'
  BY <1>13 DEF OneHome
<1>21. NewFirst'
  BY <1>4, <1>7, <1>10, <1>11, <1>15 DEF NewFirst
<1>22. OneOffer'
  <2> SUFFICES ASSUME NEW x \in Servers, NEW q \in Rooms, NEW u \in Texts, NEW l \in Nat,
                      Proposes(x, q, l, u)'
               PROVE  /\ \A j \in Nat : Proposes(x, q, j, u)' => l = j
                      /\ \A a, e \in Servers : ~ (InFlight(a, q, u, l, x)' /\ Got(e, q, u, l, x)')
                      /\ \A j \in Nat, b \in Servers : ~ Agreed(q, j, b, u)'
                      /\ up'[x] => Waits(x, q, l, u)'
                      /\ \A j \in Nat, b \in Servers, v \in Texts : Logged(x, q, j, b, v)' => j < l
    BY DEF OneOffer
  <2>1. CASE x = d /\ q = r /\ u = t
    <3>1. l = k /\ \A j \in Nat : Proposes(x, q, j, u)' => l = j
      BY <1>11, <1>14, <2>1
    <3>2. \A e \in Servers : ~ Got(e, q, u, l, x)'
      BY <1>9, <1>14, <2>1 DEF Proposes
    <3>3. \A j \in Nat, b \in Servers, v \in Texts : Logged(x, q, j, b, v)' => j < l
      <4> SUFFICES ASSUME NEW j \in Nat, NEW b \in Servers, NEW v \in Texts, Logged(d, r, j, b, v)
                   PROVE  j < k
        BY <1>9, <2>1, <3>1
      <4>1. j <= AGREED[d][r]
        BY DEF LogFirst
      <4> QED
        BY <1>2, <4>1, StageTypes
    <3> QED
      BY <1>7, <1>10, <1>14, <2>1, <3>1, <3>2, <3>3
  <2>2. CASE ~ (x = d /\ q = r /\ u = t)
    <3>1. Proposes(x, q, l, u)
      BY <1>11, <2>2
    <3>2. \A j \in Nat : Proposes(x, q, j, u)' => l = j
      BY <1>11, <2>2, <3>1 DEF OneOffer
    <3>3. \A a, e \in Servers : ~ (InFlight(a, q, u, l, x)' /\ Got(e, q, u, l, x)')
      BY <1>5, <1>9, <2>2, <3>1 DEF OneOffer
    <3>4. \A j \in Nat, b \in Servers : ~ Agreed(q, j, b, u)'
      BY <1>10, <3>1 DEF OneOffer
    <3>5. up'[x] => Waits(x, q, l, u)'
      BY <1>7, <1>8, <3>1 DEF OneOffer
    <3>6. \A j \in Nat, b \in Servers, v \in Texts : Logged(x, q, j, b, v)' => j < l
      BY <1>9, <3>1 DEF OneOffer
    <3> QED
      BY <3>2, <3>3, <3>4, <3>5, <3>6
  <2> QED
    BY <2>1, <2>2
<1>23. Expected'
  BY <1>6, <1>7, <1>8, <1>10, <1>14 DEF Expected
<1>24. Everywhere'
  BY <1>6, <1>8, <1>9, <1>10 DEF Everywhere, Earlier
<1>25. LogFirst'
  <2>1. \A l \in Nat, b \in Servers, u \in Texts : Logged(d, r, l, b, u) => l < k
    <3> SUFFICES ASSUME NEW l \in Nat, NEW b \in Servers, NEW u \in Texts, Logged(d, r, l, b, u)
                 PROVE  l < k
      OBVIOUS
    <3>1. l <= AGREED[d][r]
      BY DEF LogFirst
    <3> QED
      BY <1>2, <3>1, StageTypes
  <2> SUFFICES ASSUME NEW x \in Servers, NEW q \in Rooms, NEW u \in Texts, NEW v \in Texts,
                      NEW i \in Nat, NEW l \in Nat, NEW b \in Servers, NEW c \in Servers
               PROVE  /\ Logged(x, q, i, b, u)' \/ Holds(x, q, i, b, u)' => i <= AGREED'[x][q]
                      /\ up'[x] /\ Logged(x, q, i, b, u)' =>
                           /\ Waits(x, q, l, v)' => i < l
                           /\ Holds(x, q, l, c, v)' => Earlier(i, b, l, c)
    BY DEF LogFirst, Earlier
  <2>2. /\ Logged(x, q, i, b, u)' <=> Logged(x, q, i, b, u)
        /\ Holds(x, q, i, b, u)' <=> Holds(x, q, i, b, u)
        /\ Holds(x, q, l, c, v)' <=> Holds(x, q, l, c, v)
        /\ AGREED' = AGREED /\ up' = up
    BY <1>6, <1>8, <1>9
  <2>3. Waits(x, q, l, v)' => Waits(x, q, l, v) \/ (x = d /\ q = r /\ l = k)
    BY <1>7
  <2> QED
    BY <2>1, <2>2, <2>3 DEF LogFirst
<1>26. LogOrdered'
  BY <1>8 DEF LogOrdered
<1>27. Forms'
  <2>1. \A x \in Servers, q \in Rooms :
          HOLD_BACK_QUEUE_TOTAL[x][q]' = IF x = d /\ q = r
             THEN HOLD_BACK_QUEUE_TOTAL[x][q] \cup {Waiting(k, t)}
             ELSE HOLD_BACK_QUEUE_TOTAL[x][q]
    BY <1>1 DEF NewHandled
  <2>2. ASSUME NEW x \in Servers, NEW q \in Rooms, NEW e \in HOLD_BACK_QUEUE_TOTAL[x][q]'
        PROVE  \/ \E l \in Nat, u \in Texts : e = Waiting(l, u)
               \/ \E l \in Nat, b \in Servers, u \in Texts : e = Ordered(l, b, u)
    <3>1. e \in HOLD_BACK_QUEUE_TOTAL[x][q] \/ e = Waiting(k, t)
      BY <2>1, <2>2
    <3> QED
      BY <3>1 DEF Forms
  <2>3. \A x \in Servers, q \in Rooms : \A i \in 1..Len(forwarded'[x][q]) :
           \E l \in Nat, b \in Servers, u \in Texts : forwarded'[x][q][i] = Ordered(l, b, u)
    BY <1>8 DEF Forms
  <2> QED
    BY <2>2, <2>3 DEF Forms
<1> QED
  BY <1>16, <1>17, <1>18, <1>19, <1>20, <1>21, <1>22, <1>23, <1>24, <1>25, <1>26, <1>27

-----------------------------------------------------------------------------
(* The PROPOSAL k of server b for t has come to s, and that of some other  *)
(* server has not: it is kept.                                             *)
OfferKept(s, r, t, k, b) ==
    /\ InFlight(s, r, t, k, b)
    /\ \E e \in Servers : \A q \in Rooms, l \in Nat :
         ~ Got(s, q, t, l, e) /\ ~ (q = r /\ l = k /\ e = b)
    /\ \A a, c \in Servers, q \in Rooms, u \in Texts, l \in Nat :
         /\ InFlight(a, q, u, l, c)' <=>
              InFlight(a, q, u, l, c) /\ ~ (a = s /\ q = r /\ u = t /\ l = k /\ c = b)
         /\ Got(a, q, u, l, c)' <=>
              Got(a, q, u, l, c) \/ (a = s /\ q = r /\ u = t /\ l = k /\ c = b)
         /\ Announced(a, q, u, l, c)' <=> Announced(a, q, u, l, c)
    /\ \A a, d \in Servers, q \in Rooms, u \in Texts, p \in Nat :
         Coming(a, d, q, u, p)' <=> Coming(a, d, q, u, p)
    /\ UNCHANGED <<PROPOSED, AGREED, HOLD_BACK_QUEUE_TOTAL, up, forwarded, posted>>

(* It is the last one: of one offer of every server the largest, j of c,   *)
(* is announced to all.                                                    *)
OfferLast(s, r, t, k, b, j, c) ==
    /\ InFlight(s, r, t, k, b)
    /\ (j = k /\ c = b) \/ \E q \in Rooms : Got(s, q, t, j, c)
    /\ \A q \in Rooms, l \in Nat, e \in Servers :
         Got(s, q, t, l, e) \/ (q = r /\ l = k /\ e = b) => l <= j
    /\ \A e \in Servers : \E q \in Rooms, l \in Nat :
         Got(s, q, t, l, e) \/ (q = r /\ l = k /\ e = b)
    /\ \A a, e \in Servers, q \in Rooms, u \in Texts, l \in Nat :
         /\ InFlight(a, q, u, l, e)' <=>
              InFlight(a, q, u, l, e) /\ ~ (a = s /\ q = r /\ u = t /\ l = k /\ e = b)
         /\ Got(a, q, u, l, e)' <=> Got(a, q, u, l, e) /\ ~ (a = s /\ u = t)
         /\ Announced(a, q, u, l, e)' <=>
              Announced(a, q, u, l, e) \/ (q = r /\ u = t /\ l = j /\ e = c)
    /\ \A a, d \in Servers, q \in Rooms, u \in Texts, p \in Nat :
         Coming(a, d, q, u, p)' <=> Coming(a, d, q, u, p)
    /\ UNCHANGED <<PROPOSED, AGREED, HOLD_BACK_QUEUE_TOTAL, up, forwarded, posted>>

(* The proposals a server has for a text are offers, of different servers. *)
OffersOf(P, s, r, t, k, b) ==
    /\ IsFiniteSet(P)
    /\ \E n \in Nat : \A p \in P : p.id \in 1..n \cup {k}
    /\ \A p \in P : /\ p.by \in Servers
                    /\ \E q \in Rooms, l \in Nat, e \in Servers :
                         /\ p = Offer(l, e, q)
                         /\ Got(s, q, t, l, e) \/ (q = r /\ l = k /\ e = b)
    /\ \A p, o \in P : p.by = o.by => p = o

LEMMA OffersOfAll ==
    ASSUME Typed, OrderInv,
           NEW s \in Servers, NEW r \in Rooms, NEW t \in Texts, NEW k \in Nat,
           NEW b \in Servers, InFlight(s, r, t, k, b),
           NEW P, P = proposals[s][t] \cup {Offer(k, b, r)}
    PROVE  OffersOf(P, s, r, t, k, b)
<1>1. PICK n \in Nat : n = Handled /\ TypeUpTo(n)
  BY DEF Typed, Counted
<1>2. IsFiniteSet(P)
  BY FS_AddElement DEF Typed, Shape
<1>3. proposals[s][t] \subseteq ProposedUpTo(n)
  BY <1>1 DEF TypeUpTo
<1>4. \A p \in P : p.id \in 1..n \cup {k}
  BY <1>3 DEF ProposedUpTo, Offer
<1>5. \A p \in P : /\ p.by \in Servers
                   /\ \E q \in Rooms, l \in Nat, e \in Servers :
                        /\ p = Offer(l, e, q)
                        /\ Got(s, q, t, l, e) \/ (q = r /\ l = k /\ e = b)
  <2> SUFFICES ASSUME NEW p \in P
               PROVE  /\ p.by \in Servers
                      /\ \E q \in Rooms, l \in Nat, e \in Servers :
                           /\ p = Offer(l, e, q)
                           /\ Got(s, q, t, l, e) \/ (q = r /\ l = k /\ e = b)
    OBVIOUS
  <2>1. CASE p = Offer(k, b, r)
    BY <2>1 DEF Offer
  <2>2. CASE p \in proposals[s][t]
    <3>1. /\ p.id \in Nat /\ p.by \in Servers /\ p.room \in Rooms
          /\ p = Offer(p.id, p.by, p.room)
      BY <1>3, <2>2 DEF ProposedUpTo, Offer
    <3>2. Got(s, p.room, t, p.id, p.by)
      BY <2>2, <3>1 DEF Got
    <3> QED
      BY <3>1, <3>2
  <2> QED
    BY <2>1, <2>2
<1>6. \A p, o \in P : p.by = o.by => p = o
  <2> SUFFICES ASSUME NEW p \in P, NEW o \in P, p.by = o.by PROVE p = o
    OBVIOUS
  <2>1. PICK q \in Rooms, l \in Nat, e \in Servers :
           p = Offer(l, e, q) /\ (Got(s, q, t, l, e) \/ (q = r /\ l = k /\ e = b))
    BY <1>5
  <2>2. PICK y \in Rooms, j \in Nat, f \in Servers :
           o = Offer(j, f, y) /\ (Got(s, y, t, j, f) \/ (y = r /\ j = k /\ f = b))
    BY <1>5
  <2>3. e = f
    <3>1. p.by = e /\ o.by = f
      BY <2>1, <2>2 DEF Offer
    <3> QED
      BY <3>1
  <2>4. Proposes(e, q, l, t) /\ Proposes(e, y, j, t)
    BY <2>1, <2>2, <2>3 DEF Proposes
  <2>5. q = y
    BY <2>4 DEF OrderInv, OneRoom, Numbered
  <2>6. l = j
    BY <2>4, <2>5 DEF OrderInv, OneOffer
  <2> QED
    BY <2>1, <2>2, <2>3, <2>5, <2>6
<1> QED
  BY <1>2, <1>4, <1>5, <1>6 DEF OffersOf

LEMMA ProposalSteps ==
    ASSUME Typed, OrderInv, NEW m \in net, m.type = "PROPOSAL", HandleProposal(m)
    PROVE  \E s, b \in Servers, r \in Rooms, t \in Texts, k \in Nat :
             \/ OfferKept(s, r, t, k, b)
             \/ \E j \in Nat, c \in Servers : OfferLast(s, r, t, k, b, j, c)
<1>1. PICK s, b \in Servers, r \in Rooms, t \in Texts, k \in Nat :
         m = ProposalTo(s, r, t, k, b) /\ InFlight(s, r, t, k, b)
  BY StageTypes
<1>2. m.dst = s /\ m.by = b /\ m.room = r /\ m.text = t /\ m.id = k
  BY <1>1 DEF ProposalTo
<1>3. PICK P : P = proposals[s][t] \cup {Offer(k, b, r)}
  OBVIOUS
<1>4. /\ UNCHANGED <<PROPOSED, AGREED, HOLD_BACK_QUEUE_TOTAL, up, forwarded, posted>>
      /\ IF Cardinality(P) = NumServers
         THEN /\ proposals' = [proposals EXCEPT ![s][t] = {}]
              /\ net' = (net \ {ProposalTo(s, r, t, k, b)}) \cup
                          {AgreementTo(d, r, t, Largest(P).id, Largest(P).by) : d \in Servers}
         ELSE /\ proposals' = [proposals EXCEPT ![s][t] = P]
              /\ net' = net \ {ProposalTo(s, r, t, k, b)}
  <2>1. P = proposals[m.dst][m.text] \cup {[id |-> m.id, by |-> m.by, room |-> m.room]}
    BY <1>2, <1>3 DEF Offer
  <2>2. {[type |-> "AGREEMENT", dst |-> d, room |-> m.room, text |-> m.text,
          id |-> Largest(P).id, by |-> Largest(P).by] : d \in Servers}
          = {AgreementTo(d, r, t, Largest(P).id, Largest(P).by) : d \in Servers}
    BY <1>2 DEF AgreementTo
  <2>3. /\ UNCHANGED <<PROPOSED, AGREED, HOLD_BACK_QUEUE_TOTAL, up, forwarded, posted>>
        /\ IF Cardinality(P) = NumServers
           THEN /\ proposals' = [proposals EXCEPT ![m.dst][m.text] = {}]
                /\ net' = (net \ {m}) \cup
                     {[type |-> "AGREEMENT", dst |-> d, room |-> m.room, text |-> m.text,
                       id |-> Largest(P).id, by |-> Largest(P).by] : d \in Servers}
           ELSE /\ proposals' = [proposals EXCEPT ![m.dst][m.text] = P]
                /\ net' = net \ {m}
    BY <2>1, Zenon DEF HandleProposal, forward_to_servers
  <2> QED
    BY <1>1, <1>2, <2>2, <2>3
<1>5. DOMAIN proposals = Servers /\ \A a \in Servers : DOMAIN proposals[a] = Texts
  BY DEF Typed, TypeUpTo
<1>6. /\ IsFiniteSet(P)
      /\ \E n \in Nat : \A p \in P : p.id \in 1..n \cup {k}
      /\ \A p \in P : /\ p.by \in Servers
                      /\ \E q \in Rooms, l \in Nat, e \in Servers :
                           /\ p = Offer(l, e, q)
                           /\ Got(s, q, t, l, e) \/ (q = r /\ l = k /\ e = b)
      /\ \A p, o \in P : p.by = o.by => p = o
  <2>1. OffersOf(P, s, r, t, k, b)
    BY <1>1, <1>3, OffersOfAll
  <2> QED
    BY <2>1 DEF OffersOf
<1>7. \A a, q, u, l, e : /\ NewTo(a, e, q, u, l) # ProposalTo(s, r, t, k, b)
                         /\ AgreementTo(a, q, u, l, e) # ProposalTo(s, r, t, k, b)
  BY DEF NewTo, ProposalTo, AgreementTo
<1>8. \A a, e \in Servers, q \in Rooms, u \in Texts, l \in Nat :
         ProposalTo(a, q, u, l, e) = ProposalTo(s, r, t, k, b) <=>
            a = s /\ q = r /\ u = t /\ l = k /\ e = b
  <2> TAKE a, e \in Servers, q \in Rooms, u \in Texts, l \in Nat
  <2> QED
    BY Distinct
<1>9. \A q \in Rooms, l \in Nat, e \in Servers :
         Offer(l, e, q) \in P <=> Got(s, q, t, l, e) \/ (q = r /\ l = k /\ e = b)
  BY <1>3, Distinct DEF Got
<1>10. CASE Cardinality(P) # NumServers
  <2>1. /\ proposals' = [proposals EXCEPT ![s][t] = P]
        /\ net' = net \ {ProposalTo(s, r, t, k, b)}
    BY <1>4, <1>10
  <2>2. \A a \in Servers, u \in Texts :
          proposals'[a][u] = IF a = s /\ u = t THEN P ELSE proposals[a][u]
    BY <1>5, <2>1, Update2
  <2>3. \A a, c \in Servers, q \in Rooms, u \in Texts, l \in Nat :
         /\ InFlight(a, q, u, l, c)' <=>
              InFlight(a, q, u, l, c) /\ ~ (a = s /\ q = r /\ u = t /\ l = k /\ c = b)
         /\ Announced(a, q, u, l, c)' <=> Announced(a, q, u, l, c)
    BY <1>7, <1>8, <2>1 DEF InFlight, Announced
  <2>4. \A a, c \in Servers, q \in Rooms, u \in Texts, l \in Nat :
         Got(a, q, u, l, c)' <=>
              Got(a, q, u, l, c) \/ (a = s /\ q = r /\ u = t /\ l = k /\ c = b)
    BY <1>9, <2>2 DEF Got
  <2>5. \A a, d \in Servers, q \in Rooms, u \in Texts, p \in Nat :
         Coming(a, d, q, u, p)' <=> Coming(a, d, q, u, p)
    BY <1>7, <2>1 DEF Coming
  <2>6. \E e \in Servers : \A q \in Rooms, l \in Nat :
           ~ Got(s, q, t, l, e) /\ ~ (q = r /\ l = k /\ e = b)
    <3>1. PICK e \in Servers : \A p \in P : p.by # e
      BY <1>6, <1>10, EachMakesAll
    <3>2. \A q \in Rooms, l \in Nat : Offer(l, e, q) \notin P
      BY <3>1 DEF Offer
    <3> QED
      BY <1>9, <3>2
  <2>7. OfferKept(s, r, t, k, b)
    BY <1>1, <1>4, <2>3, <2>4, <2>5, <2>6 DEF OfferKept
  <2> QED
    BY <2>7
<1>11. CASE Cardinality(P) = NumServers
  <2>1. P # {} /\ \A p \in P : p.by \in Nat
    BY <1>3, <1>6 DEF Servers
  <2>2. \E n \in Nat : \A p \in P : p.id \in 1..n
    <3>1. PICK n \in Nat : \A p \in P : p.id \in 1..n \cup {k}
      BY <1>6
    <3>2. k > 0
      BY <1>1, <1>2, MessageKinds DEF Typed, Counted
    <3>3. n + k \in Nat /\ 1..n \cup {k} \subseteq 1..(n + k)
      BY <3>2
    <3> QED
      BY <3>1, <3>3
  <2>3. /\ Largest(P) \in P
        /\ \A o \in P : \/ o.id < Largest(P).id
                        \/ o.id = Largest(P).id /\ Largest(P).by <= o.by
    BY <2>1, <2>2, LargestChosen
  <2>4. PICK x \in Rooms, j \in Nat, c \in Servers :
           /\ Largest(P) = Offer(j, c, x)
           /\ Got(s, x, t, j, c) \/ (x = r /\ j = k /\ c = b)
    BY <1>6, <2>3
  <2>5. Largest(P).id = j /\ Largest(P).by = c
    BY <2>4 DEF Offer
  <2>6. \A q \in Rooms, l \in Nat, e \in Servers :
          Got(s, q, t, l, e) \/ (q = r /\ l = k /\ e = b) => l <= j
    <3> TAKE q \in Rooms, l \in Nat, e \in Servers
    <3>1. Offer(l, e, q).id = l
      BY DEF Offer
    <3> QED
      BY <1>9, <2>3, <2>5, <3>1
  <2>7. \A e \in Servers : \E p \in P : p.by = e
    BY <1>6, <1>11, OneOfEach
  <2>8. \A e \in Servers : \E q \in Rooms, l \in Nat :
          Got(s, q, t, l, e) \/ (q = r /\ l = k /\ e = b)
    <3> TAKE e \in Servers
    <3>1. PICK p \in P : p.by = e
      BY <2>7
    <3>2. PICK q \in Rooms, l \in Nat, f \in Servers :
             p = Offer(l, f, q) /\ (Got(s, q, t, l, f) \/ (q = r /\ l = k /\ f = b))
      BY <1>6
    <3>3. f = e
      BY <3>1, <3>2 DEF Offer
    <3> QED
      BY <3>2, <3>3
  <2> DEFINE new == {AgreementTo(d, r, t, j, c) : d \in Servers}
  <2>9. /\ proposals' = [proposals EXCEPT ![s][t] = {}]
        /\ net' = (net \ {ProposalTo(s, r, t, k, b)}) \cup new
    BY <1>4, <1>11, <2>5
  <2>10. \A a, e \in Servers, q \in Rooms, u \in Texts, l \in Nat :
           AgreementTo(a, q, u, l, e) \in new <=> q = r /\ u = t /\ l = j /\ e = c
    <3> TAKE a, e \in Servers, q \in Rooms, u \in Texts, l \in Nat
    <3>1. \A d \in Servers : AgreementTo(a, q, u, l, e) = AgreementTo(d, r, t, j, c) =>
             a = d /\ q = r /\ u = t /\ l = j /\ e = c
      BY Distinct
    <3> QED
      BY <3>1
  <2>11. \A a, e, q, u, l : /\ NewTo(a, e, q, u, l) \notin new
                            /\ ProposalTo(a, q, u, l, e) \notin new
    BY DEF NewTo, ProposalTo, AgreementTo
  <2> HIDE DEF new
  <2>12. \A a \in Servers, u \in Texts :
          proposals'[a][u] = IF a = s /\ u = t THEN {} ELSE proposals[a][u]
    BY <1>5, <2>9, Update2
  <2>13. \A a, e \in Servers, q \in Rooms, u \in Texts, l \in Nat :
         /\ InFlight(a, q, u, l, e)' <=>
              InFlight(a, q, u, l, e) /\ ~ (a = s /\ q = r /\ u = t /\ l = k /\ e = b)
         /\ Announced(a, q, u, l, e)' <=>
              Announced(a, q, u, l, e) \/ (q = r /\ u = t /\ l = j /\ e = c)
    BY <1>7, <1>8, <2>9, <2>10, <2>11 DEF InFlight, Announced
  <2>14. \A a, e \in Servers, q \in Rooms, u \in Texts, l \in Nat :
         Got(a, q, u, l, e)' <=> Got(a, q, u, l, e) /\ ~ (a = s /\ u = t)
    BY <2>12 DEF Got
  <2>15. \A a, d \in Servers, q \in Rooms, u \in Texts, p \in Nat :
         Coming(a, d, q, u, p)' <=> Coming(a, d, q, u, p)
    BY <1>7, <2>9, <2>11 DEF Coming
  <2>16. OfferLast(s, r, t, k, b, j, c)
    BY <1>1, <1>4, <2>4, <2>6, <2>8, <2>13, <2>14, <2>15 DEF OfferLast
  <2> QED
    BY <2>16
<1> QED
  BY <1>10, <1>11

LEMMA OrderKept ==
    ASSUME OrderInv, NEW s \in Servers, NEW b \in Servers, NEW r \in Rooms, NEW t \in Texts,
           NEW k \in Nat, OfferKept(s, r, t, k, b)
    PROVE  OrderInv'
<1> USE DEF OrderInv
<1>1. InFlight(s, r, t, k, b)
  BY DEF OfferKept
<1>2. \A a, c \in Servers, q \in Rooms, u \in Texts, l \in Nat :
         /\ InFlight(a, q, u, l, c)' <=>
              InFlight(a, q, u, l, c) /\ ~ (a = s /\ q = r /\ u = t /\ l = k /\ c = b)
         /\ Got(a, q, u, l, c)' <=>
              Got(a, q, u, l, c) \/ (a = s /\ q = r /\ u = t /\ l = k /\ c = b)
  BY DEF OfferKept
<1>3. \A a, c \in Servers, q \in Rooms, u \in Texts, l \in Nat :
         Announced(a, q, u, l, c)' <=> Announced(a, q, u, l, c)
  BY DEF OfferKept
<1>4. \A a, d \in Servers, q \in Rooms, u \in Texts, p \in Nat :
         Coming(a, d, q, u, p)' <=> Coming(a, d, q, u, p)
  BY DEF OfferKept
<1>5. UNCHANGED <<PROPOSED, AGREED, HOLD_BACK_QUEUE_TOTAL, up, forwarded, posted>>
  BY DEF OfferKept
<1>6. /\ \A d \in Servers, q \in Rooms, u \in Texts, l \in Nat :
           /\ Waits(d, q, l, u)' <=> Waits(d, q, l, u)
           /\ \A c \in Servers : /\ Holds(d, q, l, c, u)' <=> Holds(d, q, l, c, u)
                                 /\ Logged(d, q, l, c, u)' <=> Logged(d, q, l, c, u)
      /\ \A q \in Rooms, u \in Texts : PostedIn(q, u)' <=> PostedIn(q, u)
  BY <1>5 DEF Waits, Holds, Logged, PostedIn
<1>7. \A c \in Servers, q \in Rooms, u \in Texts, l \in Nat :
         Agreed(q, l, c, u)' <=> Agreed(q, l, c, u)
  BY <1>3, <1>6 DEF Agreed
<1>8. \A c \in Servers, q \in Rooms, u \in Texts, l \in Nat :
         Proposes(c, q, l, u)' <=> Proposes(c, q, l, u)
  BY <1>1, <1>2 DEF Proposes
<1>9. \A c \in Servers, q \in Rooms, u \in Texts, l \in Nat :
         Numbered(c, q, l, u)' <=> Numbered(c, q, l, u)
  BY <1>6, <1>7, <1>8 DEF Numbered
<1>10. \A a \in Servers, u \in Texts : Home(a, u)' <=> Home(a, u)
  BY <1>1, <1>2, <1>4 DEF Home
<1>11. OneRoom'
  BY <1>4, <1>6, <1>9 DEF OneRoom
<1>12. OneEntry'
  BY <1>6 DEF OneEntry
<1>13. OneText'
  BY <1>5, <1>9 DEF OneText
<1>14. OneKey' /\ OneHome'
  BY <1>7, <1>10 DEF OneKey, OneHome
<1>15. NewFirst'
  BY <1>4, <1>6, <1>7, <1>8 DEF NewFirst
<1>16. OneOffer'
  <2>1. \A a, e, c \in Servers, q \in Rooms, u \in Texts, l \in Nat :
          Proposes(c, q, l, u) => ~ (InFlight(a, q, u, l, c)' /\ Got(e, q, u, l, c)')
    <3> SUFFICES ASSUME NEW a \in Servers, NEW e \in Servers, NEW c \in Servers,
                        NEW q \in Rooms, NEW u \in Texts, NEW l \in Nat, Proposes(c, q, l, u),
                        InFlight(a, q, u, l, c)', Got(e, q, u, l, c)'
                 PROVE  FALSE
      OBVIOUS
    <3>1. InFlight(a, q, u, l, c) /\ ~ (a = s /\ q = r /\ u = t /\ l = k /\ c = b)
      BY <1>2
    <3>2. ~ Got(e, q, u, l, c)
      BY <3>1 DEF OneOffer
    <3>3. q = r /\ u = t /\ l = k /\ c = b
      BY <1>2, <3>2
    <3>4. Home(a, t) /\ Home(s, t)
      BY <1>1, <3>1, <3>3 DEF Home
    <3> QED
      BY <3>1, <3>3, <3>4 DEF OneHome
  <2> QED
    BY <1>5, <1>6, <1>7, <1>8, <2>1 DEF OneOffer
<1>17. Expected'
  BY <1>3, <1>5, <1>6, <1>7 DEF Expected
<1>18. Everywhere'
  BY <1>3, <1>5, <1>6, <1>7 DEF Everywhere, Earlier
<1>19. LogFirst' /\ LogOrdered' /\ Forms'
  BY <1>5, LogFrame
<1> QED
  BY <1>11, <1>12, <1>13, <1>14, <1>15, <1>16, <1>17, <1>18, <1>19

(* When the last proposal has come, every server has proposed a number, no *)
(* larger than the one announced, and no other datagram is about the text. *)
LEMMA LastOffer ==
    ASSUME OrderInv, NEW s \in Servers, NEW b \in Servers, NEW r \in Rooms, NEW t \in Texts,
           NEW k \in Nat, NEW j \in Nat, NEW c \in Servers, OfferLast(s, r, t, k, b, j, c)
    PROVE  /\ PostedIn(r, t)
           /\ Proposes(c, r, j, t)
           /\ \A e \in Servers : \E l \in Nat : Proposes(e, r, l, t) /\ l <= j
           /\ \A l \in Nat, e \in Servers : ~ Agreed(r, l, e, t)
           /\ \A a, e \in Servers, q \in Rooms, p \in Nat : ~ Coming(a, e, q, t, p)
           /\ \A e \in Servers, q \in Rooms, l \in Nat : ~ Proposes(e, q, l, t)'
<1> USE DEF OrderInv
<1>1. /\ InFlight(s, r, t, k, b)
      /\ (j = k /\ c = b) \/ \E q \in Rooms : Got(s, q, t, j, c)
      /\ \A q \in Rooms, l \in Nat, e \in Servers :
           Got(s, q, t, l, e) \/ (q = r /\ l = k /\ e = b) => l <= j
      /\ \A e \in Servers : \E q \in Rooms, l \in Nat :
           Got(s, q, t, l, e) \/ (q = r /\ l = k /\ e = b)
  BY DEF OfferLast
<1>2. \A a, e \in Servers, q \in Rooms, l \in Nat :
         /\ InFlight(a, q, t, l, e)' <=>
              InFlight(a, q, t, l, e) /\ ~ (a = s /\ q = r /\ l = k /\ e = b)
         /\ Got(a, q, t, l, e)' <=> Got(a, q, t, l, e) /\ a # s
  BY DEF OfferLast
<1>3. Proposes(b, r, k, t) /\ PostedIn(r, t)
  <2>1. Proposes(b, r, k, t)
    BY <1>1 DEF Proposes
  <2> QED
    BY <2>1 DEF OneRoom, Numbered
<1>4. \A q \in Rooms, l \in Nat, e \in Servers :
         Got(s, q, t, l, e) => q = r /\ Proposes(e, q, l, t)
  <2> SUFFICES ASSUME NEW q \in Rooms, NEW l \in Nat, NEW e \in Servers, Got(s, q, t, l, e)
               PROVE  q = r /\ Proposes(e, q, l, t)
    OBVIOUS
  <2>1. Proposes(e, q, l, t)
    BY DEF Proposes
  <2>2. PostedIn(q, t)
    BY <2>1 DEF OneRoom, Numbered
  <2> QED
    BY <1>3, <2>1, <2>2 DEF OneRoom
<1>5. Proposes(c, r, j, t)
  BY <1>1, <1>3, <1>4
<1>6. \A e \in Servers : \E l \in Nat :
         /\ Proposes(e, r, l, t) /\ l <= j
         /\ Got(s, r, t, l, e) \/ (l = k /\ e = b)
  <2> TAKE e \in Servers
  <2>1. PICK q \in Rooms, l \in Nat : Got(s, q, t, l, e) \/ (q = r /\ l = k /\ e = b)
    BY <1>1
  <2>2. q = r /\ Proposes(e, r, l, t)
    BY <1>3, <1>4, <2>1
  <2>3. l <= j
    BY <1>1, <2>1
  <2> QED
    BY <2>1, <2>2, <2>3
<1>7. \A l \in Nat, e \in Servers : ~ Agreed(r, l, e, t)
  BY <1>3 DEF OneOffer
<1>8. \A a, e \in Servers, q \in Rooms, p \in Nat : ~ Coming(a, e, q, t, p)
  <2> SUFFICES ASSUME NEW a \in Servers, NEW e \in Servers, NEW q \in Rooms, NEW p \in Nat,
                      Coming(a, e, q, t, p)
               PROVE  FALSE
    OBVIOUS
  <2>1. q = r
    BY <1>3 DEF OneRoom
  <2>2. PICK l \in Nat : Proposes(e, r, l, t)
    BY <1>6
  <2> QED
    BY <2>1, <2>2 DEF NewFirst
<1>9. \A e \in Servers, q \in Rooms, l \in Nat : ~ Proposes(e, q, l, t)'
  <2> SUFFICES ASSUME NEW a \in Servers, NEW e \in Servers, NEW q \in Rooms, NEW l \in Nat,
                      InFlight(a, q, t, l, e)' \/ Got(a, q, t, l, e)'
               PROVE  FALSE
    BY DEF Proposes
  <2>1. InFlight(a, q, t, l, e) \/ Got(a, q, t, l, e)
    BY <1>2
  <2>2. a = s
    <3>1. Home(a, t) /\ Home(s, t)
      BY <1>1, <2>1 DEF Home
    <3> QED
      BY <3>1 DEF OneHome
  <2>3. InFlight(s, q, t, l, e) /\ ~ (q = r /\ l = k /\ e = b)
    BY <1>2, <2>2
  <2>4. Proposes(e, q, l, t)
    BY <2>3 DEF Proposes
  <2>5. q = r
    BY <1>3, <2>4 DEF OneRoom, Numbered
  <2>6. PICK i \in Nat : Proposes(e, r, i, t) /\ (Got(s, r, t, i, e) \/ (i = k /\ e = b))
    BY <1>6
  <2>7. i = l
    BY <2>4, <2>5, <2>6 DEF OneOffer
  <2>8. Got(s, r, t, l, e)
    BY <2>3, <2>5, <2>6, <2>7
  <2> QED
    BY <2>3, <2>4, <2>5, <2>8 DEF OneOffer
<1> QED
  BY <1>3, <1>5, <1>6, <1>7, <1>8, <1>9

LEMMA OrderLast ==
    ASSUME OrderInv, NEW s \in Servers, NEW b \in Servers, NEW r \in Rooms, NEW t \in Texts,
           NEW k \in Nat, NEW j \in Nat, NEW c \in Servers, OfferLast(s, r, t, k, b, j, c)
    PROVE  OrderInv'
<1> USE DEF OrderInv
<1>1. /\ PostedIn(r, t)
      /\ Proposes(c, r, j, t)
      /\ \A e \in Servers : \E l \in Nat : Proposes(e, r, l, t) /\ l <= j
      /\ \A l \in Nat, e \in Servers : ~ Agreed(r, l, e, t)
      /\ \A a, e \in Servers, q \in Rooms, p \in Nat : ~ Coming(a, e, q, t, p)
      /\ \A e \in Servers, q \in Rooms, l \in Nat : ~ Proposes(e, q, l, t)'
  BY LastOffer
<1>2. \A a, e \in Servers, q \in Rooms, u \in Texts, l \in Nat :
         /\ InFlight(a, q, u, l, e)' => InFlight(a, q, u, l, e)
         /\ Got(a, q, u, l, e)' => Got(a, q, u, l, e)
  BY DEF OfferLast
<1>3. \A a, e \in Servers, q \in Rooms, u \in Texts, l \in Nat :
         Announced(a, q, u, l, e)' <=>
              Announced(a, q, u, l, e) \/ (q = r /\ u = t /\ l = j /\ e = c)
  BY DEF OfferLast
<1>4. \A a, d \in Servers, q \in Rooms, u \in Texts, p \in Nat :
         Coming(a, d, q, u, p)' <=> Coming(a, d, q, u, p)
  BY DEF OfferLast
<1>5. UNCHANGED <<PROPOSED, AGREED, HOLD_BACK_QUEUE_TOTAL, up, forwarded, posted>>
  BY DEF OfferLast
<1>6. /\ \A d \in Servers, q \in Rooms, u \in Texts, l \in Nat :
           /\ Waits(d, q, l, u)' <=> Waits(d, q, l, u)
           /\ \A e \in Servers : /\ Holds(d, q, l, e, u)' <=> Holds(d, q, l, e, u)
                                 /\ Logged(d, q, l, e, u)' <=> Logged(d, q, l, e, u)
      /\ \A q \in Rooms, u \in Texts : PostedIn(q, u)' <=> PostedIn(q, u)
  BY <1>5 DEF Waits, Holds, Logged, PostedIn
<1>7. \A e \in Servers, q \in Rooms, u \in Texts, l \in Nat :
         Agreed(q, l, e, u)' <=>
           Agreed(q, l, e, u) \/ (q = r /\ u = t /\ l = j /\ e = c)
  BY <1>3, <1>6 DEF Agreed
<1>8. \A e \in Servers, q \in Rooms, u \in Texts, l \in Nat :
         Proposes(e, q, l, u)' => Proposes(e, q, l, u) /\ ~ (u = t)
  <2>1. \A e \in Servers, q \in Rooms, u \in Texts, l \in Nat :
           Proposes(e, q, l, u)' => Proposes(e, q, l, u)
    BY <1>2 DEF Proposes
  <2> QED
    BY <1>1, <2>1
<1>9. \A e \in Servers, q \in Rooms, u \in Texts, l \in Nat :
         Numbered(e, q, l, u)' => Numbered(e, q, l, u)
  BY <1>1, <1>6, <1>7, <1>8 DEF Numbered
<1>10. \A a \in Servers, u \in Texts : Home(a, u)' => Home(a, u)
  BY <1>2, <1>4 DEF Home
<1>11. OneRoom'
  BY <1>4, <1>6, <1>9 DEF OneRoom
<1>12. OneEntry'
  BY <1>6 DEF OneEntry
<1>13. OneText'
  BY <1>5, <1>9 DEF OneText
<1>14. OneKey'
  BY <1>1, <1>7 DEF OneKey
<1>15. OneHome'
  BY <1>10 DEF OneHome
<1>16. NewFirst'
  BY <1>1, <1>4, <1>6, <1>7, <1>8 DEF NewFirst
<1>17. OneOffer'
  <2> SUFFICES ASSUME NEW x \in Servers, NEW q \in Rooms, NEW u \in Texts, NEW l \in Nat,
                      Proposes(x, q, l, u)'
               PROVE  /\ \A i \in Nat : Proposes(x, q, i, u)' => l = i
                      /\ \A a, e \in Servers : ~ (InFlight(a, q, u, l, x)' /\ Got(e, q, u, l, x)')
                      /\ \A i \in Nat, e \in Servers : ~ Agreed(q, i, e, u)'
                      /\ up'[x] => Waits(x, q, l, u)'
                      /\ \A i \in Nat, e \in Servers, v \in Texts : Logged(x, q, i, e, v)' => i < l
    BY DEF OneOffer
  <2>1. Proposes(x, q, l, u) /\ u # t
    BY <1>8
  <2>2. \A i \in Nat : Proposes(x, q, i, u)' => l = i
    BY <1>8, <2>1 DEF OneOffer
  <2>3. \A a, e \in Servers : ~ (InFlight(a, q, u, l, x)' /\ Got(e, q, u, l, x)')
    BY <1>2, <2>1 DEF OneOffer
  <2>4. \A i \in Nat, e \in Servers : ~ Agreed(q, i, e, u)'
    BY <1>7, <2>1 DEF OneOffer
  <2>5. up'[x] => Waits(x, q, l, u)'
    BY <1>5, <1>6, <2>1 DEF OneOffer
  <2>6. \A i \in Nat, e \in Servers, v \in Texts : Logged(x, q, i, e, v)' => i < l
    BY <1>6, <2>1 DEF OneOffer
  <2> QED
    BY <2>2, <2>3, <2>4, <2>5, <2>6
<1>18. Expected'
  <2> SUFFICES ASSUME NEW d \in Servers, NEW q \in Rooms, NEW u \in Texts, NEW i \in Nat,
                      NEW e \in Servers, up[d]
               PROVE  /\ Announced(d, q, u, i, e)' => \E l \in Nat : Waits(d, q, l, u)'
                      /\ Agreed(q, i, e, u)' => \A l \in Nat : Waits(d, q, l, u)' => l <= i
    BY <1>5 DEF Expected
  <2>1. PICK l \in Nat : Proposes(d, r, l, t) /\ l <= j
    BY <1>1
  <2>2. Waits(d, r, l, t)
    BY <2>1 DEF OneOffer
  <2>3. \A h \in Nat : Waits(d, r, h, t) => h = l
    BY <2>2 DEF OneEntry
  <2>4. Announced(d, q, u, i, e)' => \E h \in Nat : Waits(d, q, h, u)'
    BY <1>3, <1>6, <2>2 DEF Expected
  <2>5. Agreed(q, i, e, u)' => \A h \in Nat : Waits(d, q, h, u)' => h <= i
    <3>1. CASE q = r /\ u = t /\ i = j /\ e = c
      BY <1>6, <2>1, <2>3, <3>1
    <3>2. CASE Agreed(q, i, e, u)
      BY <1>6, <3>2 DEF Expected
    <3> QED
      BY <1>7, <3>1, <3>2
  <2> QED
    BY <2>4, <2>5
<1>19. Everywhere'
  <2> SUFFICES ASSUME NEW q \in Rooms, NEW i \in Nat, NEW e \in Servers, NEW u \in Texts,
                      NEW d \in Servers, Agreed(q, i, e, u)'
               PROVE  \/ Logged(d, q, i, e, u)
                      \/ up[d] /\ (Holds(d, q, i, e, u) \/ Announced(d, q, u, i, e)')
                      \/ /\ ~ up[d]
                         /\ \A l \in Nat, f \in Servers, v \in Texts :
                               Logged(d, q, l, f, v) => Earlier(l, f, i, e)
    BY <1>5, <1>6 DEF Everywhere, Earlier
  <2>1. CASE Agreed(q, i, e, u)
    BY <1>3, <2>1 DEF Everywhere
  <2>2. CASE q = r /\ u = t /\ i = j /\ e = c
    <3>1. Announced(d, q, u, i, e)'
      BY <1>3, <2>2
    <3>2. PICK l \in Nat : Proposes(d, r, l, t) /\ l <= j
      BY <1>1
    <3>3. \A h \in Nat, f \in Servers, v \in Texts : Logged(d, r, h, f, v) => h < l
      BY <3>2 DEF OneOffer
    <3>4. \A h \in Nat, f \in Servers, v \in Texts : Logged(d, q, h, f, v) => Earlier(h, f, i, e)
      BY <2>2, <3>2, <3>3 DEF Earlier
    <3>5. up[d] \/ ~ up[d]
      OBVIOUS
    <3> QED
      BY <3>1, <3>4, <3>5
  <2> QED
    BY <1>7, <2>1, <2>2
<1>20. LogFirst' /\ LogOrdered' /\ Forms'
  BY <1>5, LogFrame
<1> QED
  BY <1>11, <1>12, <1>13, <1>14, <1>15, <1>16, <1>17, <1>18, <1>19, <1>20

LEMMA OrderProposal ==
    ASSUME Typed, OrderInv, NEW m \in net, m.type = "PROPOSAL", HandleProposal(m)
    PROVE  OrderInv'
BY ProposalSteps, OrderKept, OrderLast

-----------------------------------------------------------------------------
(* An AGREEMENT.  In a queue with one entry for the text that moves, and   *)
(* none under the key it moves to, one entry takes the place of the other. *)
LEMMA AgreeOfOne ==
    ASSUME NEW q, NEW m, NEW w \in q, NEW agreed \in Agree(q, m),
           w.text = m.text,
           \A e \in q : e.text = m.text => e = w,
           \A e \in q : ~ (e.id = m.id /\ e.by = m.by),
           ~ Before(w, w)
    PROVE  agreed = (q \ {w}) \cup
             {[id |-> m.id, by |-> m.by, deliverable |-> TRUE, text |-> m.text]}
<1> DEFINE same  == {e \in q : e.text = m.text}
           moved == [id |-> m.id, by |-> m.by, deliverable |-> TRUE, text |-> m.text]
           others(gone) == {e \in q \ gone : ~ (e.id = m.id /\ e.by = m.by)}
<1>1. same = {w}
  OBVIOUS
<1>2. PICK gone \in SUBSET same :
         (\E e \in gone : \A f \in same : ~ Before(f, e)) /\ agreed = others(gone) \cup {moved}
  BY <1>1 DEF Agree
<1>3. gone = {w}
  BY <1>1, <1>2
<1>4. others(gone) = q \ {w}
  BY <1>3
<1> QED
  BY <1>2, <1>4

(* Server d handles the AGREEMENT of t under k of b: the entry under the   *)
(* number w is replaced, which makes the queue A, and the head of A goes.  *)
QueueOrdered(d, r, t, k, b, w, A, out) ==
    /\ Announced(d, r, t, k, b) /\ up[d] /\ Waits(d, r, w, t)
    /\ A = (HOLD_BACK_QUEUE_TOTAL[d][r] \ {Waiting(w, t)}) \cup {Ordered(k, b, t)}
    /\ out \in InKeyOrder(Ready(A))
    /\ net' = net \ {AgreementTo(d, r, t, k, b)}
    /\ AGREED' = [AGREED EXCEPT ![d][r] = Larger(AGREED[d][r], k)]
    /\ HOLD_BACK_QUEUE_TOTAL' = [HOLD_BACK_QUEUE_TOTAL EXCEPT ![d][r] = A \ Ready(A)]
    /\ UNCHANGED <<PROPOSED, proposals, posted>>
    /\ \/ /\ forwarded' = [forwarded EXCEPT ![d][r] = forwarded[d][r] \o out]
          /\ \/ up' = up
             \/ A \ Ready(A) = {} /\ up' = [up EXCEPT ![d] = FALSE]
       \/ forwarded' = forwarded /\ up' = [up EXCEPT ![d] = FALSE]

LEMMA AgreementSteps ==
    ASSUME Typed, OrderInv, NEW m \in net, m.type = "AGREEMENT", HandleAgreement(m)
    PROVE  \E d, b \in Servers, r \in Rooms, t \in Texts, k, w \in Nat :
             \E A, out : QueueOrdered(d, r, t, k, b, w, A, out)
<1> USE DEF OrderInv
<1>1. PICK d, b \in Servers, r \in Rooms, t \in Texts, k \in Nat :
         m = AgreementTo(d, r, t, k, b) /\ Announced(d, r, t, k, b)
  BY StageTypes
<1>2. m.dst = d /\ m.by = b /\ m.room = r /\ m.text = t /\ m.id = k
  BY <1>1 DEF AgreementTo
<1>3. PICK q : q = HOLD_BACK_QUEUE_TOTAL[d][r]
  OBVIOUS
<1>4. PICK agreed \in Agree(q, m) : \E out \in InKeyOrder(Ready(agreed)) :
        /\ HOLD_BACK_QUEUE_TOTAL' =
             [HOLD_BACK_QUEUE_TOTAL EXCEPT ![d][r] = agreed \ Ready(agreed)]
        /\ \/ /\ forwarded' = [forwarded EXCEPT ![d][r] = forwarded[d][r] \o out]
              /\ \/ up' = up
                 \/ agreed \ Ready(agreed) = {} /\ up' = [up EXCEPT ![d] = FALSE]
           \/ forwarded' = forwarded /\ up' = [up EXCEPT ![d] = FALSE]
  BY <1>2, <1>3 DEF HandleAgreement
<1>5. PICK out \in InKeyOrder(Ready(agreed)) :
         /\ HOLD_BACK_QUEUE_TOTAL' =
              [HOLD_BACK_QUEUE_TOTAL EXCEPT ![d][r] = agreed \ Ready(agreed)]
         /\ \/ /\ forwarded' = [forwarded EXCEPT ![d][r] = forwarded[d][r] \o out]
               /\ \/ up' = up
                  \/ agreed \ Ready(agreed) = {} /\ up' = [up EXCEPT ![d] = FALSE]
            \/ forwarded' = forwarded /\ up' = [up EXCEPT ![d] = FALSE]
  BY <1>4
<1>6. /\ up[d]
      /\ net' = net \ {AgreementTo(d, r, t, k, b)}
      /\ AGREED' = [AGREED EXCEPT ![d][r] = Larger(AGREED[d][r], k)]
      /\ UNCHANGED <<PROPOSED, proposals, posted>>
  BY <1>1, <1>2 DEF HandleAgreement
<1>7. PICK w \in Nat : Waits(d, r, w, t)
  BY <1>1, <1>6 DEF Expected
<1>8. Waiting(w, t) \in q
  BY <1>3, <1>7 DEF Waits
<1>9. \A e \in q : e.text = t => e = Waiting(w, t)
  <2> SUFFICES ASSUME NEW e \in q, e.text = t PROVE e = Waiting(w, t)
    OBVIOUS
  <2>1. CASE \E l \in Nat, u \in Texts : e = Waiting(l, u)
    <3>1. PICK l \in Nat, u \in Texts : e = Waiting(l, u)
      BY <2>1
    <3>2. u = t
      BY <3>1 DEF Waiting
    <3>3. l = w
      BY <1>3, <1>7, <3>1, <3>2 DEF OneEntry, Waits
    <3> QED
      BY <3>1, <3>2, <3>3
  <2>2. CASE \E l \in Nat, c \in Servers, u \in Texts : e = Ordered(l, c, u)
    <3>1. PICK l \in Nat, c \in Servers, u \in Texts : e = Ordered(l, c, u)
      BY <2>2
    <3>2. u = t
      BY <3>1 DEF Ordered
    <3>3. Holds(d, r, l, c, t)
      BY <1>3, <3>1, <3>2 DEF Holds
    <3> QED
      BY <1>7, <3>3 DEF OneEntry
  <2> QED
    BY <1>3, <2>1, <2>2 DEF Forms
<1>10. \A e \in q : ~ (e.id = k /\ e.by = b)
  <2> SUFFICES ASSUME NEW e \in q, e.id = k, e.by = b PROVE FALSE
    OBVIOUS
  <2>1. b # Nobody
    BY ServersAssumption DEF Servers, Nobody
  <2>2. \A l, u : Waiting(l, u).by = Nobody
    BY DEF Waiting
  <2>3. PICK l \in Nat, c \in Servers, u \in Texts : e = Ordered(l, c, u)
    BY <1>3, <2>1, <2>2 DEF Forms
  <2>4. l = k /\ c = b
    BY <2>3 DEF Ordered
  <2>5. Holds(d, r, k, b, u)
    BY <1>3, <2>3, <2>4 DEF Holds
  <2>6. Numbered(b, r, k, u) /\ Numbered(b, r, k, t)
    BY <1>1, <2>5 DEF Numbered, Agreed
  <2>7. u = t
    BY <2>6 DEF OneText
  <2> QED
    BY <1>7, <2>5, <2>7 DEF OneEntry
<1>11. /\ Waiting(w, t).text = t
       /\ ~ Before(Waiting(w, t), Waiting(w, t))
       /\ [id |-> k, by |-> b, deliverable |-> TRUE, text |-> t] = Ordered(k, b, t)
  BY DEF Waiting, Ordered, Before, Nobody
<1>12. agreed = (q \ {Waiting(w, t)}) \cup {Ordered(k, b, t)}
  <2>1. /\ \A e \in q : e.text = m.text => e = Waiting(w, t)
        /\ \A e \in q : ~ (e.id = m.id /\ e.by = m.by)
        /\ Waiting(w, t).text = m.text
    BY <1>2, <1>9, <1>10, <1>11
  <2>2. PICK e : e = Waiting(w, t)
    OBVIOUS
  <2>3. /\ e \in q /\ e.text = m.text /\ ~ Before(e, e)
        /\ \A f \in q : f.text = m.text => f = e
    BY <1>8, <1>11, <2>1, <2>2
  <2>4. agreed = (q \ {e}) \cup
           {[id |-> m.id, by |-> m.by, deliverable |-> TRUE, text |-> m.text]}
    BY <2>1, <2>3, AgreeOfOne
  <2> QED
    BY <1>2, <1>11, <2>2, <2>4
<1>13. QueueOrdered(d, r, t, k, b, w, agreed, out)
  BY <1>1, <1>3, <1>5, <1>6, <1>7, <1>12 DEF QueueOrdered
<1> QED
  BY <1>13

(* The queue A: what it holds, and what leaves it.                         *)
LEMMA QueueParts ==
    ASSUME Typed, OrderInv, NEW d \in Servers, NEW b \in Servers, NEW r \in Rooms,
           NEW t \in Texts, NEW k \in Nat, NEW w \in Nat, NEW A, NEW out,
           QueueOrdered(d, r, t, k, b, w, A, out)
    PROVE  /\ IsFiniteSet(A) /\ Keyed(A)
           /\ \A l \in Nat, u \in Texts : Waiting(l, u) \in A <=> Waits(d, r, l, u) /\ u # t
           /\ \A l \in Nat, c \in Servers, u \in Texts :
                Ordered(l, c, u) \in A <=> Holds(d, r, l, c, u) \/ (l = k /\ c = b /\ u = t)
           /\ \A e \in A : \/ \E l \in Nat, u \in Texts : e = Waiting(l, u)
                           \/ \E l \in Nat, c \in Servers, u \in Texts : e = Ordered(l, c, u)
           /\ \A l \in Nat, u \in Texts : Waiting(l, u) \notin Ready(A)
           /\ \A e \in Ready(A) : \E l \in Nat, c \in Servers, u \in Texts : e = Ordered(l, c, u)
<1> USE DEF OrderInv
<1>1. PICK q : q = HOLD_BACK_QUEUE_TOTAL[d][r]
  OBVIOUS
<1>2. /\ Announced(d, r, t, k, b) /\ up[d] /\ Waits(d, r, w, t)
      /\ A = (q \ {Waiting(w, t)}) \cup {Ordered(k, b, t)}
  BY <1>1 DEF QueueOrdered
<1>3. /\ IsFiniteSet(q) /\ UniqueKeys(q) /\ \A e \in q : e.id \in Nat /\ e.by \in Nat
  <2>1. PICK n \in Nat : TypeUpTo(n)
    BY DEF Typed, Counted
  <2>2. q \subseteq HeldUpTo(n)
    BY <1>1, <2>1 DEF TypeUpTo
  <2>3. \A e \in HeldUpTo(n) : e.id \in Nat /\ e.by \in Nat
    BY DEF HeldUpTo, Servers, Nobody
  <2>4. IsFiniteSet(q) /\ UniqueKeys(q)
    BY <1>1 DEF Typed, Shape
  <2> QED
    BY <2>2, <2>3, <2>4
<1>4. \A l \in Nat, c \in Servers : ~ Holds(d, r, l, c, t)
  BY <1>2 DEF OneEntry
<1>5. \A u \in Texts : Holds(d, r, k, b, u) => u = t
  <2> SUFFICES ASSUME NEW u \in Texts, Holds(d, r, k, b, u) PROVE u = t
    OBVIOUS
  <2>1. Numbered(b, r, k, u) /\ Numbered(b, r, k, t)
    BY <1>2 DEF Numbered, Agreed
  <2> QED
    BY <2>1 DEF OneText
<1>6. IsFiniteSet(A)
  <2>1. IsFiniteSet(q \ {Waiting(w, t)})
    BY <1>3, FS_Subset
  <2> QED
    BY <1>2, <2>1, FS_AddElement
<1>7. \A e \in q : \/ \E l \in Nat, u \in Texts : e = Waiting(l, u)
                   \/ \E l \in Nat, c \in Servers, u \in Texts : e = Ordered(l, c, u)
  BY <1>1 DEF Forms
<1>8. \A e \in A : \/ \E l \in Nat, u \in Texts : e = Waiting(l, u)
                   \/ \E l \in Nat, c \in Servers, u \in Texts : e = Ordered(l, c, u)
  BY <1>2, <1>7
<1>9. \A l \in Nat, u \in Texts : Waiting(l, u) \in A <=> Waits(d, r, l, u) /\ u # t
  <2> TAKE l \in Nat, u \in Texts
  <2>1. Waiting(l, u) # Ordered(k, b, t)
    BY Distinct
  <2>2. Waiting(l, u) = Waiting(w, t) => l = w /\ u = t
    BY Distinct
  <2>3. Waits(d, r, l, t) => l = w
    BY <1>2 DEF OneEntry
  <2> QED
    BY <1>1, <1>2, <2>1, <2>2, <2>3 DEF Waits
<1>10. \A l \in Nat, c \in Servers, u \in Texts :
         Ordered(l, c, u) \in A <=> Holds(d, r, l, c, u) \/ (l = k /\ c = b /\ u = t)
  <2> TAKE l \in Nat, c \in Servers, u \in Texts
  <2>1. Ordered(l, c, u) # Waiting(w, t)
    BY Distinct
  <2>2. Ordered(l, c, u) = Ordered(k, b, t) => l = k /\ c = b /\ u = t
    BY Distinct
  <2> QED
    BY <1>1, <1>2, <2>1, <2>2 DEF Holds
<1>11. Keyed(A)
  <2>1. \A e \in A : e.id \in Nat /\ e.by \in Nat
    <3>1. Ordered(k, b, t).id \in Nat /\ Ordered(k, b, t).by \in Nat
      BY DEF Ordered, Servers
    <3> QED
      BY <1>2, <1>3, <3>1
  <2>2. \A e \in q : e.id = k /\ e.by = b => e = Ordered(k, b, t)
    <3> SUFFICES ASSUME NEW e \in q, e.id = k, e.by = b PROVE e = Ordered(k, b, t)
      OBVIOUS
    <3>1. b # Nobody /\ \A l, u : Waiting(l, u).by = Nobody
      BY ServersAssumption DEF Servers, Nobody, Waiting
    <3>2. PICK l \in Nat, c \in Servers, u \in Texts : e = Ordered(l, c, u)
      BY <1>7, <3>1
    <3>3. l = k /\ c = b
      BY <3>2 DEF Ordered
    <3>4. Holds(d, r, k, b, u)
      BY <1>1, <3>2, <3>3 DEF Holds
    <3> QED
      BY <1>5, <3>2, <3>3, <3>4
  <2>3. Ordered(k, b, t).id = k /\ Ordered(k, b, t).by = b
    BY DEF Ordered
  <2>4. \A e, f \in A : e.id = f.id /\ e.by = f.by => e = f
    BY <1>2, <1>3, <2>2, <2>3 DEF UniqueKeys
  <2> QED
    BY <2>1, <2>4 DEF Keyed
<1>12. \A l \in Nat, u \in Texts : Waiting(l, u) \notin Ready(A)
  BY DEF Ready, Waiting
<1>13. \A e \in Ready(A) : \E l \in Nat, c \in Servers, u \in Texts : e = Ordered(l, c, u)
  BY <1>8, <1>12 DEF Ready
<1> QED
  BY <1>6, <1>8, <1>9, <1>10, <1>11, <1>12, <1>13

(* What goes comes before what stays. *)
LEMMA QueueHead ==
    ASSUME Typed, OrderInv, NEW d \in Servers, NEW b \in Servers, NEW r \in Rooms,
           NEW t \in Texts, NEW k \in Nat, NEW w \in Nat, NEW A, NEW out,
           QueueOrdered(d, r, t, k, b, w, A, out),
           NEW l \in Nat, NEW c \in Servers, NEW u \in Texts, Ordered(l, c, u) \in Ready(A)
    PROVE  /\ \A j \in Nat, v \in Texts : Waits(d, r, j, v) /\ v # t => l < j
           /\ \A j \in Nat, e \in Servers, v \in Texts :
                Ordered(j, e, v) \in A \ Ready(A) => Earlier(l, c, j, e)
<1>1. Keyed(A)
  BY QueueParts
<1>2. Ordered(l, c, u).id = l /\ Ordered(l, c, u).by = c
  BY DEF Ordered
<1>3. ASSUME NEW j \in Nat, NEW v \in Texts, Waits(d, r, j, v), v # t
      PROVE  l < j
  <2>1. Waiting(j, v) \in A /\ Waiting(j, v) \notin Ready(A)
    BY <1>3, QueueParts
  <2>2. Before(Ordered(l, c, u), Waiting(j, v))
    BY <1>1, <2>1, ReadyFirst
  <2>3. Waiting(j, v).id = j /\ Waiting(j, v).by = 0
    BY DEF Waiting, Nobody
  <2> QED
    BY <1>2, <2>2, <2>3 DEF Before, Servers
<1>4. ASSUME NEW j \in Nat, NEW e \in Servers, NEW v \in Texts, Ordered(j, e, v) \in A \ Ready(A)
      PROVE  Earlier(l, c, j, e)
  <2>1. Before(Ordered(l, c, u), Ordered(j, e, v))
    BY <1>1, <1>4, ReadyFirst
  <2>2. Ordered(j, e, v).id = j /\ Ordered(j, e, v).by = e
    BY DEF Ordered
  <2> QED
    BY <1>2, <2>1, <2>2 DEF Before, Earlier
<1> QED
  BY <1>3, <1>4

(* How the stages change. *)
StagesMove(d, r, t, k, b, A) ==
    /\ \A x, c \in Servers, q \in Rooms, u \in Texts, l \in Nat :
         /\ InFlight(x, q, u, l, c)' <=> InFlight(x, q, u, l, c)
         /\ Announced(x, q, u, l, c)' <=>
              Announced(x, q, u, l, c) /\ ~ (x = d /\ q = r /\ u = t /\ l = k /\ c = b)
    /\ \A a, x \in Servers, q \in Rooms, u \in Texts, p \in Nat :
         Coming(a, x, q, u, p)' <=> Coming(a, x, q, u, p)
    /\ \A x \in Servers, q \in Rooms :
         AGREED'[x][q] = IF x = d /\ q = r THEN Larger(AGREED[x][q], k) ELSE AGREED[x][q]
    /\ \A x \in Servers, q \in Rooms, u \in Texts, l \in Nat :
         Waits(x, q, l, u)' <=> Waits(x, q, l, u) /\ ~ (x = d /\ q = r /\ u = t)
    /\ \A x \in Servers, q \in Rooms, u \in Texts, l \in Nat, c \in Servers :
         Holds(x, q, l, c, u)' <=>
           IF x = d /\ q = r THEN Ordered(l, c, u) \in A \ Ready(A)
                             ELSE Holds(x, q, l, c, u)
    /\ \/ \A x \in Servers, q \in Rooms, u \in Texts, l \in Nat, c \in Servers :
            Logged(x, q, l, c, u)' <=>
              \/ Logged(x, q, l, c, u)
              \/ x = d /\ q = r /\ Ordered(l, c, u) \in Ready(A)
       \/ /\ ~ up'[d]
          /\ \A x \in Servers, q \in Rooms, u \in Texts, l \in Nat, c \in Servers :
               Logged(x, q, l, c, u)' <=> Logged(x, q, l, c, u)
    /\ \A x \in Servers : up'[x] = up[x] \/ (x = d /\ ~ up'[x])

LEMMA QueueStages ==
    ASSUME Typed, OrderInv, NEW d \in Servers, NEW b \in Servers, NEW r \in Rooms,
           NEW t \in Texts, NEW k \in Nat, NEW w \in Nat, NEW A, NEW out,
           QueueOrdered(d, r, t, k, b, w, A, out)
    PROVE  StagesMove(d, r, t, k, b, A)
<1>1. /\ net' = net \ {AgreementTo(d, r, t, k, b)}
      /\ AGREED' = [AGREED EXCEPT ![d][r] = Larger(AGREED[d][r], k)]
      /\ HOLD_BACK_QUEUE_TOTAL' = [HOLD_BACK_QUEUE_TOTAL EXCEPT ![d][r] = A \ Ready(A)]
      /\ out \in InKeyOrder(Ready(A))
      /\ \/ /\ forwarded' = [forwarded EXCEPT ![d][r] = forwarded[d][r] \o out]
            /\ up' = up \/ up' = [up EXCEPT ![d] = FALSE]
         \/ forwarded' = forwarded /\ up' = [up EXCEPT ![d] = FALSE]
  BY DEF QueueOrdered
<1>2. /\ \A x, c \in Servers, q \in Rooms, u \in Texts, l \in Nat :
           /\ InFlight(x, q, u, l, c)' <=> InFlight(x, q, u, l, c)
           /\ Announced(x, q, u, l, c)' <=>
                Announced(x, q, u, l, c) /\ ~ (x = d /\ q = r /\ u = t /\ l = k /\ c = b)
      /\ \A a, x \in Servers, q \in Rooms, u \in Texts, p \in Nat :
           Coming(a, x, q, u, p)' <=> Coming(a, x, q, u, p)
  <2>1. \A a, q, u, l, e : /\ NewTo(a, e, q, u, l) # AgreementTo(d, r, t, k, b)
                           /\ ProposalTo(a, q, u, l, e) # AgreementTo(d, r, t, k, b)
    BY DEF NewTo, ProposalTo, AgreementTo
  <2>2. \A x, c \in Servers, q \in Rooms, u \in Texts, l \in Nat :
           AgreementTo(x, q, u, l, c) = AgreementTo(d, r, t, k, b) =>
             x = d /\ q = r /\ u = t /\ l = k /\ c = b
    BY Distinct
  <2> QED
    BY <1>1, <2>1, <2>2 DEF InFlight, Announced, Coming
<1>3. /\ DOMAIN AGREED = Servers /\ \A x \in Servers : DOMAIN AGREED[x] = Rooms
      /\ DOMAIN HOLD_BACK_QUEUE_TOTAL = Servers
      /\ \A x \in Servers : DOMAIN HOLD_BACK_QUEUE_TOTAL[x] = Rooms
      /\ DOMAIN forwarded = Servers
      /\ \A x \in Servers : DOMAIN forwarded[x] = Rooms
  BY DEF Typed, TypeUpTo
<1>4. \A x \in Servers, q \in Rooms :
         AGREED'[x][q] = IF x = d /\ q = r THEN Larger(AGREED[x][q], k) ELSE AGREED[x][q]
  BY <1>1, <1>3, Update2
<1>5. \A x \in Servers, q \in Rooms : HOLD_BACK_QUEUE_TOTAL'[x][q] =
         IF x = d /\ q = r THEN A \ Ready(A) ELSE HOLD_BACK_QUEUE_TOTAL[x][q]
  BY <1>1, <1>3, Update2
<1>6. \A x \in Servers, q \in Rooms, u \in Texts, l \in Nat :
         Waits(x, q, l, u)' <=> Waits(x, q, l, u) /\ ~ (x = d /\ q = r /\ u = t)
  <2>1. \A l \in Nat, u \in Texts :
           Waiting(l, u) \in A \ Ready(A) <=> Waits(d, r, l, u) /\ u # t
    BY QueueParts
  <2> QED
    BY <1>5, <2>1 DEF Waits
<1>7. \A x \in Servers, q \in Rooms, u \in Texts, l \in Nat, c \in Servers :
         Holds(x, q, l, c, u)' <=>
           IF x = d /\ q = r THEN Ordered(l, c, u) \in A \ Ready(A)
                             ELSE Holds(x, q, l, c, u)
  BY <1>5 DEF Holds
<1>8. CASE forwarded' = forwarded /\ up' = [up EXCEPT ![d] = FALSE]
  <2>1. /\ ~ up'[d]
        /\ \A x \in Servers : up'[x] = up[x] \/ (x = d /\ ~ up'[x])
    BY <1>8 DEF Typed, TypeUpTo
  <2>2. \A x \in Servers, q \in Rooms, u \in Texts, l \in Nat, c \in Servers :
           Logged(x, q, l, c, u)' <=> Logged(x, q, l, c, u)
    BY <1>8 DEF Logged
  <2> QED
    BY <1>2, <1>4, <1>6, <1>7, <2>1, <2>2 DEF StagesMove
<1>9. CASE /\ forwarded' = [forwarded EXCEPT ![d][r] = forwarded[d][r] \o out]
           /\ up' = up \/ up' = [up EXCEPT ![d] = FALSE]
  <2>1. \A x \in Servers : up'[x] = up[x] \/ (x = d /\ ~ up'[x])
    BY <1>9 DEF Typed, TypeUpTo
  <2>2. \A x \in Servers, q \in Rooms :
           forwarded'[x][q] = IF x = d /\ q = r THEN forwarded[d][r] \o out ELSE forwarded[x][q]
    BY <1>3, <1>9, Update2
  <2>3. IsFiniteSet(Ready(A)) /\ out \in InKeyOrder(Ready(A))
    <3>1. IsFiniteSet(A) /\ Ready(A) \subseteq A
      BY QueueParts DEF Ready
    <3> QED
      BY <1>1, <3>1, FS_Subset
  <2>4. out \in Seq(Ready(A)) /\ \A e \in Ready(A) : \E i \in 1..Len(out) : out[i] = e
    BY <2>3, KeyOrderLists
  <2>5. PICK n \in Nat : TypeUpTo(n)
    BY DEF Typed, Counted
  <2>6. forwarded[d][r] \in Seq(HeldUpTo(n))
    BY <2>5 DEF TypeUpTo
  <2>7. \A e : (\E i \in 1..Len(forwarded[d][r] \o out) : (forwarded[d][r] \o out)[i] = e) <=>
               \/ \E i \in 1..Len(forwarded[d][r]) : forwarded[d][r][i] = e
               \/ e \in Ready(A)
    <3>1. PICK a : a = forwarded[d][r] /\ a \in Seq(HeldUpTo(n))
      BY <2>6
    <3>2. /\ Len(a) \in Nat /\ Len(out) \in Nat /\ Len(a \o out) = Len(a) + Len(out)
          /\ \A i \in 1..Len(a) : (a \o out)[i] = a[i]
          /\ \A i \in 1..Len(out) : (a \o out)[Len(a) + i] = out[i] /\ out[i] \in Ready(A)
      <4>1. /\ Len(a) \in Nat /\ Len(out) \in Nat /\ Len(a \o out) = Len(a) + Len(out)
            /\ \A i \in 1..Len(a) : (a \o out)[i] = a[i]
        BY <2>4, <3>1
      <4>2. \A i \in 1..Len(out) : (a \o out)[Len(a) + i] = out[i]
        BY <2>4, <3>1, <4>1
      <4>3. \A i \in 1..Len(out) : out[i] \in Ready(A)
        BY <2>4
      <4> QED
        BY <4>1, <4>2, <4>3
    <3>3. \A i \in 1..(Len(a) + Len(out)) :
             i \in 1..Len(a) \/ \E h \in 1..Len(out) : i = Len(a) + h
      <4> TAKE i \in 1..(Len(a) + Len(out))
      <4>1. CASE i <= Len(a)
        BY <3>2, <4>1
      <4>2. CASE i > Len(a)
        <5>1. i - Len(a) \in 1..Len(out) /\ i = Len(a) + (i - Len(a))
          BY <3>2, <4>2
        <5> QED
          BY <5>1
      <4> QED
        BY <3>2, <4>1, <4>2
    <3>4. \A h \in 1..Len(out) : Len(a) + h \in 1..(Len(a) + Len(out))
      BY <3>2
    <3>5. \A i \in 1..Len(a) : i \in 1..(Len(a) + Len(out))
      BY <3>2
    <3> TAKE e
    <3>6. ASSUME NEW i \in 1..Len(a \o out), (a \o out)[i] = e
          PROVE  (\E h \in 1..Len(a) : a[h] = e) \/ e \in Ready(A)
      <4>1. i \in 1..Len(a) \/ \E h \in 1..Len(out) : i = Len(a) + h
        BY <3>2, <3>3
      <4> QED
        BY <3>2, <3>6, <4>1
    <3>7. ASSUME NEW i \in 1..Len(a), a[i] = e
          PROVE  \E h \in 1..Len(a \o out) : (a \o out)[h] = e
      BY <3>2, <3>5, <3>7
    <3>8. ASSUME e \in Ready(A)
          PROVE  \E h \in 1..Len(a \o out) : (a \o out)[h] = e
      <4>1. PICK i \in 1..Len(out) : out[i] = e
        BY <2>4, <3>8
      <4> QED
        BY <3>2, <3>4, <4>1
    <3> QED
      BY <3>1, <3>6, <3>7, <3>8
  <2>8. \A x \in Servers, q \in Rooms, u \in Texts, l \in Nat, c \in Servers :
           Logged(x, q, l, c, u)' <=>
             \/ Logged(x, q, l, c, u)
             \/ x = d /\ q = r /\ Ordered(l, c, u) \in Ready(A)
    <3> TAKE x \in Servers, q \in Rooms, u \in Texts, l \in Nat, c \in Servers
    <3>1. CASE x = d /\ q = r
      <4>1. forwarded'[x][q] = forwarded[d][r] \o out
        BY <2>2, <3>1
      <4>2. Logged(x, q, l, c, u)' <=>
               \E i \in 1..Len(forwarded[d][r] \o out) :
                  (forwarded[d][r] \o out)[i] = Ordered(l, c, u)
        BY <4>1 DEF Logged
      <4> QED
        BY <2>7, <3>1, <4>2 DEF Logged
    <3>2. CASE ~ (x = d /\ q = r)
      <4>1. forwarded'[x][q] = forwarded[x][q]
        BY <2>2, <3>2
      <4> QED
        BY <3>2, <4>1 DEF Logged
    <3> QED
      BY <3>1, <3>2
  <2> QED
    BY <1>2, <1>4, <1>6, <1>7, <2>1, <2>8 DEF StagesMove
<1> QED
  BY <1>1, <1>8, <1>9

(* The log of d grows in order: what goes comes after all that it logged.  *)
LEMMA QueueLogs ==
    ASSUME Typed, OrderInv, NEW d \in Servers, NEW b \in Servers, NEW r \in Rooms,
           NEW t \in Texts, NEW k \in Nat, NEW w \in Nat, NEW A, NEW out,
           QueueOrdered(d, r, t, k, b, w, A, out)
    PROVE  LogOrdered' /\ Forms'
<1> USE DEF OrderInv
<1>1. /\ Announced(d, r, t, k, b) /\ up[d] /\ Waits(d, r, w, t)
      /\ HOLD_BACK_QUEUE_TOTAL' = [HOLD_BACK_QUEUE_TOTAL EXCEPT ![d][r] = A \ Ready(A)]
      /\ out \in InKeyOrder(Ready(A))
      /\ \/ forwarded' = [forwarded EXCEPT ![d][r] = forwarded[d][r] \o out]
         \/ forwarded' = forwarded
  BY DEF QueueOrdered
<1>2. /\ DOMAIN HOLD_BACK_QUEUE_TOTAL = Servers
      /\ \A x \in Servers : DOMAIN HOLD_BACK_QUEUE_TOTAL[x] = Rooms
      /\ DOMAIN forwarded = Servers
      /\ \A x \in Servers : DOMAIN forwarded[x] = Rooms
  BY DEF Typed, TypeUpTo
<1>3. /\ Ready(A) \subseteq A /\ IsFiniteSet(Ready(A))
      /\ \A e \in Ready(A) : \E l \in Nat, c \in Servers, u \in Texts : e = Ordered(l, c, u)
  <2>1. Ready(A) \subseteq A
    BY DEF Ready
  <2>2. IsFiniteSet(A)
    BY QueueParts
  <2>3. \A e \in Ready(A) : \E l \in Nat, c \in Servers, u \in Texts : e = Ordered(l, c, u)
    BY QueueParts
  <2> QED
    BY <2>1, <2>2, <2>3, FS_Subset
<1>4. PICK n \in Nat : TypeUpTo(n)
  BY DEF Typed, Counted
<1>5. PICK a : a = forwarded[d][r] /\ a \in Seq(HeldUpTo(n))
  BY <1>4 DEF TypeUpTo
<1>6. /\ out \in Seq(Ready(A))
      /\ \A i, j \in 1..Len(out) : i < j => Before(out[i], out[j])
  BY <1>1, <1>3, KeyOrderLists
<1>7. /\ Len(a) \in Nat /\ Len(out) \in Nat /\ Len(a \o out) = Len(a) + Len(out)
      /\ \A i \in 1..Len(a) : (a \o out)[i] = a[i]
      /\ \A i \in 1..(Len(a) + Len(out)) : i > Len(a) =>
            /\ i - Len(a) \in 1..Len(out)
            /\ (a \o out)[i] = out[i - Len(a)]
            /\ out[i - Len(a)] \in Ready(A)
  <2>1. /\ Len(a) \in Nat /\ Len(out) \in Nat /\ Len(a \o out) = Len(a) + Len(out)
        /\ \A i \in 1..Len(a) : (a \o out)[i] = a[i]
        /\ \A h \in 1..Len(out) : (a \o out)[Len(a) + h] = out[h] /\ out[h] \in Ready(A)
    BY <1>5, <1>6
  <2>2. ASSUME NEW i \in 1..(Len(a) + Len(out)), i > Len(a)
        PROVE  /\ i - Len(a) \in 1..Len(out)
               /\ (a \o out)[i] = out[i - Len(a)]
               /\ out[i - Len(a)] \in Ready(A)
    <3>1. i - Len(a) \in 1..Len(out) /\ i = Len(a) + (i - Len(a))
      BY <2>1, <2>2
    <3> QED
      BY <2>1, <3>1
  <2> QED
    BY <2>1, <2>2
<1>8. \A i \in 1..Len(a), e \in Ready(A) : Before(a[i], e)
  <2> SUFFICES ASSUME NEW i \in 1..Len(a), NEW e \in Ready(A) PROVE Before(a[i], e)
    OBVIOUS
  <2>1. PICK j \in Nat, f \in Servers, v \in Texts : a[i] = Ordered(j, f, v)
    <3>1. \A h \in 1..Len(forwarded[d][r]) :
             \E j \in Nat, f \in Servers, v \in Texts : forwarded[d][r][h] = Ordered(j, f, v)
      BY DEF Forms
    <3> QED
      BY <1>5, <3>1
  <2>2. PICK l \in Nat, c \in Servers, u \in Texts : e = Ordered(l, c, u)
    BY <1>3
  <2>3. Logged(d, r, j, f, v)
    BY <1>5, <2>1 DEF Logged
  <2>4. Earlier(j, f, l, c)
    <3>1. Holds(d, r, l, c, u) \/ (l = k /\ c = b /\ u = t)
      BY <1>3, <2>2, QueueParts
    <3>2. CASE Holds(d, r, l, c, u)
      BY <1>1, <2>3, <3>2 DEF LogFirst
    <3>3. CASE l = k
      <4>1. j < w
        BY <1>1, <2>3 DEF LogFirst
      <4>2. w <= k
        BY <1>1 DEF Expected, Agreed
      <4> QED
        BY <3>3, <4>1, <4>2 DEF Earlier
    <3> QED
      BY <3>1, <3>2, <3>3
  <2> QED
    BY <2>1, <2>2, <2>4 DEF Before, Earlier, Ordered
<1>9. \A i, j \in 1..Len(a \o out) : i < j => Before((a \o out)[i], (a \o out)[j])
  <2> SUFFICES ASSUME NEW i \in 1..Len(a \o out), NEW j \in 1..Len(a \o out), i < j
               PROVE  Before((a \o out)[i], (a \o out)[j])
    OBVIOUS
  <2>1. i \in 1..(Len(a) + Len(out)) /\ j \in 1..(Len(a) + Len(out))
    BY <1>7
  <2>2. CASE j <= Len(a)
    <3>1. i \in 1..Len(a) /\ j \in 1..Len(a)
      BY <1>7, <2>2
    <3>2. Before(a[i], a[j])
      BY <1>5, <3>1 DEF LogOrdered
    <3> QED
      BY <1>7, <3>1, <3>2
  <2>3. CASE i <= Len(a) /\ j > Len(a)
    <3>1. i \in 1..Len(a)
      BY <1>7, <2>3
    <3> QED
      BY <1>7, <1>8, <2>1, <2>3, <3>1
  <2>4. CASE i > Len(a)
    <3>1. j > Len(a) /\ i - Len(a) < j - Len(a)
      BY <1>7, <2>4
    <3> QED
      BY <1>6, <1>7, <2>1, <2>4, <3>1
  <2> QED
    BY <1>7, <2>2, <2>3, <2>4
<1>10. ASSUME forwarded' = [forwarded EXCEPT ![d][r] = forwarded[d][r] \o out]
       PROVE  /\ LogOrdered'
              /\ \A x \in Servers, q \in Rooms : \A i \in 1..Len(forwarded'[x][q]) :
                   \E l \in Nat, c \in Servers, u \in Texts : forwarded'[x][q][i] = Ordered(l, c, u)
  <2>1. \A x \in Servers, q \in Rooms :
           forwarded'[x][q] = IF x = d /\ q = r THEN a \o out ELSE forwarded[x][q]
    BY <1>2, <1>5, <1>10, Update2
  <2>2. LogOrdered'
    <3> SUFFICES ASSUME NEW x \in Servers, NEW q \in Rooms, NEW i \in Nat, NEW j \in Nat,
                        i \in 1..Len(forwarded'[x][q]), j \in 1..Len(forwarded'[x][q]), i < j
                 PROVE  Before(forwarded'[x][q][i], forwarded'[x][q][j])
      BY DEF LogOrdered, Before
    <3>1. CASE x = d /\ q = r
      BY <1>9, <2>1, <3>1
    <3>2. CASE ~ (x = d /\ q = r)
      BY <2>1, <3>2 DEF LogOrdered
    <3> QED
      BY <3>1, <3>2
  <2>3. \A x \in Servers, q \in Rooms : \A i \in 1..Len(forwarded'[x][q]) :
           \E l \in Nat, c \in Servers, u \in Texts : forwarded'[x][q][i] = Ordered(l, c, u)
    <3> TAKE x \in Servers, q \in Rooms
    <3> TAKE i \in 1..Len(forwarded'[x][q])
    <3>1. CASE x = d /\ q = r
      <4>1. i \in 1..(Len(a) + Len(out)) /\ forwarded'[x][q][i] = (a \o out)[i]
        BY <1>7, <2>1, <3>1
      <4>2. CASE i <= Len(a)
        <5>1. i \in 1..Len(a) /\ (a \o out)[i] = a[i]
          BY <1>7, <4>1, <4>2
        <5> QED
          BY <1>5, <4>1, <5>1 DEF Forms
      <4>3. CASE i > Len(a)
        <5>1. (a \o out)[i] \in Ready(A)
          BY <1>7, <4>1, <4>3
        <5> QED
          BY <1>3, <4>1, <5>1
      <4> QED
        <5>1. i \in Nat /\ Len(a) \in Nat
          BY <1>7, <4>1
        <5> QED
          BY <4>2, <4>3, <5>1
    <3>2. CASE ~ (x = d /\ q = r)
      <4>1. forwarded'[x][q] = forwarded[x][q]
        BY <2>1, <3>2
      <4> QED
        BY <4>1 DEF Forms
    <3> QED
      BY <3>1, <3>2
  <2> QED
    BY <2>2, <2>3
<1>11. LogOrdered'
  <2>1. CASE forwarded' = forwarded
    BY <2>1 DEF LogOrdered
  <2> QED
    BY <1>1, <1>10, <2>1
<1>12. \A x \in Servers, q \in Rooms : \A i \in 1..Len(forwarded'[x][q]) :
           \E l \in Nat, c \in Servers, u \in Texts : forwarded'[x][q][i] = Ordered(l, c, u)
  <2>1. CASE forwarded' = forwarded
    BY <2>1 DEF Forms
  <2> QED
    BY <1>1, <1>10, <2>1
<1>13. \A x \in Servers, q \in Rooms : \A e \in HOLD_BACK_QUEUE_TOTAL'[x][q] :
         \/ \E l \in Nat, u \in Texts : e = Waiting(l, u)
         \/ \E l \in Nat, c \in Servers, u \in Texts : e = Ordered(l, c, u)
  <2>1. \A x \in Servers, q \in Rooms : HOLD_BACK_QUEUE_TOTAL'[x][q] =
           IF x = d /\ q = r THEN A \ Ready(A) ELSE HOLD_BACK_QUEUE_TOTAL[x][q]
    BY <1>1, <1>2, Update2
  <2>2. \A e \in A : \/ \E l \in Nat, u \in Texts : e = Waiting(l, u)
                     \/ \E l \in Nat, c \in Servers, u \in Texts : e = Ordered(l, c, u)
    BY QueueParts
  <2>3. \A x \in Servers, q \in Rooms : \A e \in HOLD_BACK_QUEUE_TOTAL[x][q] :
         \/ \E l \in Nat, u \in Texts : e = Waiting(l, u)
         \/ \E l \in Nat, c \in Servers, u \in Texts : e = Ordered(l, c, u)
    BY DEF Forms
  <2> QED
    BY <2>1, <2>2, <2>3
<1>14. Forms'
  BY <1>12, <1>13 DEF Forms
<1> QED
  BY <1>11, <1>14

LEMMA OrderAgreement ==
    ASSUME Typed, OrderInv, NEW m \in net, m.type = "AGREEMENT", HandleAgreement(m)
    PROVE  OrderInv'
<1>1. PICK d, b \in Servers, r \in Rooms, t \in Texts, k, w \in Nat :
         \E A, out : QueueOrdered(d, r, t, k, b, w, A, out)
  BY AgreementSteps
<1>2. PICK A, out : QueueOrdered(d, r, t, k, b, w, A, out)
  BY <1>1
<1> USE DEF OrderInv
<1>3. /\ Announced(d, r, t, k, b) /\ up[d] /\ Waits(d, r, w, t)
      /\ UNCHANGED <<PROPOSED, proposals, posted>>
  BY <1>2 DEF QueueOrdered
<1>4. StagesMove(d, r, t, k, b, A)
  BY <1>2, QueueStages
<1>5. \A x, c \in Servers, q \in Rooms, u \in Texts, l \in Nat :
         /\ InFlight(x, q, u, l, c)' <=> InFlight(x, q, u, l, c)
         /\ Announced(x, q, u, l, c)' <=>
              Announced(x, q, u, l, c) /\ ~ (x = d /\ q = r /\ u = t /\ l = k /\ c = b)
  BY <1>4 DEF StagesMove
<1>6. \A a, x \in Servers, q \in Rooms, u \in Texts, p \in Nat :
         Coming(a, x, q, u, p)' <=> Coming(a, x, q, u, p)
  BY <1>4 DEF StagesMove
<1>7. \A x \in Servers, q \in Rooms :
         AGREED'[x][q] = IF x = d /\ q = r THEN Larger(AGREED[x][q], k) ELSE AGREED[x][q]
  BY <1>4 DEF StagesMove
<1>8. \A x \in Servers, q \in Rooms, u \in Texts, l \in Nat :
         Waits(x, q, l, u)' <=> Waits(x, q, l, u) /\ ~ (x = d /\ q = r /\ u = t)
  BY <1>4 DEF StagesMove
<1>9. \A x \in Servers, q \in Rooms, u \in Texts, l \in Nat, c \in Servers :
         Holds(x, q, l, c, u)' <=>
           IF x = d /\ q = r THEN Ordered(l, c, u) \in A \ Ready(A)
                             ELSE Holds(x, q, l, c, u)
  BY <1>4 DEF StagesMove
<1>10. \/ \A x \in Servers, q \in Rooms, u \in Texts, l \in Nat, c \in Servers :
            Logged(x, q, l, c, u)' <=>
              \/ Logged(x, q, l, c, u)
              \/ x = d /\ q = r /\ Ordered(l, c, u) \in Ready(A)
       \/ /\ ~ up'[d]
          /\ \A x \in Servers, q \in Rooms, u \in Texts, l \in Nat, c \in Servers :
               Logged(x, q, l, c, u)' <=> Logged(x, q, l, c, u)
  BY <1>4 DEF StagesMove
<1>11. \A x \in Servers : up'[x] = up[x] \/ (x = d /\ ~ up'[x])
  BY <1>4 DEF StagesMove
<1>12. \A l \in Nat, c \in Servers, u \in Texts :
         /\ Ordered(l, c, u) \in A <=> Holds(d, r, l, c, u) \/ (l = k /\ c = b /\ u = t)
         /\ Ordered(l, c, u) \in Ready(A) => Ordered(l, c, u) \in A
  BY <1>2, QueueParts DEF Ready
<1>13. \A l \in Nat, c \in Servers, u \in Texts : Ordered(l, c, u) \in Ready(A) =>
         /\ \A j \in Nat, v \in Texts : Waits(d, r, j, v) /\ v # t => l < j
         /\ \A j \in Nat, e \in Servers, v \in Texts :
              Ordered(j, e, v) \in A \ Ready(A) => Earlier(l, c, j, e)
  BY <1>2, QueueHead
<1>14. LogOrdered' /\ Forms'
  BY <1>2, QueueLogs
(* What follows. *)
<1>15. /\ \A a, c \in Servers, q \in Rooms, u \in Texts, l \in Nat :
            Got(a, q, u, l, c)' <=> Got(a, q, u, l, c)
       /\ \A q \in Rooms, u \in Texts : PostedIn(q, u)' <=> PostedIn(q, u)
  BY <1>3 DEF Got, PostedIn
<1>16. \A c \in Servers, q \in Rooms, u \in Texts, l \in Nat :
         Proposes(c, q, l, u)' <=> Proposes(c, q, l, u)
  BY <1>5, <1>15 DEF Proposes
<1>17. /\ Agreed(r, k, b, t)
       /\ \A c \in Servers, u \in Texts, l \in Nat :
            Holds(d, r, l, c, u) \/ (l = k /\ c = b /\ u = t) => Agreed(r, l, c, u)
  BY <1>3 DEF Agreed
<1>18. \A c \in Servers, q \in Rooms, u \in Texts, l \in Nat :
         Agreed(q, l, c, u)' => Agreed(q, l, c, u)
  <2> SUFFICES ASSUME NEW c \in Servers, NEW q \in Rooms, NEW u \in Texts, NEW l \in Nat,
                      NEW x \in Servers,
                      \/ Announced(x, q, u, l, c)' \/ Holds(x, q, l, c, u)'
                      \/ Logged(x, q, l, c, u)'
               PROVE  Agreed(q, l, c, u)
    BY DEF Agreed
  <2>1. CASE Announced(x, q, u, l, c)'
    BY <1>5, <2>1 DEF Agreed
  <2>2. CASE Holds(x, q, l, c, u)'
    <3>1. CASE x = d /\ q = r
      BY <1>9, <1>12, <1>17, <2>2, <3>1
    <3>2. CASE ~ (x = d /\ q = r)
      BY <1>9, <2>2, <3>2 DEF Agreed
    <3> QED
      BY <3>1, <3>2
  <2>3. CASE Logged(x, q, l, c, u)'
    <3>1. Logged(x, q, l, c, u) \/ (x = d /\ q = r /\ Ordered(l, c, u) \in Ready(A))
      BY <1>10, <2>3
    <3>2. CASE Logged(x, q, l, c, u)
      BY <3>2 DEF Agreed
    <3>3. CASE x = d /\ q = r /\ Ordered(l, c, u) \in Ready(A)
      BY <1>12, <1>17, <3>3
    <3> QED
      BY <3>1, <3>2, <3>3
  <2> QED
    BY <2>1, <2>2, <2>3
<1>19. \A c \in Servers, q \in Rooms, u \in Texts, l \in Nat :
         Numbered(c, q, l, u)' => Numbered(c, q, l, u)
  BY <1>8, <1>16, <1>18 DEF Numbered
<1>20. \A a \in Servers, u \in Texts : Home(a, u)' <=> Home(a, u)
  BY <1>5, <1>6, <1>15 DEF Home
(* All that d holds or is told of comes after its log. *)
<1>21. \A l \in Nat, c \in Servers, u \in Texts : Logged(d, r, l, c, u) => Earlier(l, c, k, b)
  <2> SUFFICES ASSUME NEW l \in Nat, NEW c \in Servers, NEW u \in Texts, Logged(d, r, l, c, u)
               PROVE  Earlier(l, c, k, b)
    OBVIOUS
  <2>1. l < w
    BY <1>3 DEF LogFirst
  <2>2. w <= k
    BY <1>3, <1>17 DEF Expected
  <2> QED
    BY <2>1, <2>2 DEF Earlier
<1>22. OneRoom'
  BY <1>6, <1>15, <1>19 DEF OneRoom
<1>23. OneEntry'
  <2>1. \A l \in Nat, c \in Servers : ~ Holds(d, r, l, c, t)
    BY <1>3 DEF OneEntry
  <2>2. \A x \in Servers, q \in Rooms, u \in Texts, l \in Nat, c \in Servers :
           Holds(x, q, l, c, u)' =>
             \/ Holds(x, q, l, c, u) /\ ~ (x = d /\ q = r /\ u = t)
             \/ x = d /\ q = r /\ u = t /\ l = k /\ c = b
    BY <1>9, <1>12, <2>1
  <2> QED
    BY <1>8, <2>2 DEF OneEntry
<1>24. OneText'
  BY <1>3, <1>19 DEF OneText
<1>25. OneKey'
  BY <1>18 DEF OneKey
<1>26. OneHome'
  BY <1>20 DEF OneHome
<1>27. NewFirst'
  BY <1>6, <1>8, <1>16, <1>18 DEF NewFirst
<1>28. OneOffer'
  <2> SUFFICES ASSUME NEW x \in Servers, NEW q \in Rooms, NEW u \in Texts, NEW l \in Nat,
                      Proposes(x, q, l, u)'
               PROVE  /\ \A i \in Nat : Proposes(x, q, i, u)' => l = i
                      /\ \A a, e \in Servers : ~ (InFlight(a, q, u, l, x)' /\ Got(e, q, u, l, x)')
                      /\ \A i \in Nat, e \in Servers : ~ Agreed(q, i, e, u)'
                      /\ up'[x] => Waits(x, q, l, u)'
                      /\ \A i \in Nat, e \in Servers, v \in Texts : Logged(x, q, i, e, v)' => i < l
    BY DEF OneOffer
  <2>1. Proposes(x, q, l, u)
    BY <1>16
  <2>2. ~ (q = r /\ u = t)
    BY <1>17, <2>1 DEF OneOffer
  <2>3. \A i \in Nat : Proposes(x, q, i, u)' => l = i
    BY <1>16, <2>1 DEF OneOffer
  <2>4. \A a, e \in Servers : ~ (InFlight(a, q, u, l, x)' /\ Got(e, q, u, l, x)')
    BY <1>5, <1>15, <2>1 DEF OneOffer
  <2>5. \A i \in Nat, e \in Servers : ~ Agreed(q, i, e, u)'
    BY <1>18, <2>1 DEF OneOffer
  <2>6. up'[x] => Waits(x, q, l, u)'
    BY <1>8, <1>11, <2>1, <2>2 DEF OneOffer
  <2>7. \A i \in Nat, e \in Servers, v \in Texts : Logged(x, q, i, e, v)' => i < l
    <3> SUFFICES ASSUME NEW i \in Nat, NEW e \in Servers, NEW v \in Texts, Logged(x, q, i, e, v)'
                 PROVE  i < l
      OBVIOUS
    <3>1. Logged(x, q, i, e, v) \/ (x = d /\ q = r /\ Ordered(i, e, v) \in Ready(A))
      BY <1>10
    <3>2. CASE Logged(x, q, i, e, v)
      BY <2>1, <3>2 DEF OneOffer
    <3>3. CASE x = d /\ q = r /\ Ordered(i, e, v) \in Ready(A)
      <4>1. Waits(d, r, l, u) /\ u # t
        BY <1>3, <2>1, <2>2, <3>3 DEF OneOffer
      <4> QED
        BY <1>13, <3>3, <4>1
    <3> QED
      BY <3>1, <3>2, <3>3
  <2> QED
    BY <2>3, <2>4, <2>5, <2>6, <2>7
<1>29. Expected'
  <2> SUFFICES ASSUME NEW x \in Servers, NEW q \in Rooms, NEW u \in Texts, NEW i \in Nat,
                      NEW e \in Servers, up'[x]
               PROVE  /\ Announced(x, q, u, i, e)' => \E l \in Nat : Waits(x, q, l, u)'
                      /\ Agreed(q, i, e, u)' => \A l \in Nat : Waits(x, q, l, u)' => l <= i
    BY DEF Expected
  <2>1. up[x]
    BY <1>3, <1>11
  <2>2. ASSUME Announced(x, q, u, i, e)'
        PROVE  \E l \in Nat : Waits(x, q, l, u)'
    <3>1. Announced(x, q, u, i, e) /\ ~ (x = d /\ q = r /\ u = t /\ i = k /\ e = b)
      BY <1>5, <2>2
    <3>2. ~ (x = d /\ q = r /\ u = t)
      <4>1. Agreed(q, i, e, u)
        BY <3>1 DEF Agreed
      <4> QED
        BY <1>17, <3>1, <4>1 DEF OneKey
    <3>3. PICK l \in Nat : Waits(x, q, l, u)
      BY <2>1, <3>1 DEF Expected
    <3> QED
      BY <1>8, <3>2, <3>3
  <2>3. Agreed(q, i, e, u)' => \A l \in Nat : Waits(x, q, l, u)' => l <= i
    BY <1>8, <1>18, <2>1 DEF Expected
  <2> QED
    BY <2>2, <2>3
<1>30. Everywhere'
  <2> SUFFICES ASSUME NEW q \in Rooms, NEW i \in Nat, NEW e \in Servers, NEW u \in Texts,
                      NEW x \in Servers, Agreed(q, i, e, u)'
               PROVE  \/ Logged(x, q, i, e, u)'
                      \/ up'[x] /\ (Holds(x, q, i, e, u)' \/ Announced(x, q, u, i, e)')
                      \/ /\ ~ up'[x]
                         /\ \A l \in Nat, f \in Servers, v \in Texts :
                               Logged(x, q, l, f, v)' => Earlier(l, f, i, e)
    BY DEF Everywhere, Earlier
  <2>1. Agreed(q, i, e, u)
    BY <1>18
  <2>2. CASE x # d
    <3>1. /\ up'[x] = up[x]
          /\ Holds(x, q, i, e, u)' <=> Holds(x, q, i, e, u)
          /\ Announced(x, q, u, i, e)' <=> Announced(x, q, u, i, e)
          /\ \A l \in Nat, f \in Servers, v \in Texts :
                Logged(x, q, l, f, v)' <=> Logged(x, q, l, f, v)
      BY <1>5, <1>9, <1>10, <1>11, <2>2
    <3> QED
      BY <2>1, <3>1 DEF Everywhere
  <2>3. CASE x = d /\ q # r
    <3>1. /\ Holds(x, q, i, e, u)' <=> Holds(x, q, i, e, u)
          /\ Announced(x, q, u, i, e)' <=> Announced(x, q, u, i, e)
          /\ \A l \in Nat, f \in Servers, v \in Texts :
                Logged(x, q, l, f, v)' <=> Logged(x, q, l, f, v)
      BY <1>5, <1>9, <1>10, <2>3
    <3>2. \/ Logged(x, q, i, e, u)
          \/ Holds(x, q, i, e, u)
          \/ Announced(x, q, u, i, e)
      BY <1>3, <2>1, <2>3 DEF Everywhere
    <3>3. CASE Logged(x, q, i, e, u)
      BY <3>1, <3>3
    <3>4. CASE Holds(x, q, i, e, u) \/ Announced(x, q, u, i, e)
      <4>1. \A l \in Nat, f \in Servers, v \in Texts : Logged(x, q, l, f, v) => Earlier(l, f, i, e)
        <5>1. CASE Holds(x, q, i, e, u)
          BY <1>3, <2>3, <5>1 DEF LogFirst
        <5>2. CASE Announced(x, q, u, i, e)
          <6>1. PICK l \in Nat : Waits(x, q, l, u)
            BY <1>3, <2>3, <5>2 DEF Expected
          <6>2. l <= i
            BY <1>3, <2>1, <2>3, <6>1 DEF Expected
          <6>3. \A h \in Nat, f \in Servers, v \in Texts : Logged(x, q, h, f, v) => h < l
            BY <1>3, <2>3, <6>1 DEF LogFirst
          <6> QED
            BY <6>2, <6>3 DEF Earlier
        <5> QED
          BY <3>4, <5>1, <5>2
      <4>2. up'[x] \/ ~ up'[x]
        OBVIOUS
      <4> QED
        BY <3>1, <3>4, <4>1, <4>2
    <3> QED
      BY <3>2, <3>3, <3>4
  <2>4. CASE x = d /\ q = r
    <3>1. \/ Logged(d, r, i, e, u)
          \/ Holds(d, r, i, e, u)
          \/ Announced(d, r, u, i, e)
      BY <1>3, <2>1, <2>4 DEF Everywhere
    <3>2. CASE Logged(d, r, i, e, u)
      BY <1>10, <2>4, <3>2
    <3>3. CASE Ordered(i, e, u) \in A
      <4>1. \A l \in Nat, f \in Servers, v \in Texts : Logged(d, r, l, f, v) => Earlier(l, f, i, e)
        <5>1. CASE Holds(d, r, i, e, u)
          BY <1>3, <5>1 DEF LogFirst
        <5>2. CASE i = k /\ e = b
          BY <1>21, <5>2
        <5> QED
          BY <1>12, <3>3, <5>1, <5>2
      <4>2. CASE ~ up'[d] /\ \A l \in Nat, f \in Servers, v \in Texts :
                                Logged(d, r, l, f, v)' <=> Logged(d, r, l, f, v)
        BY <2>4, <4>1, <4>2
      <4>3. CASE /\ Ordered(i, e, u) \in Ready(A)
                 /\ \A l \in Nat, f \in Servers, v \in Texts : Logged(d, r, l, f, v)' <=>
                      Logged(d, r, l, f, v) \/ Ordered(l, f, v) \in Ready(A)
        BY <2>4, <4>3
      <4>4. CASE /\ Ordered(i, e, u) \notin Ready(A)
                 /\ \A l \in Nat, f \in Servers, v \in Texts : Logged(d, r, l, f, v)' <=>
                      Logged(d, r, l, f, v) \/ Ordered(l, f, v) \in Ready(A)
        <5>1. Holds(d, r, i, e, u)'
          BY <1>9, <3>3, <4>4
        <5>2. \A l \in Nat, f \in Servers, v \in Texts : Logged(d, r, l, f, v)'
                    => Earlier(l, f, i, e)
          BY <1>13, <3>3, <4>1, <4>4
        <5>3. up'[d] \/ ~ up'[d]
          OBVIOUS
        <5> QED
          BY <2>4, <5>1, <5>2, <5>3
      <4> QED
        BY <1>10, <4>2, <4>3, <4>4
    <3>4. CASE Announced(d, r, u, i, e) /\ u # t
      <4>1. PICK l \in Nat : Waits(d, r, l, u)
        BY <1>3, <3>4 DEF Expected
      <4>2. l <= i
        BY <1>3, <2>1, <2>4, <4>1 DEF Expected
      <4>3. \A h \in Nat, f \in Servers, v \in Texts : Logged(d, r, h, f, v)' => h < l
        <5>1. \A h \in Nat, f \in Servers, v \in Texts : Logged(d, r, h, f, v) => h < l
          BY <1>3, <4>1 DEF LogFirst
        <5>2. \A h \in Nat, f \in Servers, v \in Texts : Ordered(h, f, v) \in Ready(A) => h < l
          BY <1>13, <3>4, <4>1
        <5> QED
          BY <1>10, <5>1, <5>2
      <4>4. \A h \in Nat, f \in Servers, v \in Texts : Logged(d, r, h, f, v)' => Earlier(h, f, i, e)
        BY <4>2, <4>3 DEF Earlier
      <4>5. Announced(d, r, u, i, e)'
        BY <1>5, <3>4
      <4>6. up'[d] \/ ~ up'[d]
        OBVIOUS
      <4> QED
        BY <2>4, <4>4, <4>5, <4>6
    <3>5. u = t => i = k /\ e = b
      BY <1>17, <2>1, <2>4 DEF OneKey
    <3>6. Holds(d, r, i, e, u) \/ u = t => Ordered(i, e, u) \in A
      BY <1>12, <3>5
    <3> QED
      BY <3>1, <3>2, <3>3, <3>4, <3>6
  <2> QED
    BY <2>2, <2>3, <2>4
<1>31. LogFirst'
  <2> SUFFICES ASSUME NEW x \in Servers, NEW q \in Rooms, NEW u \in Texts, NEW v \in Texts,
                      NEW i \in Nat, NEW l \in Nat, NEW e \in Servers, NEW f \in Servers
               PROVE  /\ Logged(x, q, i, e, u)' \/ Holds(x, q, i, e, u)' => i <= AGREED'[x][q]
                      /\ up'[x] /\ Logged(x, q, i, e, u)' =>
                           /\ Waits(x, q, l, v)' => i < l
                           /\ Holds(x, q, l, f, v)' => Earlier(i, e, l, f)
    BY DEF LogFirst, Earlier
  <2>1. CASE ~ (x = d /\ q = r)
    <3>1. /\ Logged(x, q, i, e, u)' <=> Logged(x, q, i, e, u)
          /\ Holds(x, q, i, e, u)' <=> Holds(x, q, i, e, u)
          /\ Holds(x, q, l, f, v)' <=> Holds(x, q, l, f, v)
          /\ Waits(x, q, l, v)' <=> Waits(x, q, l, v)
          /\ AGREED'[x][q] = AGREED[x][q]
      BY <1>7, <1>8, <1>9, <1>10, <2>1
    <3>2. up'[x] => up[x]
      BY <1>3, <1>11
    <3> QED
      BY <3>1, <3>2 DEF LogFirst
  <2>2. CASE x = d /\ q = r
    <3>1. \/ Logged(d, r, i, e, u)
          \/ Ordered(i, e, u) \in Ready(A)
          \/ ~ Logged(d, r, i, e, u)'
      BY <1>10
    <3>2. Logged(x, q, i, e, u)' \/ Holds(x, q, i, e, u)' =>
             \/ Logged(d, r, i, e, u) \/ Holds(d, r, i, e, u) \/ i = k
      BY <1>9, <1>10, <1>12, <2>2
    <3>3. Logged(x, q, i, e, u)' \/ Holds(x, q, i, e, u)' => i <= AGREED'[x][q]
      <4>1. AGREED[d][r] \in Nat /\ AGREED'[d][r] = Larger(AGREED[d][r], k)
        BY <1>7, StageTypes
      <4>2. AGREED[d][r] <= AGREED'[d][r] /\ k <= AGREED'[d][r] /\ AGREED'[d][r] \in Nat
        BY <4>1 DEF Larger
      <4>3. Logged(d, r, i, e, u) \/ Holds(d, r, i, e, u) => i <= AGREED[d][r]
        BY DEF LogFirst
      <4> QED
        BY <2>2, <3>2, <4>1, <4>2, <4>3
    <3>4. ASSUME Logged(d, r, i, e, u)', Waits(d, r, l, v)'
          PROVE  i < l
      <4>1. Waits(d, r, l, v) /\ v # t
        BY <1>8, <3>4
      <4>2. CASE Logged(d, r, i, e, u)
        BY <1>3, <4>1, <4>2 DEF LogFirst
      <4>3. CASE Ordered(i, e, u) \in Ready(A)
        BY <1>13, <4>1, <4>3
      <4> QED
        BY <3>1, <3>4, <4>2, <4>3
    <3>5. ASSUME Logged(d, r, i, e, u)', Holds(d, r, l, f, v)'
          PROVE  Earlier(i, e, l, f)
      <4>1. Ordered(l, f, v) \in A \ Ready(A)
        BY <1>9, <3>5
      <4>2. CASE Logged(d, r, i, e, u)
        <5>1. Holds(d, r, l, f, v) \/ (l = k /\ f = b)
          BY <1>12, <4>1
        <5>2. CASE Holds(d, r, l, f, v)
          BY <1>3, <4>2, <5>2 DEF LogFirst
        <5>3. CASE l = k /\ f = b
          BY <1>21, <4>2, <5>3
        <5> QED
          BY <5>1, <5>2, <5>3
      <4>3. CASE Ordered(i, e, u) \in Ready(A)
        BY <1>13, <4>1, <4>3
      <4> QED
        BY <3>1, <3>5, <4>2, <4>3
    <3> QED
      BY <2>2, <3>3, <3>4, <3>5
  <2> QED
    BY <2>1, <2>2
<1> QED
  BY <1>14, <1>31, <1>22, <1>23, <1>24, <1>25, <1>26, <1>27, <1>28, <1>29, <1>30

LEMMA OrderStep ==
    ASSUME Typed, OrderInv, ~ Repeats, [Next]_vars
    PROVE  OrderInv'
<1>1. CASE UNCHANGED vars
  <2>1. UNCHANGED <<net, PROPOSED, AGREED, HOLD_BACK_QUEUE_TOTAL, proposals, up, forwarded, posted>>
    BY <1>1 DEF vars
  <2>2. OneRoom' /\ OneHome'
    BY <2>1 DEF OrderInv, OneRoom, OneHome, Numbered, Agreed, Proposes, Home, PostedIn, Coming,
                InFlight, Got, Announced, Waits, Holds, Logged
  <2>3. OneEntry' /\ OneText' /\ OneKey'
    BY <2>1 DEF OrderInv, OneEntry, OneText, OneKey, Numbered, Agreed, Proposes, InFlight, Got,
                Announced, Waits, Holds, Logged
  <2>4. NewFirst' /\ OneOffer'
    BY <2>1 DEF OrderInv, NewFirst, OneOffer, Agreed, Proposes, Coming, InFlight, Got, Announced,
                Waits, Holds, Logged
  <2>5. Expected' /\ Everywhere'
    <3>1. \A d, b \in Servers, r \in Rooms, t \in Texts, k \in Nat :
             /\ Announced(d, r, t, k, b)' <=> Announced(d, r, t, k, b)
             /\ Logged(d, r, k, b, t)' <=> Logged(d, r, k, b, t)
             /\ Holds(d, r, k, b, t)' <=> Holds(d, r, k, b, t)
             /\ Waits(d, r, k, t)' <=> Waits(d, r, k, t)
      BY <2>1 DEF Announced, Logged, Holds, Waits
    <3>2. \A b \in Servers, r \in Rooms, t \in Texts, k \in Nat :
             Agreed(r, k, b, t)' <=> Agreed(r, k, b, t)
      BY <3>1 DEF Agreed
    <3>3. Expected'
      BY <2>1, <3>1, <3>2 DEF OrderInv, Expected
    <3>4. Everywhere'
      BY <2>1, <3>1, <3>2 DEF OrderInv, Everywhere, Earlier
    <3> QED
      BY <3>3, <3>4
  <2>6. LogFirst' /\ LogOrdered' /\ Forms'
    BY <2>1, LogFrame DEF OrderInv
  <2> QED
    BY <2>2, <2>3, <2>4, <2>5, <2>6 DEF OrderInv
<1>2. ASSUME NEW s \in Servers, NEW r \in Rooms, NEW t \in Texts, Post(s, r, t)
      PROVE  OrderInv'
  BY <1>2, OrderPost
<1>3. ASSUME NEW m \in net, handle_total_order(m)
      PROVE  OrderInv'
  BY <1>3, OrderNew, OrderProposal, OrderAgreement DEF handle_total_order
<1> QED
  BY <1>1, <1>2, <1>3 DEF Next

LEMMA AlwaysInOrder == ASSUME ~ Repeats PROVE Spec => [](Typed /\ OrderInv)
<1>1. Init => Typed /\ OrderInv
  BY TypedInit, OrderInit
<1>2. Typed /\ OrderInv /\ [Next]_vars => (Typed /\ OrderInv)'
  BY TypedStep, OrderStep
<1> QED
  BY <1>1, <1>2, PTL DEF Spec

(* ChatTotal, in a chat in which no text is posted twice: a server         *)
(* forwards in the order of the agreed keys, and holds nothing that comes  *)
(* before what it has forwarded (handle_total_order).                      *)
THEOREM AgreedOrderHolds == ASSUME ~ Repeats PROVE Spec => []AgreedOrder
<1>1. OrderInv => AgreedOrder
  <2> SUFFICES ASSUME OrderInv, NEW s \in Servers, NEW r \in Rooms
               PROVE  /\ \A i, j \in 1..Len(forwarded[s][r]) :
                           i < j => Before(forwarded[s][r][i], forwarded[s][r][j])
                      /\ up[s] => \A e \in HOLD_BACK_QUEUE_TOTAL[s][r] :
                            \A i \in 1..Len(forwarded[s][r]) : Before(forwarded[s][r][i], e)
    BY DEF AgreedOrder
  <2>1. \A i, j \in 1..Len(forwarded[s][r]) :
           i < j => Before(forwarded[s][r][i], forwarded[s][r][j])
    BY DEF OrderInv, LogOrdered
  <2>2. ASSUME up[s], NEW e \in HOLD_BACK_QUEUE_TOTAL[s][r], NEW i \in 1..Len(forwarded[s][r])
        PROVE  Before(forwarded[s][r][i], e)
    <3>1. PICK k \in Nat, b \in Servers, t \in Texts : forwarded[s][r][i] = Ordered(k, b, t)
      BY DEF OrderInv, Forms
    <3>2. Logged(s, r, k, b, t)
      BY <3>1 DEF Logged
    <3>3. CASE \E l \in Nat, u \in Texts : e = Waiting(l, u)
      <4>1. PICK l \in Nat, u \in Texts : e = Waiting(l, u)
        BY <3>3
      <4>2. k < l
        BY <2>2, <3>2, <4>1 DEF OrderInv, LogFirst, Waits
      <4> QED
        BY <3>1, <4>1, <4>2 DEF Before, Ordered, Waiting
    <3>4. CASE \E l \in Nat, c \in Servers, u \in Texts : e = Ordered(l, c, u)
      <4>1. PICK l \in Nat, c \in Servers, u \in Texts : e = Ordered(l, c, u)
        BY <3>4
      <4>2. Earlier(k, b, l, c)
        BY <2>2, <3>2, <4>1 DEF OrderInv, LogFirst, Holds
      <4> QED
        BY <3>1, <4>1, <4>2 DEF Before, Ordered, Earlier
    <3> QED
      BY <3>3, <3>4 DEF OrderInv, Forms
  <2> QED
    BY <2>1, <2>2
<1> QED
  BY <1>1, AlwaysInOrder, PTL

(* A server that has logged a text has logged all that comes before it.    *)
LEMMA NothingMissed ==
    ASSUME OrderInv, NEW d \in Servers, NEW e \in Servers, NEW r \in Rooms,
           NEW k \in Nat, NEW b \in Servers, NEW t \in Texts, Logged(d, r, k, b, t),
           NEW l \in Nat, NEW c \in Servers, NEW u \in Texts, Logged(e, r, l, c, u),
           Earlier(k, b, l, c)
    PROVE  Logged(e, r, k, b, t)
<1> USE DEF OrderInv
<1>1. Agreed(r, k, b, t)
  BY DEF Agreed
<1>2. ~ Earlier(l, c, k, b)
  BY DEF Earlier, Servers
<1>3. ~ (up[e] /\ Holds(e, r, k, b, t))
  BY <1>2 DEF LogFirst
<1>4. ~ (up[e] /\ Announced(e, r, t, k, b))
  <2> SUFFICES ASSUME up[e], Announced(e, r, t, k, b) PROVE FALSE
    OBVIOUS
  <2>1. PICK w \in Nat : Waits(e, r, w, t)
    BY DEF Expected
  <2>2. w <= k
    BY <1>1, <2>1 DEF Expected
  <2>3. l < w
    BY <2>1 DEF LogFirst
  <2> QED
    BY <1>2, <2>2, <2>3 DEF Earlier
<1> QED
  BY <1>1, <1>2, <1>3, <1>4 DEF Everywhere

(* Two logs agree wherever they both reach.                                *)
LEMMA LogsAgree ==
    ASSUME Typed, OrderInv, NEW d \in Servers, NEW e \in Servers, NEW r \in Rooms
    PROVE  \A i \in 1..Len(forwarded[d][r]) :
              i <= Len(forwarded[e][r]) => forwarded[d][r][i] = forwarded[e][r][i]
<1> USE DEF OrderInv
<1>1. PICK n \in Nat : TypeUpTo(n)
  BY DEF Typed, Counted
<1>2. PICK L : L = forwarded[d][r] /\ L \in Seq(HeldUpTo(n))
  BY <1>1 DEF TypeUpTo
<1>3. PICK M : M = forwarded[e][r] /\ M \in Seq(HeldUpTo(n))
  BY <1>1 DEF TypeUpTo
<1>4. Len(L) \in Nat /\ Len(M) \in Nat
  BY <1>2, <1>3
<1> DEFINE T == {i \in 1..Len(L) : i <= Len(M) /\ L[i] # M[i]}
<1> SUFFICES ASSUME T # {} PROVE FALSE
  BY <1>2, <1>3
<1>5. T \subseteq Nat
  BY <1>4
<1>6. PICK i \in T : \A j \in T : i <= j
  BY <1>5, LeastNatural
<1>7. i \in 1..Len(L) /\ i \in 1..Len(M) /\ i \in Nat /\ L[i] # M[i]
  BY <1>4
<1>8. \A j \in Nat : j \in 1..Len(L) /\ j \in 1..Len(M) /\ j < i => L[j] = M[j]
  <2> TAKE j \in Nat
  <2> HAVE j \in 1..Len(L) /\ j \in 1..Len(M) /\ j < i
  <2> SUFFICES ASSUME L[j] # M[j] PROVE FALSE
    OBVIOUS
  <2>1. j \in T
    BY <1>4
  <2>2. i <= j
    BY <1>6, <2>1
  <2> QED
    BY <1>7, <2>2
<1> HIDE DEF T
<1>9. PICK k \in Nat, b \in Servers, t \in Texts : L[i] = Ordered(k, b, t)
  BY <1>2, <1>7 DEF Forms
<1>10. PICK l \in Nat, c \in Servers, u \in Texts : M[i] = Ordered(l, c, u)
  BY <1>3, <1>7 DEF Forms
<1>11. Logged(d, r, k, b, t) /\ Logged(e, r, l, c, u)
  BY <1>2, <1>3, <1>7, <1>9, <1>10 DEF Logged
<1>12. \A j, h \in Nat : /\ j \in 1..Len(L) /\ h \in 1..Len(L) /\ j < h => Before(L[j], L[h])
                         /\ j \in 1..Len(M) /\ h \in 1..Len(M) /\ j < h => Before(M[j], M[h])
  BY <1>2, <1>3 DEF LogOrdered
<1>13. \A x, y \in Nat, f, g \in Servers, v, z \in Texts :
          Before(Ordered(x, f, v), Ordered(y, g, z)) <=> Earlier(x, f, y, g)
  BY DEF Before, Ordered, Earlier
<1>14. \A x, y \in Nat, f, g \in Servers : ~ (Earlier(x, f, y, g) /\ Earlier(y, g, x, f))
  BY DEF Earlier, Servers
<1>15. ~ Earlier(k, b, l, c)
  <2> SUFFICES ASSUME Earlier(k, b, l, c) PROVE FALSE
    OBVIOUS
  <2>1. Logged(e, r, k, b, t)
    BY <1>11, NothingMissed
  <2>2. PICK j \in 1..Len(M) : M[j] = Ordered(k, b, t)
    BY <1>3, <2>1 DEF Logged
  <2>3. j \in Nat
    BY <1>4
  <2>4. ~ (i < j)
    <3> SUFFICES ASSUME i < j PROVE FALSE
      OBVIOUS
    <3>1. Before(M[i], M[j])
      BY <1>7, <1>12, <2>3
    <3>2. Earlier(l, c, k, b)
      BY <1>10, <1>13, <2>2, <3>1
    <3> QED
      BY <1>14, <3>2
  <2>5. j # i
    BY <1>7, <1>9, <2>2
  <2>6. j < i /\ j \in 1..Len(L)
    BY <1>4, <1>7, <2>3, <2>4, <2>5
  <2>7. L[j] = L[i]
    BY <1>8, <1>9, <2>2, <2>3, <2>6
  <2>8. Before(L[j], L[i])
    BY <1>7, <1>12, <2>3, <2>6
  <2>9. Earlier(k, b, k, b)
    BY <1>9, <1>13, <2>7, <2>8
  <2> QED
    BY <1>14, <2>9
<1>16. ~ Earlier(l, c, k, b)
  <2> SUFFICES ASSUME Earlier(l, c, k, b) PROVE FALSE
    OBVIOUS
  <2>1. Logged(d, r, l, c, u)
    BY <1>11, NothingMissed
  <2>2. PICK j \in 1..Len(L) : L[j] = Ordered(l, c, u)
    BY <1>2, <2>1 DEF Logged
  <2>3. j \in Nat
    BY <1>4
  <2>4. ~ (i < j)
    <3> SUFFICES ASSUME i < j PROVE FALSE
      OBVIOUS
    <3>1. Before(L[i], L[j])
      BY <1>7, <1>12, <2>3
    <3>2. Earlier(k, b, l, c)
      BY <1>9, <1>13, <2>2, <3>1
    <3> QED
      BY <1>14, <3>2
  <2>5. j # i
    BY <1>7, <1>10, <2>2
  <2>6. j < i /\ j \in 1..Len(M)
    BY <1>4, <1>7, <2>3, <2>4, <2>5
  <2>7. M[j] = M[i]
    BY <1>8, <1>10, <2>2, <2>3, <2>6
  <2>8. Before(M[j], M[i])
    BY <1>7, <1>12, <2>3, <2>6
  <2>9. Earlier(l, c, l, c)
    BY <1>10, <1>13, <2>7, <2>8
  <2> QED
    BY <1>14, <2>9
<1>17. k = l /\ b = c
  BY <1>15, <1>16 DEF Earlier, Servers
<1>18. t = u
  <2>1. Numbered(b, r, k, t) /\ Numbered(b, r, k, u)
    BY <1>11, <1>17 DEF Numbered, Agreed
  <2> QED
    BY <2>1 DEF OneText
<1> QED
  BY <1>7, <1>9, <1>10, <1>17, <1>18

(* ChatTotal, in a chat in which no text is posted twice: any two servers  *)
(* forward the texts of a room in the same order.                          *)
THEOREM TotalOrderHolds == ASSUME ~ Repeats PROVE Spec => []TotalOrder
<1>1. Typed /\ OrderInv => TotalOrder
  <2> SUFFICES ASSUME Typed, OrderInv, NEW d \in Servers, NEW e \in Servers, NEW r \in Rooms
               PROVE  \/ IsPrefix(TextsOf(forwarded[d][r]), TextsOf(forwarded[e][r]))
                      \/ IsPrefix(TextsOf(forwarded[e][r]), TextsOf(forwarded[d][r]))
    BY DEF TotalOrder
  <2>1. PICK n \in Nat : TypeUpTo(n)
    BY DEF Typed, Counted
  <2>2. forwarded[d][r] \in Seq(HeldUpTo(n)) /\ forwarded[e][r] \in Seq(HeldUpTo(n))
    BY <2>1 DEF TypeUpTo
  <2>3. ASSUME NEW L \in Seq(HeldUpTo(n)), NEW M \in Seq(HeldUpTo(n)), Len(L) <= Len(M),
               \A i \in 1..Len(L) : i <= Len(M) => L[i] = M[i]
        PROVE  IsPrefix(TextsOf(L), TextsOf(M))
    <3>1. \A X \in Seq(HeldUpTo(n)) :
             /\ TextsOf(X) \in Seq(Texts) /\ Len(TextsOf(X)) = Len(X)
             /\ \A i \in 1..Len(X) : TextsOf(X)[i] = X[i].text
      <4> TAKE X \in Seq(HeldUpTo(n))
      <4>1. Len(X) \in Nat /\ \A i \in 1..Len(X) : X[i] \in HeldUpTo(n)
        OBVIOUS
      <4>2. \A i \in 1..Len(X) : X[i].text \in Texts
        BY <4>1 DEF HeldUpTo
      <4> QED
        BY <4>1, <4>2 DEF TextsOf
    <3>2. Len(L) \in Nat /\ Len(M) \in Nat
      OBVIOUS
    <3>3. SubSeq(TextsOf(L), 1, Len(L)) = SubSeq(TextsOf(M), 1, Len(L))
      <4>1. \A i \in 1..Len(L) : TextsOf(L)[i] = TextsOf(M)[i]
        BY <2>3, <3>1, <3>2
      <4>2. /\ \A i \in 1..Len(L) : TextsOf(L)[i] \in Texts
            /\ \A i \in 1..Len(L) : TextsOf(M)[i] \in Texts
        BY <2>3, <3>1, <3>2, <4>1
      <4>3. /\ SubSeq(TextsOf(L), 1, Len(L)) \in Seq(Texts)
            /\ Len(SubSeq(TextsOf(L), 1, Len(L))) = Len(L)
            /\ \A i \in 1..Len(L) : SubSeq(TextsOf(L), 1, Len(L))[i] = TextsOf(L)[i]
        BY <3>2, <4>2, SubSeqProperties
      <4>4. /\ SubSeq(TextsOf(M), 1, Len(L)) \in Seq(Texts)
            /\ Len(SubSeq(TextsOf(M), 1, Len(L))) = Len(L)
            /\ \A i \in 1..Len(L) : SubSeq(TextsOf(M), 1, Len(L))[i] = TextsOf(M)[i]
        BY <3>2, <4>2, SubSeqProperties
      <4> QED
        BY <4>1, <4>3, <4>4, SeqEqual
    <3> QED
      BY <2>3, <3>1, <3>3 DEF IsPrefix
  <2>4. CASE Len(forwarded[d][r]) <= Len(forwarded[e][r])
    BY <2>2, <2>3, <2>4, LogsAgree
  <2>5. CASE Len(forwarded[e][r]) <= Len(forwarded[d][r])
    BY <2>2, <2>3, <2>5, LogsAgree
  <2> QED
    BY <2>2, <2>4, <2>5
<1> QED
  BY <1>1, AlwaysInOrder, PTL

-----------------------------------------------------------------------------
(* That nothing is left behind.  As long as all servers run, a posted text *)
(* that has no key is on its way to each server or was given a number by   *)
(* it; of the proposals for it one at least is still to come; and a queue  *)
(* does not begin with an entry that can be delivered.                     *)
AllUp            == \A s \in Servers : up[s]
ComesTo(d, r, t) == \E s \in Servers, p \in Nat : Coming(s, d, r, t, p)
Offers(d, r, t)  == \E k \in Nat : Proposes(d, r, k, t)
HasKey(r, t)     == \E k \in Nat, b \in Servers : Agreed(r, k, b, t)

Underway == AllUp =>
    \A r \in Rooms, t \in Texts, d \in Servers :
       PostedIn(r, t) => ComesTo(d, r, t) \/ Offers(d, r, t) \/ HasKey(r, t)

Outstanding == AllUp =>
    \A s, b \in Servers, r \in Rooms, t \in Texts, k \in Nat :
       Got(s, r, t, k, b) =>
          \E d \in Servers : ComesTo(d, r, t) \/ \E l \in Nat : InFlight(s, r, t, l, d)

HeadWaits == \A d \in Servers, r \in Rooms : Ready(HOLD_BACK_QUEUE_TOTAL[d][r]) = {}

SettledInv == Underway /\ Outstanding /\ HeadWaits

LEMMA SettledInit ==
    ASSUME Init
    PROVE  SettledInv
<1>1. \A r \in Rooms, t \in Texts : ~ PostedIn(r, t)
  BY DEF Init, PostedIn
<1>2. \A s, b \in Servers, r \in Rooms, t \in Texts, k \in Nat : ~ Got(s, r, t, k, b)
  BY DEF Init, Got
<1>3. HeadWaits
  BY DEF Init, HeadWaits, Ready
<1> QED
  BY <1>1, <1>2, <1>3 DEF SettledInv, Underway, Outstanding

LEMMA SettledPost ==
    ASSUME Typed, OrderInv, SettledInv, ~ Repeats,
           NEW s \in Servers, NEW r \in Rooms, NEW t \in Texts, Post(s, r, t)
    PROVE  SettledInv'
<1> USE DEF SettledInv
<1>1. \A q \in Rooms, u \in Texts :
         PostedIn(q, u)' <=> PostedIn(q, u) \/ (q = r /\ u = t)
  BY PostSteps
<1>2. \A a, d \in Servers, q \in Rooms, u \in Texts, p \in Nat :
         Coming(a, d, q, u, p)' <=>
           \/ Coming(a, d, q, u, p)
           \/ a = s /\ q = r /\ u = t /\ p = Len(posted) + 1
  BY PostSteps
<1>3. \A a, b \in Servers, q \in Rooms, u \in Texts, k \in Nat :
         /\ InFlight(a, q, u, k, b)' <=> InFlight(a, q, u, k, b)
         /\ Announced(a, q, u, k, b)' <=> Announced(a, q, u, k, b)
  BY PostSteps
<1>4. UNCHANGED <<PROPOSED, AGREED, HOLD_BACK_QUEUE_TOTAL, proposals, up, forwarded>>
  BY PostSteps
<1>5. \A a, b \in Servers, q \in Rooms, u \in Texts, k \in Nat :
         /\ Got(a, q, u, k, b)' <=> Got(a, q, u, k, b)
         /\ Holds(a, q, k, b, u)' <=> Holds(a, q, k, b, u)
         /\ Logged(a, q, k, b, u)' <=> Logged(a, q, k, b, u)
  BY <1>4 DEF Got, Holds, Logged
<1>6. \A d \in Servers, q \in Rooms, u \in Texts :
         /\ ComesTo(d, q, u) \/ (q = r /\ u = t) => ComesTo(d, q, u)'
         /\ Offers(d, q, u) => Offers(d, q, u)'
         /\ HasKey(q, u) => HasKey(q, u)'
  <2> TAKE d \in Servers, q \in Rooms, u \in Texts
  <2>1. Len(posted) + 1 \in Nat
    BY DEF Typed, TypeUpTo
  <2>2. ComesTo(d, q, u) \/ (q = r /\ u = t) => ComesTo(d, q, u)'
    BY <1>2, <2>1 DEF ComesTo
  <2>3. Offers(d, q, u) => Offers(d, q, u)'
    BY <1>3, <1>5 DEF Offers, Proposes
  <2>4. HasKey(q, u) => HasKey(q, u)'
    BY <1>3, <1>5 DEF HasKey, Agreed
  <2> QED
    BY <2>2, <2>3, <2>4
<1>7. AllUp' <=> AllUp
  BY <1>4 DEF AllUp
<1>8. Underway'
  BY <1>1, <1>6, <1>7 DEF Underway
<1>9. Outstanding'
  BY <1>3, <1>5, <1>6, <1>7 DEF Outstanding
<1>10. HeadWaits'
  BY <1>4 DEF HeadWaits, Ready, Before
<1> QED
  BY <1>8, <1>9, <1>10

LEMMA SettledNew ==
    ASSUME Typed, OrderInv, SettledInv, NEW m \in net, m.type = "NEW_MESSAGE",
           HandleNewMessage(m)
    PROVE  SettledInv'
<1> USE DEF SettledInv
<1>1. PICK s, d \in Servers, r \in Rooms, t \in Texts, p, k \in Nat :
         NewHandled(s, d, r, t, p, k)
  BY NewSteps
<1>2. Coming(s, d, r, t, p)
  BY <1>1 DEF NewHandled
<1>3. \A a, x \in Servers, q \in Rooms, u \in Texts, o \in Nat :
         Coming(a, x, q, u, o)' <=>
           /\ Coming(a, x, q, u, o)
           /\ ~ (a = s /\ x = d /\ q = r /\ u = t /\ o = p)
  BY <1>1 DEF NewHandled
<1>4. \A a, b \in Servers, q \in Rooms, u \in Texts, l \in Nat :
         InFlight(a, q, u, l, b)' <=>
              \/ InFlight(a, q, u, l, b)
              \/ a = s /\ q = r /\ u = t /\ l = k /\ b = d
  BY <1>1 DEF NewHandled
<1>5. \A a, b \in Servers, q \in Rooms, u \in Texts, l \in Nat :
         /\ Announced(a, q, u, l, b)' <=> Announced(a, q, u, l, b)
         /\ Holds(a, q, l, b, u)' <=> Holds(a, q, l, b, u)
  BY <1>1 DEF NewHandled
<1>6. UNCHANGED <<AGREED, proposals, up, forwarded, posted>>
  BY <1>1 DEF NewHandled
<1>7. /\ \A a, b \in Servers, q \in Rooms, u \in Texts, l \in Nat :
           /\ Got(a, q, u, l, b)' <=> Got(a, q, u, l, b)
           /\ Logged(a, q, l, b, u)' <=> Logged(a, q, l, b, u)
      /\ \A q \in Rooms, u \in Texts : PostedIn(q, u)' <=> PostedIn(q, u)
      /\ AllUp' <=> AllUp
  BY <1>6 DEF Got, Logged, PostedIn, AllUp
<1>8. \A x \in Servers, q \in Rooms, u \in Texts :
         /\ ComesTo(x, q, u) => ComesTo(x, q, u)' \/ (x = d /\ q = r /\ u = t)
         /\ Offers(x, q, u) \/ (x = d /\ q = r /\ u = t) => Offers(x, q, u)'
         /\ HasKey(q, u) => HasKey(q, u)'
  <2> TAKE x \in Servers, q \in Rooms, u \in Texts
  <2>1. ComesTo(x, q, u) => ComesTo(x, q, u)' \/ (x = d /\ q = r /\ u = t)
    BY <1>3 DEF ComesTo
  <2>2. Offers(x, q, u) \/ (x = d /\ q = r /\ u = t) => Offers(x, q, u)'
    BY <1>4, <1>7 DEF Offers, Proposes
  <2>3. HasKey(q, u) => HasKey(q, u)'
    BY <1>5, <1>7 DEF HasKey, Agreed
  <2> QED
    BY <2>1, <2>2, <2>3
<1>9. Underway'
  BY <1>7, <1>8 DEF Underway
<1>10. Outstanding'
  <2> SUFFICES ASSUME AllUp, NEW a \in Servers, NEW b \in Servers, NEW q \in Rooms,
                      NEW u \in Texts, NEW l \in Nat, Got(a, q, u, l, b)
               PROVE  \E x \in Servers : ComesTo(x, q, u)'
                                          \/ \E h \in Nat : InFlight(a, q, u, h, x)'
    BY <1>7 DEF Outstanding
  <2>1. PICK x \in Servers : ComesTo(x, q, u) \/ \E h \in Nat : InFlight(a, q, u, h, x)
    BY DEF Outstanding
  <2>2. CASE \E h \in Nat : InFlight(a, q, u, h, x)
    BY <1>4, <2>2
  <2>3. CASE ComesTo(x, q, u)'
    BY <2>3
  <2>4. CASE x = d /\ q = r /\ u = t
    <3>1. Home(a, t) /\ Home(s, t)
      BY <1>2, <2>4 DEF Home
    <3>2. a = s
      BY <3>1 DEF OrderInv, OneHome
    <3> QED
      BY <1>4, <2>4, <3>2
  <2> QED
    BY <1>8, <2>1, <2>2, <2>3, <2>4
<1>11. HeadWaits'
  <2>1. \A x \in Servers, q \in Rooms :
           HOLD_BACK_QUEUE_TOTAL[x][q] \subseteq HOLD_BACK_QUEUE_TOTAL[x][q]'
    BY <1>1 DEF NewHandled
  <2>2. \A x \in Servers, q \in Rooms : \A e \in HOLD_BACK_QUEUE_TOTAL[x][q]' :
           e.deliverable => e \in HOLD_BACK_QUEUE_TOTAL[x][q]
    <3> TAKE x \in Servers, q \in Rooms
    <3>1. ~ Waiting(k, t).deliverable
      BY DEF Waiting
    <3>2. HOLD_BACK_QUEUE_TOTAL[x][q]' \subseteq
             HOLD_BACK_QUEUE_TOTAL[x][q] \cup {Waiting(k, t)}
      BY <1>1 DEF NewHandled
    <3> QED
      BY <3>1, <3>2
  <2>3. ASSUME NEW Q, NEW Z, Q \subseteq Z, \A e \in Z : e.deliverable => e \in Q
        PROVE  Ready(Z) \subseteq Ready(Q)
    BY <2>3 DEF Ready
  <2>4. \A x \in Servers, q \in Rooms :
           Ready(HOLD_BACK_QUEUE_TOTAL[x][q]') \subseteq Ready(HOLD_BACK_QUEUE_TOTAL[x][q])
    BY <2>1, <2>2, <2>3
  <2>5. \A x \in Servers, q \in Rooms : Ready(HOLD_BACK_QUEUE_TOTAL[x][q]') = {}
    BY <2>4 DEF HeadWaits
  <2> QED
    BY <2>5 DEF HeadWaits, Ready, Before
<1> QED
  BY <1>9, <1>10, <1>11

LEMMA SettledKept ==
    ASSUME OrderInv, SettledInv,
           NEW s \in Servers, NEW b \in Servers, NEW r \in Rooms, NEW t \in Texts,
           NEW k \in Nat, OfferKept(s, r, t, k, b)
    PROVE  SettledInv'
<1> USE DEF SettledInv
<1>1. InFlight(s, r, t, k, b)
  BY DEF OfferKept
<1>2. \A a, c \in Servers, q \in Rooms, u \in Texts, l \in Nat :
         /\ InFlight(a, q, u, l, c)' <=>
              InFlight(a, q, u, l, c) /\ ~ (a = s /\ q = r /\ u = t /\ l = k /\ c = b)
         /\ Got(a, q, u, l, c)' <=>
              Got(a, q, u, l, c) \/ (a = s /\ q = r /\ u = t /\ l = k /\ c = b)
  BY DEF OfferKept
<1>3. \A a, c \in Servers, q \in Rooms, u \in Texts, l \in Nat :
         Announced(a, q, u, l, c)' <=> Announced(a, q, u, l, c)
  BY DEF OfferKept
<1>4. \A a, d \in Servers, q \in Rooms, u \in Texts, p \in Nat :
         Coming(a, d, q, u, p)' <=> Coming(a, d, q, u, p)
  BY DEF OfferKept
<1>5. UNCHANGED <<PROPOSED, AGREED, HOLD_BACK_QUEUE_TOTAL, up, forwarded, posted>>
  BY DEF OfferKept
<1>6. PICK e \in Servers : \A q \in Rooms, l \in Nat :
         ~ Got(s, q, t, l, e) /\ ~ (q = r /\ l = k /\ e = b)
  BY DEF OfferKept
<1>7. /\ \A a, c \in Servers, q \in Rooms, u \in Texts, l \in Nat :
           /\ Holds(a, q, l, c, u)' <=> Holds(a, q, l, c, u)
           /\ Logged(a, q, l, c, u)' <=> Logged(a, q, l, c, u)
      /\ \A q \in Rooms, u \in Texts : PostedIn(q, u)' <=> PostedIn(q, u)
      /\ AllUp' <=> AllUp
  BY <1>5 DEF Holds, Logged, PostedIn, AllUp
<1>8. \A x \in Servers, q \in Rooms, u \in Texts :
         /\ ComesTo(x, q, u)' <=> ComesTo(x, q, u)
         /\ Offers(x, q, u) => Offers(x, q, u)'
         /\ HasKey(q, u) => HasKey(q, u)'
  <2> TAKE x \in Servers, q \in Rooms, u \in Texts
  <2>1. ComesTo(x, q, u)' <=> ComesTo(x, q, u)
    BY <1>4 DEF ComesTo
  <2>2. Offers(x, q, u) => Offers(x, q, u)'
    BY <1>2 DEF Offers, Proposes
  <2>3. HasKey(q, u) => HasKey(q, u)'
    BY <1>3, <1>7 DEF HasKey, Agreed
  <2> QED
    BY <2>1, <2>2, <2>3
<1>9. Underway'
  BY <1>7, <1>8 DEF Underway
<1>10. Proposes(b, r, k, t) /\ PostedIn(r, t)
  <2>1. Proposes(b, r, k, t)
    BY <1>1 DEF Proposes
  <2> QED
    BY <2>1 DEF OrderInv, OneRoom, Numbered
<1>11. AllUp => ComesTo(e, r, t) \/ \E l \in Nat : InFlight(s, r, t, l, e)'
  <2> SUFFICES ASSUME AllUp, ~ ComesTo(e, r, t)
               PROVE  \E l \in Nat : InFlight(s, r, t, l, e)'
    OBVIOUS
  <2>1. ~ HasKey(r, t)
    BY <1>10 DEF OrderInv, OneOffer, HasKey
  <2>2. PICK l \in Nat : Proposes(e, r, l, t)
    BY <1>10, <2>1 DEF Underway, Offers
  <2>3. PICK a \in Servers : InFlight(a, r, t, l, e) \/ Got(a, r, t, l, e)
    BY <2>2 DEF Proposes
  <2>4. a = s
    <3>1. Home(a, t) /\ Home(s, t)
      BY <1>1, <2>3 DEF Home
    <3> QED
      BY <3>1 DEF OrderInv, OneHome
  <2>5. InFlight(s, r, t, l, e)
    BY <1>6, <2>3, <2>4
  <2> QED
    BY <1>2, <1>6, <2>5
<1>12. Outstanding'
  <2> SUFFICES ASSUME AllUp, NEW a \in Servers, NEW c \in Servers, NEW q \in Rooms,
                      NEW u \in Texts, NEW l \in Nat, Got(a, q, u, l, c)'
               PROVE  \E x \in Servers : ComesTo(x, q, u)'
                                          \/ \E h \in Nat : InFlight(a, q, u, h, x)'
    BY <1>7 DEF Outstanding
  <2>1. CASE a = s /\ u = t
    <3>1. q = r
      <4>1. CASE Got(a, q, u, l, c)
        <5>1. PostedIn(q, t)
          BY <2>1, <4>1 DEF OrderInv, OneRoom, Numbered, Proposes
        <5> QED
          BY <1>10, <5>1 DEF OrderInv, OneRoom
      <4> QED
        BY <1>2, <4>1
    <3> QED
      BY <1>8, <1>11, <2>1, <3>1
  <2>2. CASE ~ (a = s /\ u = t)
    <3>1. Got(a, q, u, l, c)
      BY <1>2, <2>2
    <3>2. PICK x \in Servers : ComesTo(x, q, u) \/ \E h \in Nat : InFlight(a, q, u, h, x)
      BY <3>1 DEF Outstanding
    <3> QED
      BY <1>2, <1>8, <2>2, <3>2
  <2> QED
    BY <2>1, <2>2
<1>13. HeadWaits'
  BY <1>5 DEF HeadWaits, Ready, Before
<1> QED
  BY <1>9, <1>12, <1>13

LEMMA SettledLast ==
    ASSUME OrderInv, SettledInv,
           NEW s \in Servers, NEW b \in Servers, NEW r \in Rooms, NEW t \in Texts,
           NEW k \in Nat, NEW j \in Nat, NEW c \in Servers, OfferLast(s, r, t, k, b, j, c)
    PROVE  SettledInv'
<1> USE DEF SettledInv
<1>1. InFlight(s, r, t, k, b) /\ PostedIn(r, t)
  <2>1. InFlight(s, r, t, k, b)
    BY DEF OfferLast
  <2>2. PostedIn(r, t)
    BY LastOffer
  <2> QED
    BY <2>1, <2>2
<1>2. \A a, e \in Servers, q \in Rooms, u \in Texts, l \in Nat :
         /\ InFlight(a, q, u, l, e)' <=>
              InFlight(a, q, u, l, e) /\ ~ (a = s /\ q = r /\ u = t /\ l = k /\ e = b)
         /\ Got(a, q, u, l, e)' <=> Got(a, q, u, l, e) /\ ~ (a = s /\ u = t)
  BY DEF OfferLast
<1>3. \A a, e \in Servers, q \in Rooms, u \in Texts, l \in Nat :
         Announced(a, q, u, l, e)' <=>
              Announced(a, q, u, l, e) \/ (q = r /\ u = t /\ l = j /\ e = c)
  BY DEF OfferLast
<1>4. \A a, d \in Servers, q \in Rooms, u \in Texts, p \in Nat :
         Coming(a, d, q, u, p)' <=> Coming(a, d, q, u, p)
  BY DEF OfferLast
<1>5. UNCHANGED <<PROPOSED, AGREED, HOLD_BACK_QUEUE_TOTAL, up, forwarded, posted>>
  BY DEF OfferLast
<1>6. /\ \A a, e \in Servers, q \in Rooms, u \in Texts, l \in Nat :
           /\ Holds(a, q, l, e, u)' <=> Holds(a, q, l, e, u)
           /\ Logged(a, q, l, e, u)' <=> Logged(a, q, l, e, u)
      /\ \A q \in Rooms, u \in Texts : PostedIn(q, u)' <=> PostedIn(q, u)
      /\ AllUp' <=> AllUp
  BY <1>5 DEF Holds, Logged, PostedIn, AllUp
<1>7. \A x \in Servers, q \in Rooms, u \in Texts :
         /\ ComesTo(x, q, u)' <=> ComesTo(x, q, u)
         /\ Offers(x, q, u) => Offers(x, q, u)' \/ u = t
         /\ HasKey(q, u) \/ (q = r /\ u = t) => HasKey(q, u)'
  <2> TAKE x \in Servers, q \in Rooms, u \in Texts
  <2>1. ComesTo(x, q, u)' <=> ComesTo(x, q, u)
    BY <1>4 DEF ComesTo
  <2>2. Offers(x, q, u) => Offers(x, q, u)' \/ u = t
    BY <1>2 DEF Offers, Proposes
  <2>3. HasKey(q, u) \/ (q = r /\ u = t) => HasKey(q, u)'
    BY <1>3, <1>6 DEF HasKey, Agreed
  <2> QED
    BY <2>1, <2>2, <2>3
<1>8. Underway'
  <2>1. \A q \in Rooms : PostedIn(q, t) => q = r
    BY <1>1 DEF OrderInv, OneRoom
  <2> QED
    BY <1>6, <1>7, <2>1 DEF Underway
<1>9. Outstanding'
  <2> SUFFICES ASSUME AllUp, NEW a \in Servers, NEW e \in Servers, NEW q \in Rooms,
                      NEW u \in Texts, NEW l \in Nat, Got(a, q, u, l, e)'
               PROVE  \E x \in Servers : ComesTo(x, q, u)'
                                          \/ \E h \in Nat : InFlight(a, q, u, h, x)'
    BY <1>6 DEF Outstanding
  <2>1. Got(a, q, u, l, e) /\ ~ (a = s /\ u = t)
    BY <1>2
  <2>2. u # t
    <3> SUFFICES ASSUME u = t PROVE FALSE
      OBVIOUS
    <3>1. Home(a, t) /\ Home(s, t)
      BY <1>1, <2>1 DEF Home
    <3> QED
      BY <2>1, <3>1 DEF OrderInv, OneHome
  <2>3. PICK x \in Servers : ComesTo(x, q, u) \/ \E h \in Nat : InFlight(a, q, u, h, x)
    BY <2>1 DEF Outstanding
  <2> QED
    BY <1>2, <1>7, <2>2, <2>3
<1>10. HeadWaits'
  BY <1>5 DEF HeadWaits, Ready, Before
<1> QED
  BY <1>8, <1>9, <1>10

(* What is left of a queue begins with an entry that waits.                *)
LEMMA LeftWaits ==
    ASSUME NEW A, Keyed(A)
    PROVE  Ready(A \ Ready(A)) = {}
<1> SUFFICES ASSUME NEW e \in Ready(A \ Ready(A)) PROVE FALSE
  OBVIOUS
<1>1. e \in A /\ e \notin Ready(A) /\ e.deliverable
  BY DEF Ready
<1>2. \A f \in A : Before(f, e) => f.deliverable
  <2> TAKE f \in A
  <2>1. CASE f \in Ready(A)
    BY <2>1 DEF Ready
  <2>2. CASE f \notin Ready(A)
    BY <2>2 DEF Ready
  <2> QED
    BY <2>1, <2>2
<1> QED
  BY <1>1, <1>2 DEF Ready

LEMMA SettledAgreement ==
    ASSUME Typed, OrderInv, SettledInv, NEW m \in net, m.type = "AGREEMENT", HandleAgreement(m)
    PROVE  SettledInv'
<1>1. PICK d, b \in Servers, r \in Rooms, t \in Texts, k, w \in Nat :
         \E A, out : QueueOrdered(d, r, t, k, b, w, A, out)
  BY AgreementSteps
<1>2. PICK A, out : QueueOrdered(d, r, t, k, b, w, A, out)
  BY <1>1
<1> USE DEF SettledInv
<1>3. /\ up[d]
      /\ HOLD_BACK_QUEUE_TOTAL' = [HOLD_BACK_QUEUE_TOTAL EXCEPT ![d][r] = A \ Ready(A)]
      /\ UNCHANGED <<PROPOSED, proposals, posted>>
  BY <1>2 DEF QueueOrdered
<1>4. StagesMove(d, r, t, k, b, A)
  BY <1>2, QueueStages
<1>5. \A x, c \in Servers, q \in Rooms, u \in Texts, l \in Nat :
         /\ InFlight(x, q, u, l, c)' <=> InFlight(x, q, u, l, c)
         /\ Announced(x, q, u, l, c)' <=>
              Announced(x, q, u, l, c) /\ ~ (x = d /\ q = r /\ u = t /\ l = k /\ c = b)
  BY <1>4 DEF StagesMove
<1>6. \A a, x \in Servers, q \in Rooms, u \in Texts, p \in Nat :
         Coming(a, x, q, u, p)' <=> Coming(a, x, q, u, p)
  BY <1>4 DEF StagesMove
<1>7. \A x \in Servers, q \in Rooms, u \in Texts, l \in Nat, c \in Servers :
         Holds(x, q, l, c, u)' <=>
           IF x = d /\ q = r THEN Ordered(l, c, u) \in A \ Ready(A)
                             ELSE Holds(x, q, l, c, u)
  BY <1>4 DEF StagesMove
<1>8. \/ \A x \in Servers, q \in Rooms, u \in Texts, l \in Nat, c \in Servers :
           Logged(x, q, l, c, u)' <=>
             \/ Logged(x, q, l, c, u)
             \/ x = d /\ q = r /\ Ordered(l, c, u) \in Ready(A)
      \/ /\ ~ up'[d]
         /\ \A x \in Servers, q \in Rooms, u \in Texts, l \in Nat, c \in Servers :
              Logged(x, q, l, c, u)' <=> Logged(x, q, l, c, u)
  BY <1>4 DEF StagesMove
<1>9. \A x \in Servers : up'[x] = up[x] \/ (x = d /\ ~ up'[x])
  BY <1>4 DEF StagesMove
<1>10. \A l \in Nat, c \in Servers, u \in Texts :
          Ordered(l, c, u) \in A <=> Holds(d, r, l, c, u) \/ (l = k /\ c = b /\ u = t)
  BY <1>2, QueueParts
<1>11. AllUp' => AllUp /\ up'[d]
  BY <1>9 DEF AllUp
<1>12. /\ \A a, c \in Servers, q \in Rooms, u \in Texts, l \in Nat :
            Got(a, q, u, l, c)' <=> Got(a, q, u, l, c)
       /\ \A q \in Rooms, u \in Texts : PostedIn(q, u)' <=> PostedIn(q, u)
  BY <1>3 DEF Got, PostedIn
<1>13. \A x \in Servers, q \in Rooms, u \in Texts :
         /\ ComesTo(x, q, u)' <=> ComesTo(x, q, u)
         /\ Offers(x, q, u)' <=> Offers(x, q, u)
  BY <1>5, <1>6, <1>12 DEF ComesTo, Offers, Proposes
<1>14. ASSUME up'[d], NEW q \in Rooms, NEW u \in Texts, HasKey(q, u)
       PROVE  HasKey(q, u)'
  <2>1. \A x \in Servers, y \in Rooms, v \in Texts, l \in Nat, c \in Servers :
           Logged(x, y, l, c, v)' <=>
             \/ Logged(x, y, l, c, v)
             \/ x = d /\ y = r /\ Ordered(l, c, v) \in Ready(A)
    BY <1>8, <1>14
  <2>2. \A l \in Nat, c \in Servers, v \in Texts :
           Ordered(l, c, v) \in A => Agreed(r, l, c, v)'
    <3> TAKE l \in Nat, c \in Servers, v \in Texts
    <3> HAVE Ordered(l, c, v) \in A
    <3>1. Logged(d, r, l, c, v)' \/ Holds(d, r, l, c, v)'
      BY <1>7, <2>1
    <3> QED
      BY <3>1 DEF Agreed
  <2>3. PICK l \in Nat, c \in Servers : Agreed(q, l, c, u)
    BY <1>14 DEF HasKey
  <2>4. PICK x \in Servers : \/ Announced(x, q, u, l, c) \/ Holds(x, q, l, c, u)
                             \/ Logged(x, q, l, c, u)
    BY <2>3 DEF Agreed
  <2>5. Agreed(q, l, c, u)'
    <3>1. CASE Logged(x, q, l, c, u)
      BY <2>1, <3>1 DEF Agreed
    <3>2. CASE Holds(x, q, l, c, u)
      <4>1. CASE x = d /\ q = r
        BY <1>10, <2>2, <3>2, <4>1
      <4>2. CASE ~ (x = d /\ q = r)
        <5>1. Holds(x, q, l, c, u)'
          BY <1>7, <3>2, <4>2
        <5> QED
          BY <5>1 DEF Agreed
      <4> QED
        BY <4>1, <4>2
    <3>3. CASE Announced(x, q, u, l, c)
      <4>1. CASE q = r /\ u = t /\ l = k /\ c = b
        BY <1>10, <2>2, <4>1
      <4>2. CASE ~ (q = r /\ u = t /\ l = k /\ c = b)
        <5>1. Announced(x, q, u, l, c)'
          BY <1>5, <3>3, <4>2
        <5> QED
          BY <5>1 DEF Agreed
      <4> QED
        BY <4>1, <4>2
    <3> QED
      BY <2>4, <3>1, <3>2, <3>3
  <2> QED
    BY <2>5 DEF HasKey
<1>15. Underway'
  BY <1>11, <1>12, <1>13, <1>14 DEF Underway
<1>16. Outstanding'
  BY <1>5, <1>11, <1>12, <1>13 DEF Outstanding
<1>17. HeadWaits'
  <2>1. /\ DOMAIN HOLD_BACK_QUEUE_TOTAL = Servers
        /\ \A x \in Servers : DOMAIN HOLD_BACK_QUEUE_TOTAL[x] = Rooms
    BY DEF Typed, TypeUpTo
  <2>2. \A x \in Servers, q \in Rooms : HOLD_BACK_QUEUE_TOTAL'[x][q] =
           IF x = d /\ q = r THEN A \ Ready(A) ELSE HOLD_BACK_QUEUE_TOTAL[x][q]
    BY <1>3, <2>1, Update2
  <2>3. Ready(A \ Ready(A)) = {}
    BY <1>2, QueueParts, LeftWaits
  <2>4. \A x \in Servers, q \in Rooms : Ready(HOLD_BACK_QUEUE_TOTAL'[x][q]) = {}
    BY <2>2, <2>3 DEF HeadWaits
  <2> QED
    BY <2>4 DEF HeadWaits, Ready, Before
<1> QED
  BY <1>15, <1>16, <1>17

LEMMA SettledStep ==
    ASSUME Typed, OrderInv, SettledInv, ~ Repeats, [Next]_vars
    PROVE  SettledInv'
<1>1. CASE UNCHANGED vars
  <2>1. UNCHANGED <<net, HOLD_BACK_QUEUE_TOTAL, proposals, up, forwarded, posted>>
    BY <1>1 DEF vars
  <2>2. AllUp' <=> AllUp
    BY <2>1 DEF AllUp
  <2>3. Underway'
    BY <2>1, <2>2 DEF SettledInv, Underway, PostedIn, ComesTo, Offers, HasKey, Coming, Proposes,
                      InFlight, Got, Agreed, Announced, Holds, Logged
  <2>4. Outstanding'
    BY <2>1, <2>2 DEF SettledInv, Outstanding, ComesTo, Coming, InFlight, Got
  <2>5. HeadWaits'
    BY <2>1 DEF SettledInv, HeadWaits, Ready, Before
  <2> QED
    BY <2>3, <2>4, <2>5 DEF SettledInv
<1>2. ASSUME NEW s \in Servers, NEW r \in Rooms, NEW t \in Texts, Post(s, r, t)
      PROVE  SettledInv'
  BY <1>2, SettledPost
<1>3. ASSUME NEW m \in net, handle_total_order(m)
      PROVE  SettledInv'
  <2>1. CASE m.type = "NEW_MESSAGE" /\ HandleNewMessage(m)
    BY <2>1, SettledNew
  <2>2. CASE m.type = "PROPOSAL" /\ HandleProposal(m)
    BY <2>2, ProposalSteps, SettledKept, SettledLast
  <2>3. CASE m.type = "AGREEMENT" /\ HandleAgreement(m)
    BY <2>3, SettledAgreement
  <2> QED
    BY <1>3, <2>1, <2>2, <2>3 DEF handle_total_order
<1> QED
  BY <1>1, <1>2, <1>3 DEF Next

(* With no datagram on its way, and all servers running, every text that   *)
(* was posted has a key, and nothing waits.                                *)
LEMMA NothingWaits ==
    ASSUME OrderInv, SettledInv, net = {}, AllUp
    PROVE  /\ \A r \in Rooms, t \in Texts : PostedIn(r, t) => HasKey(r, t)
           /\ \A s, b \in Servers, r \in Rooms, t \in Texts, k \in Nat : ~ Got(s, r, t, k, b)
           /\ \A d \in Servers, r \in Rooms : HOLD_BACK_QUEUE_TOTAL[d][r] = {}
           /\ \A d, b \in Servers, r \in Rooms, t \in Texts, k \in Nat :
                 Agreed(r, k, b, t) => Logged(d, r, k, b, t)
<1> USE DEF OrderInv, SettledInv
<1>1. \A s, d \in Servers, r \in Rooms, t \in Texts, k \in Nat :
         ~ Coming(s, d, r, t, k) /\ ~ InFlight(s, r, t, k, d) /\ ~ Announced(s, r, t, k, d)
  BY DEF Coming, InFlight, Announced
<1>2. \A s, b \in Servers, r \in Rooms, t \in Texts, k \in Nat : ~ Got(s, r, t, k, b)
  BY <1>1 DEF Outstanding, ComesTo
<1>3. \A r \in Rooms, t \in Texts : PostedIn(r, t) => HasKey(r, t)
  <2>1. \A d \in Servers, r \in Rooms, t \in Texts : ~ ComesTo(d, r, t) /\ ~ Offers(d, r, t)
    BY <1>1, <1>2 DEF ComesTo, Offers, Proposes
  <2>2. 1 \in Servers
    BY ServersAssumption DEF Servers
  <2> QED
    BY <2>1, <2>2 DEF Underway
<1>4. \A d \in Servers : up[d]
  BY DEF AllUp
<1>5. \A d \in Servers, r \in Rooms, t \in Texts, l \in Nat : ~ Waits(d, r, l, t)
  <2> SUFFICES ASSUME NEW d \in Servers, NEW r \in Rooms, NEW t \in Texts, NEW l \in Nat,
                      Waits(d, r, l, t)
               PROVE  FALSE
    OBVIOUS
  <2>1. PostedIn(r, t)
    BY DEF OneRoom, Numbered
  <2>2. PICK k \in Nat, b \in Servers : Agreed(r, k, b, t)
    BY <1>3, <2>1 DEF HasKey
  <2>3. l <= k
    BY <1>4, <2>2 DEF Expected
  <2>4. Logged(d, r, k, b, t) \/ Holds(d, r, k, b, t)
    BY <1>1, <1>4, <2>2 DEF Everywhere
  <2>5. ~ Holds(d, r, k, b, t)
    BY DEF OneEntry
  <2>6. ~ Logged(d, r, k, b, t)
    BY <1>4, <2>3 DEF LogFirst
  <2> QED
    BY <2>4, <2>5, <2>6
<1>6. \A d \in Servers, r \in Rooms : HOLD_BACK_QUEUE_TOTAL[d][r] = {}
  <2> TAKE d \in Servers, r \in Rooms
  <2>1. \A e \in HOLD_BACK_QUEUE_TOTAL[d][r] : e.deliverable
    BY <1>5 DEF Forms, Waits, Ordered
  <2> QED
    BY <2>1 DEF HeadWaits, Ready
<1>7. \A d, b \in Servers, r \in Rooms, t \in Texts, k \in Nat :
         Agreed(r, k, b, t) => Logged(d, r, k, b, t)
  BY <1>1, <1>4, <1>6 DEF Everywhere, Holds
<1> QED
  BY <1>2, <1>3, <1>6, <1>7

(* ChatTotal, in a chat in which no text is posted twice: when no datagram *)
(* is on its way and no server has died, every server has forwarded every  *)
(* text that was posted, holds none back and waits for no proposal         *)
(* (handle_total_order).                                                   *)
THEOREM SettledHolds == ASSUME ~ Repeats PROVE Spec => []Settled
<1>1. Typed /\ OrderInv /\ SettledInv => Settled
  <2> SUFFICES ASSUME Typed, OrderInv, SettledInv, net = {}, \A s \in Servers : up[s],
                      NEW s \in Servers
               PROVE  /\ \A t \in Texts : proposals[s][t] = {}
                      /\ \A r \in Rooms :
                           /\ HOLD_BACK_QUEUE_TOTAL[s][r] = {}
                           /\ {forwarded[s][r][i].text : i \in 1..Len(forwarded[s][r])} =
                                {posted[k].text :
                                   k \in {j \in 1..Len(posted) : posted[j].room = r}}
    BY DEF Settled
  <2>1. PICK n \in Nat : TypeUpTo(n)
    BY DEF Typed, Counted
  <2>2. /\ \A r \in Rooms, t \in Texts : PostedIn(r, t) => HasKey(r, t)
        /\ \A a, b \in Servers, r \in Rooms, t \in Texts, k \in Nat : ~ Got(a, r, t, k, b)
        /\ \A d \in Servers, r \in Rooms : HOLD_BACK_QUEUE_TOTAL[d][r] = {}
        /\ \A d, b \in Servers, r \in Rooms, t \in Texts, k \in Nat :
              Agreed(r, k, b, t) => Logged(d, r, k, b, t)
    BY NothingWaits DEF AllUp
  <2>3. \A t \in Texts : proposals[s][t] = {}
    <3> SUFFICES ASSUME NEW t \in Texts, NEW p \in proposals[s][t] PROVE FALSE
      OBVIOUS
    <3>1. p \in ProposedUpTo(n)
      BY <2>1 DEF TypeUpTo
    <3>2. PICK k \in 1..n, b \in Servers, r \in Rooms : p = Offer(k, b, r)
      BY <3>1 DEF ProposedUpTo, Offer
    <3>3. Got(s, r, t, k, b) /\ k \in Nat
      BY <3>2 DEF Got
    <3> QED
      BY <2>2, <3>3
  <2>4. ASSUME NEW r \in Rooms, NEW i \in 1..Len(forwarded[s][r])
        PROVE  \E k \in {j \in 1..Len(posted) : posted[j].room = r} :
                  posted[k].text = forwarded[s][r][i].text
    <3>1. PICK k \in Nat, b \in Servers, t \in Texts : forwarded[s][r][i] = Ordered(k, b, t)
      BY DEF OrderInv, Forms
    <3>2. Numbered(b, r, k, t)
      BY <3>1 DEF Numbered, Agreed, Logged
    <3>3. PostedIn(r, t)
      BY <3>2 DEF OrderInv, OneRoom
    <3> QED
      BY <3>1, <3>3 DEF PostedIn, Ordered
  <2>5. ASSUME NEW r \in Rooms, NEW k \in 1..Len(posted), posted[k].room = r
        PROVE  \E i \in 1..Len(forwarded[s][r]) : forwarded[s][r][i].text = posted[k].text
    <3>1. posted[k] \in [room : Rooms, text : Texts]
      <4>1. posted \in Seq([room : Rooms, text : Texts])
        BY <2>1 DEF TypeUpTo
      <4> QED
        BY <4>1, ElementOfSeq
    <3>2. PICK t \in Texts : posted[k] = [room |-> r, text |-> t]
      BY <2>5, <3>1
    <3>3. PICK l \in Nat, b \in Servers : Agreed(r, l, b, t)
      BY <2>2, <3>2 DEF PostedIn, HasKey
    <3>4. Logged(s, r, l, b, t)
      BY <2>2, <3>3
    <3> QED
      BY <3>2, <3>4 DEF Logged, Ordered
  <2>6. \A r \in Rooms :
           {forwarded[s][r][i].text : i \in 1..Len(forwarded[s][r])} =
             {posted[k].text : k \in {j \in 1..Len(posted) : posted[j].room = r}}
    <3> TAKE r \in Rooms
    <3>1. {forwarded[s][r][i].text : i \in 1..Len(forwarded[s][r])} \subseteq
             {posted[k].text : k \in {j \in 1..Len(posted) : posted[j].room = r}}
      BY <2>4
    <3>2. {posted[k].text : k \in {j \in 1..Len(posted) : posted[j].room = r}} \subseteq
             {forwarded[s][r][i].text : i \in 1..Len(forwarded[s][r])}
      BY <2>5
    <3> QED
      BY <3>1, <3>2
  <2> QED
    BY <2>2, <2>3, <2>6
<1>2. Init => Typed /\ OrderInv /\ SettledInv
  BY TypedInit, OrderInit, SettledInit
<1>3. Typed /\ OrderInv /\ SettledInv /\ [Next]_vars => (Typed /\ OrderInv /\ SettledInv)'
  BY TypedStep, OrderStep, SettledStep
<1> QED
  BY <1>1, <1>2, <1>3, PTL DEF Spec

-----------------------------------------------------------------------------
(* Causal mode.  First the loops of handle_causal_order.                   *)

(* A loop of L steps from x: step[i][s] is what its i-th step makes of s.  *)
LoopOf(f, x, L, step) ==
    f = [i \in 0..L |-> IF i = 0 THEN x ELSE step[i][f[i - 1]]]

(* Such a loop can be run.                                                 *)
LEMMA LoopExists ==
    ASSUME NEW S, NEW x \in S, NEW L \in Nat, NEW step \in [1..L -> [S -> S]]
    PROVE  \E f \in [0..L -> S] : LoopOf(f, x, L, step)
<1> DEFINE Good(n) == \E f \in [0..n -> S] :
                        f[0] = x /\ \A i \in 1..n : f[i] = step[i][f[i - 1]]
           Bad == {n \in 0..L : ~ Good(n)}
<1>1. Good(0)
  <2>1. 0..0 = {0} /\ 1..0 = {}
    OBVIOUS
  <2>2. [i \in 0..0 |-> x] \in [0..0 -> S]
    OBVIOUS
  <2> QED
    BY <2>1, <2>2
<1>2. ASSUME NEW n \in Nat, n < L, Good(n) PROVE Good(n + 1)
  <2>1. PICK f \in [0..n -> S] : f[0] = x /\ \A i \in 1..n : f[i] = step[i][f[i - 1]]
    BY <1>2
  <2>2. f[n] \in S /\ n + 1 \in 1..L
    BY <1>2
  <2>3. step[n + 1][f[n]] \in S
    <3>1. step[n + 1] \in [S -> S]
      BY <2>2
    <3> QED
      BY <2>2, <3>1
  <2> DEFINE g == [i \in 0..(n + 1) |-> IF i = n + 1 THEN step[n + 1][f[n]] ELSE f[i]]
  <2>4. g \in [0..(n + 1) -> S]
    BY <2>3
  <2>5. g[0] = x
    BY <2>1
  <2>6. ASSUME NEW i \in 1..(n + 1) PROVE g[i] = step[i][g[i - 1]]
    <3>1. CASE i = n + 1
      <4>1. g[i] = step[n + 1][f[n]]
        BY <3>1
      <4>2. g[i - 1] = f[n]
        BY <3>1
      <4> QED
        BY <3>1, <4>1, <4>2
    <3>2. CASE i \in 1..n
      <4>1. g[i] = f[i] /\ g[i - 1] = f[i - 1]
        BY <3>2
      <4> QED
        BY <2>1, <3>2, <4>1
    <3> QED
      BY <3>1, <3>2
  <2> QED
    BY <2>4, <2>5, <2>6
<1> HIDE DEF Good
<1>3. Bad = {}
  <2> SUFFICES ASSUME Bad # {} PROVE FALSE
    OBVIOUS
  <2>1. Bad \subseteq Nat
    OBVIOUS
  <2>2. PICK n \in Bad : \A m \in Bad : n <= m
    <3> HIDE DEF Bad
    <3> QED
      BY <2>1, LeastNatural
  <2>3. n \in 1..L
    BY <1>1, <2>2
  <2>4. n - 1 \in 0..L /\ n - 1 \notin Bad
    BY <2>2, <2>3
  <2>5. n - 1 \in Nat /\ n - 1 < L /\ (n - 1) + 1 = n
    BY <2>3
  <2>6. Good((n - 1) + 1)
    BY <1>2, <2>4, <2>5
  <2> QED
    BY <2>2, <2>5, <2>6
<1>4. Good(L)
  BY <1>3
<1>5. PICK f \in [0..L -> S] : f[0] = x /\ \A i \in 1..L : f[i] = step[i][f[i - 1]]
  BY <1>4 DEF Good
<1>6. \A i \in 0..L : f[i] = IF i = 0 THEN x ELSE step[i][f[i - 1]]
  BY <1>5
<1>7. LoopOf(f, x, L, step)
  BY <1>6 DEF LoopOf
<1> QED
  BY <1>7

(* What holds at a, and at each number if at the one before, holds up to b. *)
LEMMA Climb ==
    ASSUME NEW a \in Nat, NEW b \in Nat, NEW H, a \in H,
           \A i \in (a + 1)..b : i - 1 \in H => i \in H
    PROVE  \A i \in a..b : i \in H
<1> DEFINE Bad == {i \in a..b : i \notin H}
<1> SUFFICES ASSUME Bad # {} PROVE FALSE
  OBVIOUS
<1>1. PICK n \in Bad : \A m \in Bad : n <= m
  <2>1. Bad \subseteq Nat
    OBVIOUS
  <2> HIDE DEF Bad
  <2> QED
    BY <2>1, LeastNatural
<1>2. n \in (a + 1)..b
  OBVIOUS
<1>3. n - 1 \in a..b /\ n - 1 \notin Bad
  BY <1>1, <1>2
<1> QED
  BY <1>1, <1>2, <1>3

(* What holds before a loop and is kept by its steps holds all along.      *)
LEMMA LoopKeeps ==
    ASSUME NEW a \in Nat, NEW b \in Nat, NEW f, NEW G, f[a] \in G,
           \A i \in (a + 1)..b : f[i - 1] \in G => f[i] \in G
    PROVE  \A i \in a..b : f[i] \in G
<1> DEFINE H == {i \in a..b : f[i] \in G}
<1>1. CASE a <= b
  <2>1. a \in H /\ \A i \in (a + 1)..b : i - 1 \in H => i \in H
    BY <1>1
  <2>2. \A i \in a..b : i \in H
    <3> HIDE DEF H
    <3> QED
      BY <2>1, Climb
  <2> QED
    BY <2>2
<1>2. CASE ~ (a <= b)
  BY <1>2
<1> QED
  BY <1>1, <1>2

-----------------------------------------------------------------------------
(* The receiver's state in the loop. *)
Delivery == [queue : Seq([Servers -> Nat]), clock : [Servers -> Nat]]

LEMMA RemovedAt ==
    ASSUME NEW S, NEW q \in Seq(S), NEW i \in 1..Len(q)
    PROVE  /\ RemoveAt(q, i) \in Seq(S)
           /\ Len(RemoveAt(q, i)) = Len(q) - 1
           /\ \A k \in 1..(Len(q) - 1) : RemoveAt(q, i)[k] = IF k < i THEN q[k] ELSE q[k + 1]
<1> DEFINE a == SubSeq(q, 1, i - 1)
           b == SubSeq(q, i + 1, Len(q))
<1>1. Len(q) \in Nat /\ i \in Nat /\ 1 <= i /\ i <= Len(q)
  OBVIOUS
<1>2. a \in Seq(S) /\ Len(a) = i - 1 /\ \A k \in 1..(i - 1) : a[k] = q[k]
  BY <1>1
<1>3. b \in Seq(S) /\ Len(b) = Len(q) - i /\ \A k \in 1..(Len(q) - i) : b[k] = q[i + k]
  <2>1. i + 1 \in 1..(Len(q) + 1) /\ Len(q) \in i..Len(q)
    BY <1>1
  <2>2. b \in Seq(S) /\ Len(b) = Len(q) - i
    BY <1>1, <2>1
  <2>3. \A k \in 1..(Len(q) - i) : b[k] = q[(i + 1) + k - 1]
    BY <1>1, <2>1
  <2> QED
    BY <1>1, <2>2, <2>3
<1> HIDE DEF a, b
<1>4. /\ a \o b \in Seq(S) /\ Len(a \o b) = Len(q) - 1
      /\ \A k \in 1..(Len(a) + Len(b)) :
           (a \o b)[k] = IF k <= Len(a) THEN a[k] ELSE b[k - Len(a)]
  <2>1. a \in Seq(S) /\ b \in Seq(S)
    BY <1>2, <1>3
  <2>2. /\ a \o b \in Seq(S) /\ Len(a \o b) = Len(a) + Len(b)
        /\ \A k \in 1..(Len(a) + Len(b)) :
             (a \o b)[k] = IF k <= Len(a) THEN a[k] ELSE b[k - Len(a)]
    BY <2>1, ConcatProperties
  <2> QED
    BY <1>1, <1>2, <1>3, <2>2
<1>5. ASSUME NEW k \in 1..(Len(q) - 1)
      PROVE  (a \o b)[k] = IF k < i THEN q[k] ELSE q[k + 1]
  <2> DEFINE c == a \o b
  <2>1. c[k] = IF k <= i - 1 THEN a[k] ELSE b[k - (i - 1)]
    <3>1. k \in 1..(Len(a) + Len(b))
      BY <1>1, <1>2, <1>3
    <3> QED
      BY <1>2, <1>4, <3>1
  <2> HIDE DEF c
  <2>2. CASE k < i
    <3>1. k <= i - 1 /\ k \in 1..(i - 1)
      BY <1>1, <2>2
    <3>2. c[k] = q[k]
      BY <1>2, <2>1, <3>1
    <3> QED
      BY <2>2, <3>2 DEF c
  <2>3. CASE k >= i
    <3>1. c[k] = b[k - (i - 1)]
      BY <1>1, <2>1, <2>3
    <3>2. k - (i - 1) \in 1..(Len(q) - i) /\ i + (k - (i - 1)) = k + 1
      BY <1>1, <2>3
    <3>3. c[k] = q[k + 1] /\ ~ (k < i)
      BY <1>1, <1>3, <2>3, <3>1, <3>2
    <3> QED
      BY <3>3 DEF c
  <2>4. k < i \/ k >= i
    BY <1>1
  <2> QED
    BY <2>2, <2>3, <2>4
<1> QED
  BY <1>4, <1>5 DEF RemoveAt, a, b

LEMMA DeliverIs ==
    ASSUME NEW p \in Delivery, NEW i \in Nat \ {0}, NEW n \in Servers
    PROVE  /\ Deliver(p, i, n) \in Delivery
           /\ Len(Deliver(p, i, n).queue) <= Len(p.queue)
<1>1. /\ p.queue \in Seq([Servers -> Nat]) /\ p.clock \in [Servers -> Nat]
      /\ Len(p.queue) \in Nat
  BY DEF Delivery
<1>2. CASE i <= Len(p.queue) /\ Deliverable(p.queue[i], p.clock, n)
  <2>1. i \in 1..Len(p.queue)
    BY <1>2
  <2>2. RemoveAt(p.queue, i) \in Seq([Servers -> Nat])
        /\ Len(RemoveAt(p.queue, i)) = Len(p.queue) - 1
    BY <1>1, <2>1, RemovedAt
  <2>3. [p.clock EXCEPT ![n] = @ + 1] \in [Servers -> Nat]
    BY <1>1
  <2> QED
    BY <1>1, <1>2, <2>2, <2>3 DEF Deliver, Delivery
<1>3. CASE ~ (i <= Len(p.queue) /\ Deliverable(p.queue[i], p.clock, n))
  BY <1>1, <1>3 DEF Deliver
<1> QED
  BY <1>2, <1>3

(* The functions that Pass and Passes are defined with.                    *)
UpTo(f, p, n) ==
    f = [i \in 0..Len(p.queue) |-> IF i = 0 THEN p ELSE Deliver(f[i - 1], i, n)]

After(f, p, n) ==
    f = [k \in 0..Len(p.queue) |-> IF k = 0 THEN p ELSE Pass(f[k - 1], n)]

LEMMA PassIs ==
    ASSUME NEW p \in Delivery, NEW n \in Servers
    PROVE  \E f \in [0..Len(p.queue) -> Delivery] :
             /\ f[0] = p
             /\ \A i \in 1..Len(p.queue) : f[i] = Deliver(f[i - 1], i, n)
             /\ Pass(p, n) = f[Len(p.queue)]
<1> DEFINE L == Len(p.queue)
           step == [i \in 1..L |-> [d \in Delivery |-> Deliver(d, i, n)]]
<1>1. L \in Nat
  BY DEF Delivery
<1>2. step \in [1..L -> [Delivery -> Delivery]]
  BY DeliverIs
<1>3. \A i \in 1..L, d \in Delivery : step[i][d] = Deliver(d, i, n)
  OBVIOUS
<1> HIDE DEF step
<1>4. PICK g \in [0..L -> Delivery] : LoopOf(g, p, L, step)
  BY <1>1, <1>2, LoopExists
<1>5. UpTo(g, p, n)
  <2>1. \A i \in 0..L : g[i] = IF i = 0 THEN p ELSE step[i][g[i - 1]]
    BY <1>4 DEF LoopOf
  <2>2. \A i \in 1..L : g[i - 1] \in Delivery
    BY <1>1
  <2>3. \A i \in 0..L : g[i] = IF i = 0 THEN p ELSE Deliver(g[i - 1], i, n)
    BY <1>1, <1>3, <2>1, <2>2
  <2>4. g = [i \in 0..L |-> g[i]]
    OBVIOUS
  <2> QED
    BY <2>3, <2>4 DEF UpTo
<1> DEFINE f == CHOOSE h : UpTo(h, p, n)
<1>6. UpTo(f, p, n)
  BY <1>5, Zenon
<1>7. Pass(p, n) = f[L]
  BY Zenon DEF Pass, UpTo
<1> HIDE DEF f
<1>8. f[0] = p /\ \A i \in 1..L : f[i] = Deliver(f[i - 1], i, n)
  <2>1. \A i \in 0..L : f[i] = IF i = 0 THEN p ELSE Deliver(f[i - 1], i, n)
    BY <1>6, Zenon DEF UpTo
  <2>2. 0 \in 0..L /\ \A i \in 1..L : i \in 0..L /\ i # 0
    BY <1>1
  <2> QED
    BY <2>1, <2>2
<1>9. \A i \in 0..L : f[i] \in Delivery
  <2>1. \A i \in 1..L : f[i - 1] \in Delivery => f[i] \in Delivery
    BY <1>8, DeliverIs
  <2>2. 0 \in Nat /\ 0 + 1 = 1
    OBVIOUS
  <2> QED
    BY <1>1, <1>8, <2>1, <2>2, LoopKeeps
<1>10. f \in [0..L -> Delivery]
  BY <1>6, <1>9 DEF UpTo
<1> QED
  BY <1>7, <1>8, <1>10

LEMMA PassKeepsType ==
    ASSUME NEW p \in Delivery, NEW n \in Servers
    PROVE  Pass(p, n) \in Delivery
<1>1. Len(p.queue) \in Nat
  BY DEF Delivery
<1> QED
  BY <1>1, PassIs

LEMMA PassesIs ==
    ASSUME NEW p \in Delivery, NEW n \in Servers
    PROVE  \E f \in [0..Len(p.queue) -> Delivery] :
             /\ f[0] = p
             /\ \A i \in 1..Len(p.queue) : f[i] = Pass(f[i - 1], n)
             /\ Passes(p, n) = f[Len(p.queue)]
<1> DEFINE L == Len(p.queue)
           step == [i \in 1..L |-> [d \in Delivery |-> Pass(d, n)]]
<1>1. L \in Nat
  BY DEF Delivery
<1>2. step \in [1..L -> [Delivery -> Delivery]]
  BY PassKeepsType
<1>3. \A i \in 1..L, d \in Delivery : step[i][d] = Pass(d, n)
  OBVIOUS
<1> HIDE DEF step
<1>4. PICK g \in [0..L -> Delivery] : LoopOf(g, p, L, step)
  BY <1>1, <1>2, LoopExists
<1>5. After(g, p, n)
  <2>1. \A i \in 0..L : g[i] = IF i = 0 THEN p ELSE step[i][g[i - 1]]
    BY <1>4 DEF LoopOf
  <2>2. \A i \in 1..L : g[i - 1] \in Delivery
    BY <1>1
  <2>3. \A i \in 0..L : g[i] = IF i = 0 THEN p ELSE Pass(g[i - 1], n)
    BY <1>1, <1>3, <2>1, <2>2
  <2>4. g = [i \in 0..L |-> g[i]]
    OBVIOUS
  <2> QED
    BY <2>3, <2>4 DEF After
<1> DEFINE f == CHOOSE h : After(h, p, n)
<1>6. After(f, p, n)
  BY <1>5, Zenon
<1>7. Passes(p, n) = f[L]
  BY Zenon DEF Passes, After
<1> HIDE DEF f
<1>8. f[0] = p /\ \A i \in 1..L : f[i] = Pass(f[i - 1], n)
  <2>1. \A i \in 0..L : f[i] = IF i = 0 THEN p ELSE Pass(f[i - 1], n)
    BY <1>6, Zenon DEF After
  <2>2. 0 \in 0..L /\ \A i \in 1..L : i \in 0..L /\ i # 0
    BY <1>1
  <2> QED
    BY <2>1, <2>2
<1>9. \A i \in 0..L : f[i] \in Delivery
  <2>1. \A i \in 1..L : f[i - 1] \in Delivery => f[i] \in Delivery
    BY <1>8, PassKeepsType
  <2>2. 0 \in Nat /\ 0 + 1 = 1
    OBVIOUS
  <2> QED
    BY <1>1, <1>8, <2>1, <2>2, LoopKeeps
<1>10. f \in [0..L -> Delivery]
  BY <1>6, <1>9 DEF After
<1> QED
  BY <1>7, <1>8, <1>10

(* Nothing in the queue can be delivered.                                  *)
Clear(p, n) == \A i \in 1..Len(p.queue) : ~ Deliverable(p.queue[i], p.clock, n)

(* A pass over a queue with something to deliver delivers something.       *)
LEMMA PassDelivers ==
    ASSUME NEW p \in Delivery, NEW n \in Servers
    PROVE  /\ Clear(p, n) => Pass(p, n) = p
           /\ ~ Clear(p, n) => Len(Pass(p, n).queue) < Len(p.queue)
<1> DEFINE L == Len(p.queue)
<1>1. L \in Nat /\ p.queue \in Seq([Servers -> Nat]) /\ p.clock \in [Servers -> Nat]
  BY DEF Delivery
<1>2. PICK f \in [0..L -> Delivery] :
        /\ f[0] = p
        /\ \A i \in 1..L : f[i] = Deliver(f[i - 1], i, n)
        /\ Pass(p, n) = f[L]
  BY PassIs
<1>3. ASSUME NEW m \in 0..L, \A i \in 1..m : ~ Deliverable(p.queue[i], p.clock, n)
      PROVE  f[m] = p
  <2>1. \A i \in 1..m : i \in 1..L /\ Deliver(p, i, n) = p
    BY <1>1, <1>3 DEF Deliver
  <2>2. \A i \in 1..m : f[i - 1] \in {p} => f[i] \in {p}
    BY <1>2, <2>1
  <2>3. f[0] \in {p} /\ m \in Nat /\ 0 \in Nat /\ 0 + 1 = 1 /\ m \in 0..m
    BY <1>1, <1>2
  <2>4. \A i \in 0..m : f[i] \in {p}
    BY <2>2, <2>3, LoopKeeps
  <2> QED
    BY <2>3, <2>4
<1>4. ASSUME Clear(p, n) PROVE Pass(p, n) = p
  <2>1. f[L] = p
    BY <1>1, <1>3, <1>4 DEF Clear
  <2> QED
    BY <1>2, <2>1
<1>5. ASSUME ~ Clear(p, n) PROVE Len(Pass(p, n).queue) < L
  <2> DEFINE T == {i \in 1..L : Deliverable(p.queue[i], p.clock, n)}
  <2>1. T \subseteq Nat /\ T # {}
    BY <1>5 DEF Clear
  <2>2. PICK i \in T : \A j \in T : i <= j
    <3> HIDE DEF T
    <3> QED
      BY <2>1, LeastNatural
  <2>3. i \in 1..L /\ i - 1 \in 0..L /\ \A j \in 1..(i - 1) : j \in 1..L /\ j \notin T
    BY <1>1, <2>2
  <2>4. f[i - 1] = p
    BY <1>3, <2>3
  <2>5. f[i] = [queue |-> RemoveAt(p.queue, i), clock |-> [p.clock EXCEPT ![n] = @ + 1]]
    <3>1. f[i] = Deliver(p, i, n)
      BY <1>2, <2>3, <2>4
    <3>2. i <= Len(p.queue) /\ Deliverable(p.queue[i], p.clock, n)
      BY <1>1, <2>2, <2>3
    <3> QED
      BY <3>1, <3>2 DEF Deliver
  <2>6. Len(f[i].queue) = L - 1
    BY <1>1, <2>3, <2>5, RemovedAt
  <2> DEFINE G == {d \in Delivery : Len(d.queue) < L}
  <2>7. f[i] \in G
    BY <1>1, <1>2, <2>3, <2>6
  <2>8. \A j \in (i + 1)..L : f[j - 1] \in G => f[j] \in G
    <3> SUFFICES ASSUME NEW j \in (i + 1)..L, f[j - 1] \in G PROVE f[j] \in G
      OBVIOUS
    <3>1. j \in Nat \ {0} /\ j \in 1..L /\ f[j] = Deliver(f[j - 1], j, n)
      BY <1>1, <1>2, <2>3
    <3>2. /\ Deliver(f[j - 1], j, n) \in Delivery
          /\ Len(Deliver(f[j - 1], j, n).queue) <= Len(f[j - 1].queue)
      BY <3>1, DeliverIs
    <3>3. Len(f[j].queue) \in Nat /\ Len(f[j - 1].queue) \in Nat
      BY <3>1, <3>2 DEF Delivery
    <3> QED
      BY <1>1, <3>1, <3>2, <3>3
  <2>9. i \in Nat /\ L \in Nat /\ L \in i..L
    BY <1>1, <2>3
  <2>10. \A j \in i..L : f[j] \in G
    <3> HIDE DEF G, L
    <3> QED
      BY <2>7, <2>8, <2>9, LoopKeeps
  <2> QED
    BY <1>2, <2>9, <2>10
<1> QED
  BY <1>4, <1>5

(* After the passes nothing is left in the queue that could be delivered.  *)
LEMMA PassesClear ==
    ASSUME NEW p \in Delivery, NEW n \in Servers
    PROVE  Clear(Passes(p, n), n)
<1> DEFINE L == Len(p.queue)
<1>1. L \in Nat
  BY DEF Delivery
<1>2. PICK f \in [0..L -> Delivery] :
        /\ f[0] = p
        /\ \A i \in 1..L : f[i] = Pass(f[i - 1], n)
        /\ Passes(p, n) = f[L]
  BY PassesIs
<1> DEFINE H == {i \in 0..L : Clear(f[i], n) \/ Len(f[i].queue) <= L - i}
<1>3. 0 \in H
  BY <1>1, <1>2
<1>4. ASSUME NEW i \in 1..L, i - 1 \in H PROVE i \in H
  <2>1. i - 1 \in 0..L /\ i \in 0..L /\ f[i - 1] \in Delivery /\ f[i] = Pass(f[i - 1], n)
    BY <1>1, <1>2
  <2>2. CASE Clear(f[i - 1], n)
    BY <2>1, <2>2, PassDelivers
  <2>3. CASE ~ Clear(f[i - 1], n)
    <3>1. Len(f[i].queue) < Len(f[i - 1].queue)
      BY <2>1, <2>3, PassDelivers
    <3>2. Len(f[i - 1].queue) <= L - (i - 1)
      BY <1>4, <2>3
    <3>3. Len(f[i].queue) \in Nat /\ Len(f[i - 1].queue) \in Nat
      BY <1>2, <2>1 DEF Delivery
    <3>4. Len(f[i].queue) <= L - i
      BY <1>1, <3>1, <3>2, <3>3
    <3> QED
      BY <2>1, <3>4
  <2> QED
    BY <2>2, <2>3
<1>5. \A i \in 0..L : i \in H
  <2>1. 0 \in Nat /\ 0 + 1 = 1
    OBVIOUS
  <2> HIDE DEF H, L
  <2> QED
    BY <1>1, <1>3, <1>4, <2>1, Climb
<1>6. Clear(f[L], n) \/ Len(f[L].queue) <= 0
  BY <1>1, <1>5
<1>7. Len(f[L].queue) <= 0 => Clear(f[L], n)
  <2>1. Len(f[L].queue) \in Nat
    BY <1>1, <1>2 DEF Delivery
  <2> QED
    BY <2>1 DEF Clear
<1> QED
  BY <1>2, <1>6, <1>7

-----------------------------------------------------------------------------
(* The clock c counts posts that were made, and with a post all that its   *)
(* poster had counted.                                                     *)
Cut(c) ==
    \A n \in Servers :
        /\ c[n] <= Len(causalPosted[n])
        /\ c[n] > 0 => \A i \in Servers : causalPosted[n][c[n]][i] <= c[i]

PostedClock(c) ==
    \E m \in Servers : \E k \in 1..Len(causalPosted[m]) : c = causalPosted[m][k]

(* The clocks of the posts of a server grow, its own count by one.         *)
Growing ==
    \A m \in Servers : \A k \in 1..Len(causalPosted[m]) :
        /\ causalPosted[m][k][m] = k
        /\ \A l \in 1..k, i \in Servers : causalPosted[m][l][i] <= causalPosted[m][k][i]

PostsTyped == causalPosted \in [Servers -> Seq(Clocks)]

(* What the loop may have made of the clock own, for a datagram from n.    *)
Reached(own, n) ==
    {p \in Delivery :
        /\ \A i \in 1..Len(p.queue) : PostedClock(p.queue[i])
        /\ Cut(p.clock)
        /\ \A i \in Servers \ {n} : p.clock[i] = own[i]
        /\ p.clock[n] >= own[n]}

(* A clock held back that can be delivered is that of a post of n, for     *)
(* with a post of another server, which is counted, all was counted that   *)
(* this server had seen.                                                   *)
LEMMA DeliveredIs ==
    ASSUME PostsTyped, Growing, NEW c \in [Servers -> Nat], Cut(c), NEW n \in Servers,
           NEW q, PostedClock(q), Deliverable(q, c, n)
    PROVE  c[n] + 1 \in 1..Len(causalPosted[n]) /\ q = causalPosted[n][c[n] + 1]
<1>1. PICK m \in Servers : \E k \in 1..Len(causalPosted[m]) : q = causalPosted[m][k]
  BY DEF PostedClock
<1>2. PICK k \in 1..Len(causalPosted[m]) : q = causalPosted[m][k]
  BY <1>1
<1>3. /\ k \in Nat /\ k > 0 /\ k <= Len(causalPosted[m])
      /\ \A s \in Servers : c[s] \in Nat /\ Len(causalPosted[s]) \in Nat
  BY DEF PostsTyped
<1>4. q[m] = k /\ q[n] = c[n] + 1
  BY <1>2 DEF Growing, Deliverable
<1>5. ASSUME m # n PROVE FALSE
  <2>1. k <= c[m]
    BY <1>4, <1>5 DEF Deliverable, have_seen_all
  <2>2. c[m] \in 1..Len(causalPosted[m]) /\ k \in 1..c[m]
    BY <1>3, <2>1 DEF Cut
  <2>3. causalPosted[m][k][n] <= causalPosted[m][c[m]][n]
    BY <2>2 DEF Growing
  <2>4. causalPosted[m][c[m]][n] <= c[n]
    BY <1>3, <2>2 DEF Cut
  <2>5. causalPosted[m][c[m]][n] \in Nat
    BY <2>2 DEF PostsTyped, Clocks
  <2> QED
    BY <1>2, <1>3, <1>4, <2>3, <2>4, <2>5
<1> QED
  BY <1>2, <1>3, <1>4, <1>5

LEMMA DeliverReached ==
    ASSUME PostsTyped, Growing, NEW own \in [Servers -> Nat], NEW n \in Servers,
           NEW p \in Reached(own, n), NEW i \in Nat \ {0}
    PROVE  Deliver(p, i, n) \in Reached(own, n)
<1>1. /\ p \in Delivery /\ p.queue \in Seq([Servers -> Nat]) /\ Len(p.queue) \in Nat
      /\ p.clock \in [Servers -> Nat] /\ Deliver(p, i, n) \in Delivery
  <2>1. p \in Delivery
    BY DEF Reached
  <2>2. Deliver(p, i, n) \in Delivery
    BY <2>1, DeliverIs
  <2> QED
    BY <2>1, <2>2 DEF Delivery
<1>2. CASE i <= Len(p.queue) /\ Deliverable(p.queue[i], p.clock, n)
  <2> DEFINE c == p.clock
             d == [c EXCEPT ![n] = @ + 1]
             q == RemoveAt(p.queue, i)
  <2>1. i \in 1..Len(p.queue) /\ PostedClock(p.queue[i]) /\ Cut(c)
    BY <1>2 DEF Reached
  <2>2. c[n] + 1 \in 1..Len(causalPosted[n]) /\ p.queue[i] = causalPosted[n][c[n] + 1]
    BY <1>1, <1>2, <2>1, DeliveredIs
  <2>3. /\ d[n] = c[n] + 1 /\ \A s \in Servers \ {n} : d[s] = c[s]
        /\ \A s \in Servers : c[s] \in Nat /\ d[s] \in Nat /\ c[s] <= d[s]
    BY <1>1
  <2>4. \A s \in Servers : causalPosted[n][d[n]][s] <= d[s]
    <3>1. d[n] \in 1..Len(causalPosted[n])
      BY <2>2, <2>3
    <3>2. causalPosted[n][d[n]][n] = d[n]
      BY <3>1 DEF Growing
    <3>3. \A s \in Servers \ {n} : causalPosted[n][d[n]][s] <= c[s]
      BY <1>2, <2>2, <2>3 DEF Deliverable, have_seen_all
    <3> QED
      BY <2>3, <3>2, <3>3
  <2>5. Cut(d)
    <3> SUFFICES ASSUME NEW m \in Servers
                 PROVE  /\ d[m] <= Len(causalPosted[m])
                        /\ d[m] > 0 =>
                             \A s \in Servers : causalPosted[m][d[m]][s] <= d[s]
      BY DEF Cut
    <3>1. CASE m = n
      BY <2>2, <2>3, <2>4, <3>1
    <3>2. CASE m # n
      <4>1. d[m] = c[m] /\ d[m] <= Len(causalPosted[m])
        BY <2>1, <2>3, <3>2 DEF Cut
      <4>2. ASSUME d[m] > 0, NEW s \in Servers PROVE causalPosted[m][d[m]][s] <= d[s]
        <5>1. causalPosted[m][d[m]][s] <= c[s]
          BY <2>1, <4>1, <4>2 DEF Cut
        <5>2. causalPosted[m][d[m]][s] \in Nat
          <6>1. d[m] \in 1..Len(causalPosted[m])
            BY <2>3, <4>1, <4>2 DEF PostsTyped
          <6> QED
            BY <6>1 DEF PostsTyped, Clocks
        <5> QED
          BY <2>3, <5>1, <5>2
      <4> QED
        BY <4>1, <4>2
    <3> QED
      BY <3>1, <3>2
  <2>6. \A k \in 1..Len(q) : PostedClock(q[k])
    <3>1. /\ Len(q) = Len(p.queue) - 1
          /\ \A k \in 1..(Len(p.queue) - 1) :
               q[k] = IF k < i THEN p.queue[k] ELSE p.queue[k + 1]
      BY <1>1, <2>1, RemovedAt
    <3>2. \A k \in 1..Len(p.queue) : PostedClock(p.queue[k])
      BY DEF Reached
    <3>3. \A k \in 1..(Len(p.queue) - 1) :
            k \in 1..Len(p.queue) /\ k + 1 \in 1..Len(p.queue)
      BY <1>1
    <3> HIDE DEF q
    <3> QED
      BY <3>1, <3>2, <3>3
  <2>7. (\A s \in Servers \ {n} : d[s] = own[s]) /\ d[n] >= own[n]
    <3>1. (\A s \in Servers \ {n} : c[s] = own[s]) /\ c[n] >= own[n]
      BY DEF Reached
    <3> QED
      BY <2>3, <3>1
  <2>8. Deliver(p, i, n).queue = q /\ Deliver(p, i, n).clock = d
    BY <1>2 DEF Deliver
  <2> HIDE DEF q, d
  <2> QED
    BY <1>1, <2>5, <2>6, <2>7, <2>8 DEF Reached
<1>3. CASE ~ (i <= Len(p.queue) /\ Deliverable(p.queue[i], p.clock, n))
  BY <1>3 DEF Deliver
<1> QED
  BY <1>2, <1>3

LEMMA PassReached ==
    ASSUME PostsTyped, Growing, NEW own \in [Servers -> Nat], NEW n \in Servers,
           NEW p \in Reached(own, n)
    PROVE  Pass(p, n) \in Reached(own, n)
<1> DEFINE L == Len(p.queue)
<1>1. p \in Delivery /\ L \in Nat /\ L \in 0..L /\ 0 \in Nat /\ 0 + 1 = 1
  BY DEF Reached, Delivery
<1>2. PICK f \in [0..L -> Delivery] :
        /\ f[0] = p
        /\ \A i \in 1..L : f[i] = Deliver(f[i - 1], i, n)
        /\ Pass(p, n) = f[L]
  BY <1>1, PassIs
<1>3. \A i \in 1..L : f[i - 1] \in Reached(own, n) => f[i] \in Reached(own, n)
  BY <1>2, DeliverReached
<1>4. \A i \in 0..L : f[i] \in Reached(own, n)
  <2> HIDE DEF L
  <2> QED
    BY <1>1, <1>2, <1>3, LoopKeeps
<1> QED
  BY <1>1, <1>2, <1>4

LEMMA PassesReached ==
    ASSUME PostsTyped, Growing, NEW own \in [Servers -> Nat], NEW n \in Servers,
           NEW p \in Reached(own, n)
    PROVE  Passes(p, n) \in Reached(own, n)
<1> DEFINE L == Len(p.queue)
<1>1. p \in Delivery /\ L \in Nat /\ L \in 0..L /\ 0 \in Nat /\ 0 + 1 = 1
  BY DEF Reached, Delivery
<1>2. PICK f \in [0..L -> Delivery] :
        /\ f[0] = p
        /\ \A i \in 1..L : f[i] = Pass(f[i - 1], n)
        /\ Passes(p, n) = f[L]
  BY <1>1, PassesIs
<1>3. \A i \in 1..L : f[i - 1] \in Reached(own, n) => f[i] \in Reached(own, n)
  BY <1>2, PassReached
<1>4. \A i \in 0..L : f[i] \in Reached(own, n)
  <2> HIDE DEF L
  <2> QED
    BY <1>1, <1>2, <1>3, LoopKeeps
<1> QED
  BY <1>1, <1>2, <1>4

-----------------------------------------------------------------------------
(* The inductive invariant: a server's clock counts all its posts and no   *)
(* more of the others' than it has been told of, and every clock that is   *)
(* in flight or held back is that of a post.                               *)
OwnPosts ==
    \A s \in Servers :
        /\ CLOCK[s][s] = Len(causalPosted[s])
        /\ \A k \in 1..Len(causalPosted[s]), i \in Servers : causalPosted[s][k][i] <= CLOCK[s][i]

FromPosts ==
    \A m \in causalNet :
        /\ m.dst # m.src
        /\ m.text \in 1..Len(causalPosted[m.src])
        /\ m.clock = causalPosted[m.src][m.text]

HeldBack ==
    \A s \in Servers, r \in Rooms : \A i \in 1..Len(HOLD_BACK_QUEUE_CAUSAL[s][r]) :
        PostedClock(HOLD_BACK_QUEUE_CAUSAL[s][r][i])

Bounded == \A s \in Servers : Len(causalPosted[s]) <= CausalPosts

CausalInv ==
    /\ CausalTypeOK /\ Growing /\ OwnPosts /\ FromPosts /\ HeldBack /\ ConsistentCut
    /\ Bounded

LEMMA CausalBasics ==
    /\ CausalPosts \in Nat
    /\ \A s \in Servers : s \in Nat
    /\ IsFiniteSet(Servers)
    /\ Clocks \subseteq [Servers -> Nat]
<1>1. CausalPosts \in Nat /\ NumServers \in Nat
  BY CausalAssumption, ServersAssumption
<1>2. 1 \in Int /\ NumServers \in Int
  BY <1>1
<1>3. IsFiniteSet(Servers)
  BY <1>2, FS_Interval, Zenon DEF Servers
<1> QED
  BY <1>1, <1>3 DEF Servers, Clocks

(* There are at least as many posts as one server has made.                *)
LEMMA PostsCounted ==
    ASSUME PostsTyped, NEW s \in Servers
    PROVE  Cardinality(AllPosts) \in Nat /\ Len(causalPosted[s]) <= Cardinality(AllPosts)
<1> DEFINE Of(n) == {n} \X (1..Len(causalPosted[n]))
           All == {Of(n) : n \in Servers}
<1>1. ASSUME NEW n \in Servers
      PROVE  IsFiniteSet(Of(n)) /\ Cardinality(Of(n)) = Len(causalPosted[n])
  <2>1. Len(causalPosted[n]) \in Nat
    BY DEF PostsTyped
  <2>2. /\ IsFiniteSet(1..Len(causalPosted[n]))
        /\ Cardinality(1..Len(causalPosted[n])) = Len(causalPosted[n])
    <3>1. 1 \in Int /\ Len(causalPosted[n]) \in Int
      BY <2>1
    <3> QED
      BY <2>1, <3>1, FS_Interval
  <2>3. IsFiniteSet({n}) /\ Cardinality({n}) = 1
    BY FS_Singleton
  <2>4. /\ IsFiniteSet(Of(n))
        /\ Cardinality(Of(n)) = Cardinality({n}) * Cardinality(1..Len(causalPosted[n]))
    BY <2>2, <2>3, FS_Product
  <2> QED
    BY <2>1, <2>2, <2>3, <2>4
<1>2. IsFiniteSet(All) /\ \A T \in All : IsFiniteSet(T)
  <2>1. IsFiniteSet(All)
    <3> DEFINE f == [n \in Servers |-> Of(n)]
    <3>1. f \in Surjection(Servers, All)
      BY DEF Surjection
    <3> HIDE DEF f, All
    <3> QED
      BY <3>1, CausalBasics, FS_Surjection
  <2> QED
    BY <1>1, <2>1
<1>3. IsFiniteSet(UNION All) /\ AllPosts = UNION All
  BY <1>2, FS_UNION DEF AllPosts
<1>4. Of(s) \in SUBSET (UNION All)
  OBVIOUS
<1>5. Cardinality(Of(s)) <= Cardinality(UNION All)
  BY <1>3, <1>4, FS_Subset
<1>6. Cardinality(UNION All) \in Nat
  BY <1>3, FS_CardinalityType
<1> HIDE DEF Of, All
<1> QED
  BY <1>1, <1>3, <1>5, <1>6

LEMMA CausalInitInv == CausalInit => CausalInv
<1> SUFFICES ASSUME CausalInit PROVE CausalInv
  OBVIOUS
<1>1. CausalPosts \in Nat
  BY CausalBasics
<1>2. CausalTypeOK
  BY <1>1 DEF CausalInit, CausalTypeOK, Clocks
<1>3. \A s \in Servers : causalPosted[s] = <<>> /\ Len(causalPosted[s]) = 0
  BY DEF CausalInit
<1>4. Growing /\ OwnPosts
  BY <1>3 DEF CausalInit, Growing, OwnPosts
<1>5. FromPosts /\ HeldBack
  BY DEF CausalInit, FromPosts, HeldBack
<1>6. ConsistentCut /\ Bounded
  BY <1>1, <1>3 DEF CausalInit, ConsistentCut, Bounded
<1> QED
  BY <1>2, <1>4, <1>5, <1>6 DEF CausalInv

(* The clocks of posts are not changed by a new one.                       *)
LEMMA PostChanges ==
    ASSUME CausalInv, NEW s \in Servers, NEW r \in Rooms, CausalPost(s, r)
    PROVE  LET clock == [CLOCK[s] EXCEPT ![s] = CLOCK[s][s] + 1]
           IN  /\ clock \in Clocks
               /\ causalPosted' \in [Servers -> Seq(Clocks)]
               /\ \A n \in Servers : Len(causalPosted'[n]) =
                    IF n = s THEN Len(causalPosted[n]) + 1 ELSE Len(causalPosted[n])
               /\ causalPosted'[s][Len(causalPosted[s]) + 1] = clock
               /\ \A n \in Servers : \A k \in 1..Len(causalPosted[n]) :
                    causalPosted'[n][k] = causalPosted[n][k]
               /\ Len(causalPosted[s]) < CausalPosts
<1> DEFINE clock == [CLOCK[s] EXCEPT ![s] = CLOCK[s][s] + 1]
<1>1. CausalPosts \in Nat /\ CLOCK[s] \in Clocks /\ CLOCK[s][s] = Len(causalPosted[s])
  BY CausalBasics DEF CausalInv, CausalTypeOK, OwnPosts
<1>2. PostsTyped
  BY DEF CausalInv, CausalTypeOK, PostsTyped
<1>3. Len(causalPosted[s]) < CausalPosts
  <2>1. Cardinality(AllPosts) < CausalPosts
    BY DEF CausalPost
  <2>2. Len(causalPosted[s]) \in Nat
    BY <1>2 DEF PostsTyped
  <2> QED
    BY <1>1, <1>2, <2>1, <2>2, PostsCounted
<1>4. clock \in Clocks
  BY <1>1, <1>3 DEF Clocks
<1>5. causalPosted' = [causalPosted EXCEPT ![s] = Append(@, clock)]
  BY DEF CausalPost
<1> HIDE DEF clock
<1>6. causalPosted' \in [Servers -> Seq(Clocks)]
  BY <1>2, <1>4, <1>5 DEF PostsTyped
<1>7. /\ causalPosted'[s] = Append(causalPosted[s], clock)
      /\ \A n \in Servers \ {s} : causalPosted'[n] = causalPosted[n]
      /\ causalPosted[s] \in Seq(Clocks)
  BY <1>2, <1>5 DEF PostsTyped
<1>8. /\ Len(causalPosted'[s]) = Len(causalPosted[s]) + 1
      /\ causalPosted'[s][Len(causalPosted[s]) + 1] = clock
      /\ \A k \in 1..Len(causalPosted[s]) : causalPosted'[s][k] = causalPosted[s][k]
  BY <1>4, <1>7, AppendProperties
<1> QED
  BY <1>3, <1>4, <1>6, <1>7, <1>8 DEF clock

LEMMA CausalPostInv ==
    ASSUME CausalInv, NEW s \in Servers, NEW r \in Rooms, CausalPost(s, r)
    PROVE  CausalInv'
<1> DEFINE L == Len(causalPosted[s])
           clock == [CLOCK[s] EXCEPT ![s] = CLOCK[s][s] + 1]
<1>1. /\ CausalTypeOK /\ Growing /\ OwnPosts /\ FromPosts /\ HeldBack /\ ConsistentCut
      /\ Bounded /\ CausalPosts \in Nat /\ Clocks \subseteq [Servers -> Nat]
      /\ CLOCK \in [Servers -> Clocks]
  BY CausalBasics DEF CausalInv, CausalTypeOK
<1>2. /\ clock \in Clocks
      /\ causalPosted' \in [Servers -> Seq(Clocks)]
      /\ \A n \in Servers : Len(causalPosted'[n]) =
           IF n = s THEN Len(causalPosted[n]) + 1 ELSE Len(causalPosted[n])
      /\ causalPosted'[s][L + 1] = clock
      /\ \A n \in Servers : \A k \in 1..Len(causalPosted[n]) :
           causalPosted'[n][k] = causalPosted[n][k]
      /\ L < CausalPosts
  BY PostChanges
<1>3. /\ CLOCK[s][s] = L /\ clock[s] = L + 1
      /\ \A i \in Servers : CLOCK[s][i] \in Nat /\ clock[i] \in Nat /\ CLOCK[s][i] <= clock[i]
      /\ \A i \in Servers \ {s} : clock[i] = CLOCK[s][i]
  <2>1. CLOCK[s] \in [Servers -> Nat] /\ CLOCK[s][s] = L
    BY <1>1 DEF OwnPosts
  <2> QED
    BY <2>1
<1>4. CLOCK' = [CLOCK EXCEPT ![s] = clock]
  BY DEF CausalPost
<1>5. /\ \A n \in Servers : Len(causalPosted[n]) \in Nat
      /\ \A n \in Servers : \A k \in 1..Len(causalPosted[n]) :
           causalPosted[n][k] \in [Servers -> Nat]
  BY <1>1 DEF CausalTypeOK
<1> HIDE DEF clock, L
<1>6. /\ \A n \in Servers \ {s} : CLOCK'[n] = CLOCK[n]
      /\ CLOCK'[s] = clock /\ CLOCK' \in [Servers -> Clocks]
  BY <1>1, <1>2, <1>4
<1>7. ASSUME NEW n \in Servers, NEW k \in 1..Len(causalPosted'[n])
      PROVE  \/ k \in 1..Len(causalPosted[n])
             \/ n = s /\ k = L + 1
  BY <1>2, <1>5 DEF L
<1>8. CausalTypeOK'
  <2>1. L + 1 \in 1..CausalPosts
    BY <1>1, <1>2, <1>5 DEF L
  <2>2. CLOCK[s][s] + 1 = L + 1
    BY <1>3
  <2>3. causalForwarded' \in
          [Servers -> Seq([src : Servers, room : Rooms, text : 1..CausalPosts])]
    <3> DEFINE T == [src : Servers, room : Rooms, text : 1..CausalPosts]
               e == Text(s, r, CLOCK[s][s] + 1)
    <3>1. e \in T
      BY <2>1, <2>2 DEF Text
    <3>2. /\ causalForwarded' = [causalForwarded EXCEPT ![s] = Append(@, e)]
          /\ causalForwarded \in [Servers -> Seq(T)]
      BY <1>1 DEF CausalPost, CausalTypeOK
    <3> HIDE DEF T, e
    <3>3. Append(causalForwarded[s], e) \in Seq(T)
      BY <3>1, <3>2, AppendProperties
    <3>4. causalForwarded' \in [Servers -> Seq(T)]
      BY <3>2, <3>3
    <3> QED
      BY <3>4 DEF T
  <2>4. causalNet' \subseteq Datagram
    <3>1. causalNet' = causalNet \cup
            {[src |-> s, dst |-> d, room |-> r, clock |-> clock, text |-> L + 1] :
               d \in forward_to_servers(s, FALSE)}
      BY <2>2 DEF CausalPost, clock
    <3>2. forward_to_servers(s, FALSE) \subseteq Servers
      BY DEF forward_to_servers
    <3>3. \A d \in Servers :
            [src |-> s, dst |-> d, room |-> r, clock |-> clock, text |-> L + 1] \in Datagram
      BY <1>2, <2>1 DEF Datagram
    <3> QED
      BY <1>1, <3>1, <3>2, <3>3 DEF CausalTypeOK
  <2> QED
    BY <1>1, <1>2, <1>6, <2>3, <2>4 DEF CausalPost, CausalTypeOK
<1>9. Growing'
  <2> SUFFICES ASSUME NEW m \in Servers, NEW k \in 1..Len(causalPosted'[m])
               PROVE  /\ causalPosted'[m][k][m] = k
                      /\ \A l \in 1..k, i \in Servers :
                           causalPosted'[m][l][i] <= causalPosted'[m][k][i]
    BY DEF Growing
  <2>1. CASE k \in 1..Len(causalPosted[m])
    <3>1. \A l \in 1..k : l \in 1..Len(causalPosted[m])
      BY <1>5, <2>1
    <3>2. \A l \in 1..k : causalPosted'[m][l] = causalPosted[m][l]
      BY <1>2, <3>1
    <3>3. /\ causalPosted[m][k][m] = k
          /\ \A l \in 1..k, i \in Servers : causalPosted[m][l][i] <= causalPosted[m][k][i]
      BY <1>1, <2>1 DEF Growing
    <3>4. causalPosted'[m][k] = causalPosted[m][k]
      BY <1>2, <2>1
    <3> QED
      BY <3>2, <3>3, <3>4
  <2>2. CASE m = s /\ k = L + 1
    <3>1. causalPosted'[m][k] = clock /\ clock[m] = k
      BY <1>2, <1>3, <2>2
    <3>2. ASSUME NEW l \in 1..k, NEW i \in Servers PROVE causalPosted'[m][l][i] <= clock[i]
      <4>1. CASE l = k
        BY <1>3, <3>1, <4>1
      <4>2. CASE l # k
        <5>1. l \in 1..Len(causalPosted[s])
          BY <1>5, <2>2, <4>2 DEF L
        <5>2. causalPosted'[m][l] = causalPosted[s][l] /\ causalPosted[s][l][i] \in Nat
          BY <1>2, <1>5, <2>2, <5>1
        <5>3. causalPosted[s][l][i] <= CLOCK[s][i]
          BY <1>1, <5>1 DEF OwnPosts
        <5> QED
          BY <1>3, <5>2, <5>3
      <4> QED
        BY <4>1, <4>2
    <3> QED
      BY <3>1, <3>2
  <2> QED
    BY <1>7, <2>1, <2>2
<1>10. OwnPosts'
  <2> SUFFICES ASSUME NEW m \in Servers
               PROVE  /\ CLOCK'[m][m] = Len(causalPosted'[m])
                      /\ \A k \in 1..Len(causalPosted'[m]), i \in Servers :
                           causalPosted'[m][k][i] <= CLOCK'[m][i]
    BY DEF OwnPosts
  <2>1. CASE m # s
    BY <1>1, <1>2, <1>6, <2>1 DEF OwnPosts
  <2>2. CASE m = s
    <3>1. Len(causalPosted'[s]) = L + 1 /\ CLOCK'[s] = clock /\ L \in Nat
      BY <1>2, <1>5, <1>6 DEF L
    <3>2. L + 1 \in 1..Len(causalPosted'[s]) /\ causalPosted'[s][L + 1] = clock
      BY <1>2, <3>1
    <3>3. \A k \in 1..(L + 1), i \in Servers : causalPosted'[s][k][i] <= clock[i]
      <4>1. \A l \in 1..(L + 1), i \in Servers :
              causalPosted'[s][l][i] <= causalPosted'[s][L + 1][i]
        BY <1>9, <3>1, <3>2 DEF Growing
      <4> QED
        BY <3>2, <4>1
    <3> QED
      BY <1>3, <2>2, <3>1, <3>3
  <2> QED
    BY <2>1, <2>2
<1>11. FromPosts'
  <2> SUFFICES ASSUME NEW m \in causalNet'
               PROVE  /\ m.dst # m.src
                      /\ m.text \in 1..Len(causalPosted'[m.src])
                      /\ m.clock = causalPosted'[m.src][m.text]
    BY DEF FromPosts
  <2>1. CASE m \in causalNet
    <3>1. m.src \in Servers /\ m.text \in 1..Len(causalPosted[m.src])
      BY <1>1, <2>1 DEF CausalTypeOK, Datagram, FromPosts
    <3>2. m.text \in 1..Len(causalPosted'[m.src])
      BY <1>2, <1>5, <3>1
    <3> QED
      BY <1>1, <1>2, <2>1, <3>1, <3>2 DEF FromPosts
  <2>2. CASE m \notin causalNet
    <3>1. PICK d \in forward_to_servers(s, FALSE) :
            m = [src |-> s, dst |-> d, room |-> r, clock |-> clock, text |-> L + 1]
      BY <1>3, <2>2 DEF CausalPost, clock
    <3>2. d # s
      BY DEF forward_to_servers
    <3>3. L + 1 \in 1..Len(causalPosted'[s])
      BY <1>2, <1>5 DEF L
    <3> QED
      BY <1>2, <3>1, <3>2, <3>3
  <2> QED
    BY <2>1, <2>2
<1>12. HeldBack'
  <2>1. \A c : PostedClock(c) => PostedClock(c)'
    <3> SUFFICES ASSUME NEW c, PostedClock(c) PROVE PostedClock(c)'
      OBVIOUS
    <3>1. PICK m \in Servers : \E k \in 1..Len(causalPosted[m]) : c = causalPosted[m][k]
      BY DEF PostedClock
    <3>2. PICK k \in 1..Len(causalPosted[m]) : c = causalPosted[m][k]
      BY <3>1
    <3>3. k \in 1..Len(causalPosted'[m]) /\ c = causalPosted'[m][k]
      BY <1>2, <1>5, <3>2
    <3> QED
      BY <3>3 DEF PostedClock
  <2> QED
    BY <1>1, <2>1 DEF HeldBack, CausalPost
<1>13. ConsistentCut'
  <2> SUFFICES ASSUME NEW m \in Servers, NEW n \in Servers
               PROVE  /\ CLOCK'[m][n] <= Len(causalPosted'[n])
                      /\ CLOCK'[m][n] > 0 => \A i \in Servers :
                           causalPosted'[n][CLOCK'[m][n]][i] <= CLOCK'[m][i]
    BY DEF ConsistentCut
  <2>1. CASE m = s /\ n = s
    <3>1. CLOCK'[m][n] = L + 1 /\ CLOCK'[m] = clock /\ Len(causalPosted'[n]) = L + 1 /\ L \in Nat
      BY <1>2, <1>3, <1>5, <1>6, <2>1 DEF L
    <3> QED
      BY <1>2, <1>3, <2>1, <3>1
  <2>2. CASE ~ (m = s /\ n = s)
    <3>1. /\ CLOCK'[m][n] = CLOCK[m][n] /\ CLOCK[m][n] \in Nat
          /\ \A i \in Servers : CLOCK[m][i] \in Nat /\ CLOCK[m][i] <= CLOCK'[m][i]
      <4>1. CLOCK[m] \in [Servers -> Nat]
        BY <1>1
      <4>2. CASE m = s
        BY <1>3, <1>6, <2>2, <4>1, <4>2
      <4>3. CASE m # s
        BY <1>6, <4>1, <4>3
      <4> QED
        BY <4>2, <4>3
    <3>2. CLOCK[m][n] <= Len(causalPosted[n])
      BY <1>1 DEF ConsistentCut
    <3>3. CLOCK'[m][n] <= Len(causalPosted'[n])
      BY <1>2, <1>5, <3>1, <3>2
    <3>4. ASSUME CLOCK'[m][n] > 0, NEW i \in Servers
          PROVE  causalPosted'[n][CLOCK'[m][n]][i] <= CLOCK'[m][i]
      <4>1. CLOCK[m][n] \in 1..Len(causalPosted[n])
        BY <1>5, <3>1, <3>2, <3>4
      <4>2. causalPosted[n][CLOCK[m][n]][i] <= CLOCK[m][i]
        BY <1>1, <3>1, <3>4 DEF ConsistentCut
      <4>3. causalPosted[n][CLOCK[m][n]][i] \in Nat
        BY <1>5, <4>1
      <4>4. causalPosted'[n][CLOCK[m][n]] = causalPosted[n][CLOCK[m][n]]
        BY <1>2, <4>1
      <4>5. causalPosted'[n][CLOCK'[m][n]][i] = causalPosted[n][CLOCK[m][n]][i]
        BY <3>1, <4>4
      <4>6. CLOCK[m][i] \in Nat /\ CLOCK[m][i] <= CLOCK'[m][i] /\ CLOCK'[m][i] \in Nat
        BY <1>1, <1>6, <3>1
      <4> QED
        BY <4>2, <4>3, <4>5, <4>6
    <3> QED
      BY <3>3, <3>4
  <2> QED
    BY <2>1, <2>2
<1>14. Bounded'
  <2>1. \A n \in Servers : Len(causalPosted'[n]) <= CausalPosts
    <3> SUFFICES ASSUME NEW n \in Servers PROVE Len(causalPosted'[n]) <= CausalPosts
      OBVIOUS
    <3>1. L < CausalPosts /\ L \in Nat /\ CausalPosts \in Nat
      BY <1>1, <1>2, <1>5 DEF L
    <3>2. CASE n = s
      <4>1. Len(causalPosted'[s]) = L + 1
        BY <1>2 DEF L
      <4> QED
        BY <3>1, <3>2, <4>1
    <3>3. CASE n # s
      <4>1. Len(causalPosted'[n]) = Len(causalPosted[n])
        BY <1>2, <3>3
      <4>2. Len(causalPosted[n]) <= CausalPosts
        BY <1>1 DEF Bounded
      <4> QED
        BY <4>1, <4>2
    <3> QED
      BY <3>2, <3>3
  <2> QED
    BY <2>1, Zenon DEF Bounded
<1> QED
  BY <1>8, <1>9, <1>10, <1>11, <1>12, <1>13, <1>14 DEF CausalInv

LEMMA ReceiveInv ==
    ASSUME CausalInv, NEW m \in causalNet, Receive(m)
    PROVE  /\ CausalInv'
           /\ \A i \in 1..Len(HOLD_BACK_QUEUE_CAUSAL'[m.dst][m.room]) :
                ~ Deliverable(HOLD_BACK_QUEUE_CAUSAL'[m.dst][m.room][i], CLOCK'[m.dst], m.src)
<1> DEFINE s == m.dst
           n == m.src
           r == m.room
           queue == Append(HOLD_BACK_QUEUE_CAUSAL[s][r], m.clock)
           before == [queue |-> queue, clock |-> CLOCK[s]]
           after == Passes(before, n)
           count == after.clock[n] - CLOCK[s][n]
<1>1. /\ CausalTypeOK /\ Growing /\ OwnPosts /\ FromPosts /\ HeldBack /\ ConsistentCut
      /\ Bounded /\ CausalPosts \in Nat /\ Clocks \subseteq [Servers -> Nat]
  BY CausalBasics DEF CausalInv
<1>2. /\ s \in Servers /\ n \in Servers /\ r \in Rooms /\ n # s /\ m.clock \in Clocks
      /\ m.text \in 1..Len(causalPosted[n]) /\ m.text \in 1..CausalPosts
      /\ m.clock = causalPosted[n][m.text]
  BY <1>1 DEF CausalTypeOK, Datagram, FromPosts
<1>3. /\ HOLD_BACK_QUEUE_CAUSAL' = [HOLD_BACK_QUEUE_CAUSAL EXCEPT ![s][r] = after.queue]
      /\ CLOCK' = [CLOCK EXCEPT ![s] = after.clock]
      /\ causalForwarded' = [causalForwarded EXCEPT ![s] =
           @ \o [i \in 1..count |-> Text(n, r, m.text)]]
      /\ causalNet' = causalNet \ {m} /\ causalPosted' = causalPosted
  BY DEF Receive, handle_causal_order
<1>4. /\ CLOCK[s] \in Clocks /\ CLOCK[s] \in [Servers -> Nat]
      /\ HOLD_BACK_QUEUE_CAUSAL[s][r] \in Seq(Clocks)
  BY <1>1, <1>2 DEF CausalTypeOK
<1>5. /\ queue \in Seq(Clocks) /\ queue \in Seq([Servers -> Nat])
      /\ \A i \in 1..Len(queue) : PostedClock(queue[i])
  <2>1. PostedClock(m.clock)
    BY <1>2 DEF PostedClock
  <2>2. /\ queue \in Seq(Clocks) /\ Len(queue) = Len(HOLD_BACK_QUEUE_CAUSAL[s][r]) + 1
        /\ \A i \in 1..Len(HOLD_BACK_QUEUE_CAUSAL[s][r]) :
             queue[i] = HOLD_BACK_QUEUE_CAUSAL[s][r][i]
        /\ queue[Len(HOLD_BACK_QUEUE_CAUSAL[s][r]) + 1] = m.clock
        /\ Len(HOLD_BACK_QUEUE_CAUSAL[s][r]) \in Nat
    <3> DEFINE held == HOLD_BACK_QUEUE_CAUSAL[s][r]
    <3>1. held \in Seq(Clocks) /\ m.clock \in Clocks /\ queue = Append(held, m.clock)
      BY <1>2, <1>4
    <3> HIDE DEF held, queue
    <3>2. /\ queue \in Seq(Clocks) /\ Len(queue) = Len(held) + 1 /\ Len(held) \in Nat
          /\ \A i \in 1..Len(held) : queue[i] = held[i]
          /\ queue[Len(held) + 1] = m.clock
      BY <3>1, AppendProperties
    <3> QED
      BY <3>2 DEF held
  <2>3. queue \in Seq([Servers -> Nat])
    <3> HIDE DEF queue
    <3>1. Len(queue) \in Nat /\ queue \in [1..Len(queue) -> Clocks]
      BY <2>2
    <3>2. queue \in [1..Len(queue) -> [Servers -> Nat]]
      BY <1>1, <3>1
    <3> QED
      BY <3>1, <3>2
  <2> HIDE DEF queue
  <2>4. ASSUME NEW i \in 1..Len(queue) PROVE PostedClock(queue[i])
    <3>1. CASE i \in 1..Len(HOLD_BACK_QUEUE_CAUSAL[s][r])
      BY <1>1, <1>2, <2>2, <3>1 DEF HeldBack
    <3>2. CASE i = Len(HOLD_BACK_QUEUE_CAUSAL[s][r]) + 1
      BY <2>1, <2>2, <3>2
    <3>3. \/ i \in 1..Len(HOLD_BACK_QUEUE_CAUSAL[s][r])
          \/ i = Len(HOLD_BACK_QUEUE_CAUSAL[s][r]) + 1
      BY <2>2
    <3> QED
      BY <3>1, <3>2, <3>3
  <2> QED
    BY <2>2, <2>3, <2>4
<1>6. PostsTyped /\ Growing
  BY <1>1 DEF CausalTypeOK, PostsTyped
<1> HIDE DEF queue
<1>7. before \in Reached(CLOCK[s], n)
  <2>1. before \in Delivery
    BY <1>4, <1>5 DEF Delivery
  <2>2. Cut(CLOCK[s])
    BY <1>1, <1>2 DEF ConsistentCut, Cut
  <2> QED
    BY <1>2, <1>4, <1>5, <2>1, <2>2 DEF Reached
<1>8. before \in Delivery
  BY <1>7 DEF Reached
<1> HIDE DEF before
<1>9. after \in Reached(CLOCK[s], n) /\ Clear(after, n)
  BY <1>2, <1>4, <1>6, <1>7, <1>8, PassesReached, PassesClear
<1> HIDE DEF after
<1>10. /\ after.queue \in Seq([Servers -> Nat]) /\ after.clock \in [Servers -> Nat]
       /\ \A i \in 1..Len(after.queue) : PostedClock(after.queue[i])
       /\ Cut(after.clock)
       /\ \A i \in Servers \ {n} : after.clock[i] = CLOCK[s][i]
       /\ after.clock[n] >= CLOCK[s][n]
  BY <1>9 DEF Reached, Delivery
<1>11. /\ CLOCK'[s] = after.clock /\ \A t \in Servers \ {s} : CLOCK'[t] = CLOCK[t]
       /\ HOLD_BACK_QUEUE_CAUSAL'[s][r] = after.queue
       /\ \A t \in Servers, q \in Rooms : t # s \/ q # r =>
            HOLD_BACK_QUEUE_CAUSAL'[t][q] = HOLD_BACK_QUEUE_CAUSAL[t][q]
  BY <1>1, <1>2, <1>3 DEF CausalTypeOK
<1>12. after.clock \in Clocks /\ after.queue \in Seq(Clocks)
  <2>1. \A i \in Servers : after.clock[i] \in 0..CausalPosts
    <3> SUFFICES ASSUME NEW i \in Servers PROVE after.clock[i] \in 0..CausalPosts
      OBVIOUS
    <3>1. after.clock[i] <= Len(causalPosted[i])
      BY <1>10 DEF Cut
    <3>2. Len(causalPosted[i]) <= CausalPosts
      BY <1>1 DEF Bounded
    <3>3. after.clock[i] \in Nat
      BY <1>10
    <3>4. Len(causalPosted[i]) \in Nat
      BY <1>6 DEF PostsTyped
    <3> QED
      BY <1>1, <3>1, <3>2, <3>3, <3>4
  <2>2. \A i \in 1..Len(after.queue) : after.queue[i] \in Clocks
    <3> SUFFICES ASSUME NEW i \in 1..Len(after.queue) PROVE after.queue[i] \in Clocks
      OBVIOUS
    <3>1. PICK t \in Servers : \E k \in 1..Len(causalPosted[t]) :
            after.queue[i] = causalPosted[t][k]
      BY <1>10 DEF PostedClock
    <3>2. PICK k \in 1..Len(causalPosted[t]) : after.queue[i] = causalPosted[t][k]
      BY <3>1
    <3>3. causalPosted[t] \in Seq(Clocks)
      BY <1>6 DEF PostsTyped
    <3> QED
      BY <3>2, <3>3
  <2>3. after.clock \in Clocks
    BY <1>10, <2>1 DEF Clocks
  <2>4. Len(after.queue) \in Nat /\ after.queue \in [1..Len(after.queue) -> Clocks]
    BY <1>10, <2>2
  <2> QED
    BY <2>3, <2>4
<1>13. CausalTypeOK'
  <2>1. HOLD_BACK_QUEUE_CAUSAL' \in [Servers -> [Rooms -> Seq(Clocks)]]
    BY <1>1, <1>2, <1>3, <1>12 DEF CausalTypeOK
  <2>2. CLOCK' \in [Servers -> Clocks]
    BY <1>1, <1>2, <1>3, <1>12 DEF CausalTypeOK
  <2>3. causalForwarded' \in
          [Servers -> Seq([src : Servers, room : Rooms, text : 1..CausalPosts])]
    <3> DEFINE T == [src : Servers, room : Rooms, text : 1..CausalPosts]
               more == [i \in 1..count |-> Text(n, r, m.text)]
    <3>1. count \in Nat
      BY <1>2, <1>4, <1>10
    <3>2. Text(n, r, m.text) \in T
      BY <1>2 DEF Text
    <3> HIDE DEF count
    <3>3. more \in Seq(T)
      BY <3>1, <3>2
    <3>4. causalForwarded[s] \in Seq(T) /\ causalForwarded \in [Servers -> Seq(T)]
      BY <1>1, <1>2 DEF CausalTypeOK
    <3>5. causalForwarded' = [causalForwarded EXCEPT ![s] = @ \o more]
      BY <1>3 DEF count
    <3> HIDE DEF more, T
    <3>6. causalForwarded[s] \o more \in Seq(T)
      BY <3>3, <3>4, ConcatProperties
    <3> QED
      BY <1>2, <3>4, <3>5, <3>6 DEF T
  <2> QED
    BY <1>1, <1>3, <2>1, <2>2, <2>3 DEF CausalTypeOK
<1>14. Growing' /\ Bounded'
  BY <1>1, <1>3 DEF Growing, Bounded
<1>15. OwnPosts'
  <2> SUFFICES ASSUME NEW t \in Servers
               PROVE  /\ CLOCK'[t][t] = Len(causalPosted[t])
                      /\ \A k \in 1..Len(causalPosted[t]), i \in Servers :
                           causalPosted[t][k][i] <= CLOCK'[t][i]
    BY <1>3 DEF OwnPosts
  <2>1. CASE t # s
    BY <1>1, <1>11, <2>1 DEF OwnPosts
  <2>2. CASE t = s
    <3>1. after.clock[s] = CLOCK[s][s]
      BY <1>2, <1>10
    <3>2. ASSUME NEW k \in 1..Len(causalPosted[s]), NEW i \in Servers
          PROVE  causalPosted[s][k][i] <= after.clock[i]
      <4>1. causalPosted[s][k][i] <= CLOCK[s][i] /\ causalPosted[s][k][i] \in Nat
        <5>1. causalPosted[s][k] \in Clocks
          BY <1>2, <1>6 DEF PostsTyped
        <5> QED
          BY <1>1, <1>2, <5>1 DEF OwnPosts
      <4>2. CLOCK[s][i] <= after.clock[i] /\ CLOCK[s][i] \in Nat /\ after.clock[i] \in Nat
        <5>1. CASE i = n
          BY <1>4, <1>10, <5>1
        <5>2. CASE i # n
          BY <1>4, <1>10, <5>2
        <5> QED
          BY <5>1, <5>2
      <4> QED
        BY <4>1, <4>2
    <3> QED
      BY <1>1, <1>11, <2>2, <3>1, <3>2 DEF OwnPosts
  <2> QED
    BY <2>1, <2>2
<1>16. FromPosts'
  BY <1>1, <1>3 DEF FromPosts
<1>17. HeldBack'
  <2> SUFFICES ASSUME NEW t \in Servers, NEW q \in Rooms,
                      NEW i \in 1..Len(HOLD_BACK_QUEUE_CAUSAL'[t][q])
               PROVE  PostedClock(HOLD_BACK_QUEUE_CAUSAL'[t][q][i])
    BY <1>3 DEF HeldBack, PostedClock
  <2>1. CASE t = s /\ q = r
    BY <1>10, <1>11, <2>1
  <2>2. CASE t # s \/ q # r
    BY <1>1, <1>11, <2>2 DEF HeldBack
  <2> QED
    BY <2>1, <2>2
<1>18. ConsistentCut'
  <2> SUFFICES ASSUME NEW t \in Servers PROVE Cut(CLOCK'[t])
    BY <1>3 DEF ConsistentCut, Cut
  <2>1. CASE t = s
    BY <1>10, <1>11, <2>1
  <2>2. CASE t # s
    BY <1>1, <1>11, <2>2 DEF ConsistentCut, Cut
  <2> QED
    BY <2>1, <2>2
<1>19. \A i \in 1..Len(HOLD_BACK_QUEUE_CAUSAL'[s][r]) :
         ~ Deliverable(HOLD_BACK_QUEUE_CAUSAL'[s][r][i], CLOCK'[s], n)
  BY <1>9, <1>11 DEF Clear
<1> QED
  BY <1>13, <1>14, <1>15, <1>16, <1>17, <1>18, <1>19 DEF CausalInv

LEMMA CausalStepInv == CausalInv /\ [CausalNext]_causalVars => CausalInv'
<1> SUFFICES ASSUME CausalInv, [CausalNext]_causalVars PROVE CausalInv'
  OBVIOUS
<1>1. ASSUME NEW s \in Servers, NEW r \in Rooms, CausalPost(s, r) PROVE CausalInv'
  BY <1>1, CausalPostInv
<1>2. ASSUME NEW m \in causalNet, Receive(m) PROVE CausalInv'
  BY <1>2, ReceiveInv
<1>3. CASE UNCHANGED causalVars
  <2>1. /\ causalNet' = causalNet /\ CLOCK' = CLOCK /\ causalPosted' = causalPosted
        /\ HOLD_BACK_QUEUE_CAUSAL' = HOLD_BACK_QUEUE_CAUSAL
        /\ causalForwarded' = causalForwarded
    BY <1>3 DEF causalVars
  <2>2. CausalTypeOK' /\ Growing' /\ OwnPosts'
    BY <2>1 DEF CausalInv, CausalTypeOK, Growing, OwnPosts
  <2>3. FromPosts' /\ Bounded' /\ ConsistentCut'
    BY <2>1 DEF CausalInv, FromPosts, Bounded, ConsistentCut
  <2>4. HeldBack'
    <3>1. ASSUME NEW s \in Servers, NEW r \in Rooms,
                 NEW i \in 1..Len(HOLD_BACK_QUEUE_CAUSAL[s][r])
          PROVE  PostedClock(HOLD_BACK_QUEUE_CAUSAL[s][r][i])'
      <4>1. PostedClock(HOLD_BACK_QUEUE_CAUSAL[s][r][i])
        BY DEF CausalInv, HeldBack
      <4> QED
        BY <2>1, <4>1 DEF PostedClock
    <3> QED
      BY <2>1, <3>1 DEF HeldBack
  <2> QED
    BY <2>2, <2>3, <2>4 DEF CausalInv
<1> QED
  BY <1>1, <1>2, <1>3 DEF CausalNext

LEMMA CausalInvHolds == CausalSpec => []CausalInv
<1> QED
  BY CausalInitInv, CausalStepInv, PTL DEF CausalSpec

(* Types of the servers in causal mode, and no more posts than the bound.  *)
THEOREM CausalTypes == CausalSpec => []CausalTypeOK
<1>1. CausalInv => CausalTypeOK
  BY DEF CausalInv
<1> QED
  BY <1>1, CausalInvHolds, PTL

(* handle_causal_order: a server's clock is a consistent cut of the posts, *)
(* whatever the order in which the datagrams come.                         *)
THEOREM CutsAreConsistent == CausalSpec => []ConsistentCut
<1>1. CausalInv => ConsistentCut
  BY DEF CausalInv
<1> QED
  BY <1>1, CausalInvHolds, PTL

(* handle_causal_order has done its loop when it returns: of a datagram's  *)
(* room and sender, nothing that could be delivered is left in the queue.  *)
NothingLeft(m) ==
    LET queue == HOLD_BACK_QUEUE_CAUSAL[m.dst][m.room]
    IN  \A i \in 1..Len(queue) : ~ Deliverable(queue[i], CLOCK[m.dst], m.src)

THEOREM CausalQueueDrained ==
    CausalSpec => [][\A m \in causalNet : Receive(m) => NothingLeft(m)']_causalVars
<1>1. CausalInv /\ [CausalNext]_causalVars =>
        [\A m \in causalNet : Receive(m) => NothingLeft(m)']_causalVars
  <2> SUFFICES ASSUME CausalInv, NEW m \in causalNet, Receive(m) PROVE NothingLeft(m)'
    OBVIOUS
  <2>1. \A i \in 1..Len(HOLD_BACK_QUEUE_CAUSAL'[m.dst][m.room]) :
          ~ Deliverable(HOLD_BACK_QUEUE_CAUSAL'[m.dst][m.room][i], CLOCK'[m.dst], m.src)
    BY ReceiveInv
  <2> QED
    BY <2>1 DEF NothingLeft, Deliverable, have_seen_all
<1> QED
  BY <1>1, CausalInvHolds, PTL DEF CausalSpec

-----------------------------------------------------------------------------
(* A chat runs in one of the two modes: what its servers do for an order   *)
(* they do as if the other were not there.                                 *)
LEMMA ChatParts == ChatSpec => Spec /\ CausalSpec
<1>1. ChatInit => Init /\ CausalInit
  BY DEF ChatInit
<1>2. [ChatNext]_<<order, vars, causalVars>> => [Next]_vars /\ [CausalNext]_causalVars
  <2> SUFFICES ASSUME [ChatNext]_<<order, vars, causalVars>>
               PROVE  [Next]_vars /\ [CausalNext]_causalVars
    OBVIOUS
  <2>1. ASSUME NEW s \in Servers, NEW r \in Rooms, NEW t \in Texts, Post(s, r, t), InTotal
        PROVE  Next /\ UNCHANGED causalVars
    BY <2>1 DEF Next, InTotal
  <2>2. ASSUME NEW m \in net, handle_total_order(m), InTotal
        PROVE  Next /\ UNCHANGED causalVars
    BY <2>2 DEF Next, InTotal
  <2>3. ASSUME NEW s \in Servers, NEW r \in Rooms, CausalPost(s, r), InCausal
        PROVE  CausalNext /\ UNCHANGED vars
    BY <2>3 DEF CausalNext, InCausal
  <2>4. ASSUME NEW m \in causalNet, Receive(m), InCausal
        PROVE  CausalNext /\ UNCHANGED vars
    BY <2>4 DEF CausalNext, InCausal
  <2>5. CASE UNCHANGED <<order, vars, causalVars>>
    BY <2>5
  <2> QED
    BY <2>1, <2>2, <2>3, <2>4, <2>5 DEF ChatNext
<1> QED
  BY <1>1, <1>2, PTL DEF ChatSpec, Spec, CausalSpec

(* Types of the servers in total and in causal mode.                       *)
THEOREM ChatTyped == ChatSpec => []TypesOK
<1>1. TypeOK /\ CausalTypeOK => TypesOK
  BY DEF TypesOK
<1> QED
  BY <1>1, ChatParts, TotalTyped, CausalTypes, PTL

(* A chat in which no text is posted twice keeps the order it is run with: *)
(* that of the agreed numbers in total mode, and in causal mode the clock  *)
(* of every server is a consistent cut of the posts.                       *)
THEOREM ChatOrders ==
    ASSUME ~ Repeats
    PROVE  ChatSpec => [](TotalOrder /\ AgreedOrder /\ Settled /\ ConsistentCut)
<1> QED
  BY ChatParts, TotalOrderHolds, AgreedOrderHolds, SettledHolds, CutsAreConsistent, PTL

=============================================================================
