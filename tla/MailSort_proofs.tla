---------------------------- MODULE MailSort_proofs ----------------------------
(***************************************************************************)
(* Proofs about the two programs that work for themselves.                 *)
(*                                                                         *)
(* Mailbox, for every number of users, connections and mails, and any      *)
(* restarts.  First the SMTP server: mail goes where the client wanted it  *)
(* (AsAskedHolds).  Then the files it shares with the POP3 server, when    *)
(* nobody has two POP3 sessions at once: the invariant is MailInv, and     *)
(* what the two need to know of numbers, sums and flattened sequences      *)
(* comes before it.                                                        *)
(*                                                                         *)
(* ParallelSort, for any numbers, any number of workers and pipes of any   *)
(* size.  First the algorithms: BubbleSort sorts (BubbleSorts), Merge and  *)
(* the merging of all groups keep the order and the numbers (MergeMerges,  *)
(* GroupsMerge).  Then the program: the invariant is SortInv, with a part  *)
(* for each of the three ways it can work, and Sorts is the result.        *)
(***************************************************************************)
EXTENDS Mailbox, ParallelSort, TLAPS, FiniteSetTheorems, WellFoundedInduction

(* What a connection has in its buffers is what the client wants of this   *)
(* mail, and it is still to be written only for those who were named.      *)
Matching(conn) ==
    /\ DOMAIN conn = {"state", "is_data", "rcpts", "lines", "todo", "asked", "sent"}
    /\ conn.rcpts \in Seq(Users) /\ conn.todo \in Seq(Users)
    /\ conn.lines \in Seq(Lines) /\ conn.sent \in Seq(Lines)
    /\ conn.rcpts = conn.asked
    /\ OnlyCommandsMissing(conn.lines, conn.sent)
    /\ ToSet(conn.todo) \subseteq ToSet(conn.asked)

Inv ==
    /\ DOMAIN smtp = Senders
    /\ \A s \in Senders : Matching(smtp[s])
    /\ log \in Seq([box : Users, asked : BOOLEAN])
    /\ AsAsked

-----------------------------------------------------------------------------
LEMMA NothingMissing == OnlyCommandsMissing(<<>>, <<>>)
<1>1. /\ [i \in 1..0 |-> 0] \in [1..Len(<<>>) -> 1..Len(<<>>)]
      /\ \A i \in 1..Len(<<>>) : FALSE
  OBVIOUS
<1> QED
  BY <1>1 DEF OnlyCommandsMissing

(* at gives each line of the text its place among those sent.              *)
Placed(text, sent, at) ==
    /\ at \in [1..Len(text) -> 1..Len(sent)]
    /\ \A i, j \in 1..Len(text) : i < j => at[i] < at[j]
    /\ \A i \in 1..Len(text) : text[i] = sent[at[i]]
    /\ \A k \in 1..Len(sent) : sent[k] \notin Commands => \E i \in 1..Len(text) : at[i] = k

LEMMA MissingIf ==
    ASSUME NEW text, NEW sent, NEW at, Placed(text, sent, at)
    PROVE  OnlyCommandsMissing(text, sent)
BY DEF Placed, OnlyCommandsMissing

(* A line that is sent becomes the last line of the text, or is missing.   *)
LEMMA LineSent ==
    ASSUME NEW text \in Seq(Lines), NEW sent \in Seq(Lines), NEW line \in Lines,
           OnlyCommandsMissing(text, sent)
    PROVE  OnlyCommandsMissing(WithLine(text, line), Append(sent, line))
<1> DEFINE m == Len(text)
           n == Len(sent)
           now == Append(sent, line)
<1>1. PICK at \in [1..m -> 1..n] :
        /\ \A i, j \in 1..m : i < j => at[i] < at[j]
        /\ \A i \in 1..m : text[i] = sent[at[i]]
        /\ \A k \in 1..n : sent[k] \notin Commands => \E i \in 1..m : at[i] = k
  BY DEF OnlyCommandsMissing
<1>2. /\ m \in Nat /\ n \in Nat /\ Len(now) = n + 1 /\ now[n + 1] = line
      /\ \A k \in 1..n : now[k] = sent[k]
  OBVIOUS
<1>3. \A i \in 1..m : at[i] \in 1..n /\ at[i] \in 1..(n + 1) /\ text[i] = now[at[i]]
  BY <1>1, <1>2
<1>4. CASE line \in Commands
  <2>1. at \in [1..m -> 1..Len(now)]
    BY <1>2, <1>3
  <2>2. \A k \in 1..Len(now) : now[k] \notin Commands => \E i \in 1..m : at[i] = k
    <3> SUFFICES ASSUME NEW k \in 1..Len(now), now[k] \notin Commands
                 PROVE  \E i \in 1..m : at[i] = k
      OBVIOUS
    <3>1. k \in 1..n /\ sent[k] \notin Commands
      BY <1>2, <1>4
    <3> QED
      BY <1>1, <3>1
  <2>3. OnlyCommandsMissing(text, now)
    BY <1>1, <1>3, <2>1, <2>2 DEF OnlyCommandsMissing
  <2> QED
    BY <1>4, <2>3 DEF WithLine
<1>5. CASE line \notin Commands
  <2> DEFINE longer == Append(text, line)
             then   == [i \in 1..(m + 1) |-> IF i = m + 1 THEN n + 1 ELSE at[i]]
  <2>1. /\ Len(longer) = m + 1 /\ longer[m + 1] = line
        /\ \A i \in 1..m : longer[i] = text[i]
    OBVIOUS
  <2>2. /\ then[m + 1] = n + 1
        /\ \A i \in 1..m : then[i] = at[i]
        /\ \A i \in 1..(m + 1) : i = m + 1 \/ i \in 1..m
        /\ m + 1 \in 1..(m + 1)
    BY <1>2
  <2>3. then \in [1..Len(longer) -> 1..Len(now)]
    BY <1>2, <1>3, <2>1
  <2> HIDE DEF longer, then
  <2>4. \A i, j \in 1..(m + 1) : i < j => then[i] < then[j]
    <3> SUFFICES ASSUME NEW i \in 1..(m + 1), NEW j \in 1..(m + 1), i < j
                 PROVE  then[i] < then[j]
      OBVIOUS
    <3>1. i \in 1..m /\ at[i] \in 1..n
      BY <1>2, <1>3
    <3>2. CASE j = m + 1
      BY <1>2, <2>2, <3>1, <3>2
    <3>3. CASE j \in 1..m
      BY <1>1, <2>2, <3>1, <3>3
    <3> QED
      BY <2>2, <3>2, <3>3
  <2>5. \A i \in 1..(m + 1) : longer[i] = now[then[i]]
    BY <1>2, <1>3, <2>1, <2>2
  <2>6. \A k \in 1..Len(now) : now[k] \notin Commands => \E i \in 1..(m + 1) : then[i] = k
    <3> SUFFICES ASSUME NEW k \in 1..Len(now), now[k] \notin Commands
                 PROVE  \E i \in 1..(m + 1) : then[i] = k
      OBVIOUS
    <3>1. CASE k = n + 1
      BY <2>2, <3>1
    <3>2. CASE k # n + 1
      <4>1. k \in 1..n /\ sent[k] \notin Commands
        BY <1>2, <3>2
      <4>2. PICK i \in 1..m : at[i] = k
        BY <1>1, <4>1
      <4>3. i \in 1..(m + 1) /\ then[i] = k
        BY <1>2, <2>2, <4>2
      <4> QED
        BY <4>3
    <3> QED
      BY <3>1, <3>2
  <2>7. 1..Len(longer) = 1..(m + 1)
    BY <2>1
  <2>8. OnlyCommandsMissing(longer, now)
    <3> HIDE DEF now
    <3>1. Placed(longer, now, then)
      BY <2>3, <2>4, <2>5, <2>6, <2>7, Zenon DEF Placed
    <3> QED
      BY <3>1, MissingIf, Zenon
  <2> QED
    BY <1>5, <2>8 DEF WithLine, longer
<1> QED
  BY <1>4, <1>5

LEMMA NewMatches == Matching(NewSmtp)
BY NothingMissing DEF NewSmtp, Matching, ToSet

LEMMA InitOK == Init => Inv
BY NewMatches DEF Init, Inv, AsAsked

LEMMA SetOfTail ==
    ASSUME NEW q \in Seq(Users), q # <<>>
    PROVE  /\ Head(q) \in Users /\ Head(q) \in ToSet(q)
           /\ Tail(q) \in Seq(Users) /\ ToSet(Tail(q)) \subseteq ToSet(q)
<1>1. Head(q) = q[1] /\ 1 \in DOMAIN q
  OBVIOUS
<1>2. ASSUME NEW i \in DOMAIN Tail(q) PROVE i + 1 \in DOMAIN q /\ Tail(q)[i] = q[i + 1]
  OBVIOUS
<1> QED
  BY <1>1, <1>2 DEF ToSet

(* A step of one connection. *)
LEMMA BecomesKeeps ==
    ASSUME Inv, NEW s \in Senders, NEW conn, Matching(conn), Becomes(s, conn)
    PROVE  Inv'
BY DEF Inv, Becomes, AsAsked

(* The buffers after a mail, or RSET. *)
LEMMA ForgetMatches ==
    ASSUME NEW c, Matching(c), c.todo = <<>>
    PROVE  Matching(Forget(Cleared(c)))
<1> DEFINE d == Cleared(c)
           e == Forget(d)
<1>1. /\ DOMAIN d = DOMAIN c /\ d.lines = <<>> /\ d.rcpts = <<>> /\ d.todo = c.todo
  BY DEF Matching, Cleared
<1> HIDE DEF d
<1>2. /\ DOMAIN e = DOMAIN d /\ e.asked = <<>> /\ e.sent = <<>> /\ e.lines = d.lines
      /\ e.todo = d.todo /\ e.rcpts = d.rcpts
  BY <1>1 DEF Matching, Forget
<1> HIDE DEF e
<1>3. Matching(e)
  BY <1>1, <1>2, NothingMissing DEF Matching, ToSet
<1> QED
  BY <1>3 DEF d, e

LEMMA SmtpCommand ==
    ASSUME Inv, NEW s \in Senders,
           \/ handle_helo(s) \/ handle_mail(s) \/ handle_data(s) \/ Dot(s)
           \/ handle_rset(s) \/ handle_quit(s)
           \/ (\E u \in Users : handle_rcpt(s, u))
           \/ (\E line \in Lines : Text(s, line))
    PROVE  Inv'
<1> DEFINE c == smtp[s]
<1>1. Matching(c)
  BY DEF Inv
<1>2. CASE handle_helo(s)
  <2>1. Matching([c EXCEPT !.state = 1])
    BY <1>1 DEF Matching
  <2> QED
    BY <1>2, <2>1, BecomesKeeps DEF handle_helo
<1>3. CASE handle_mail(s)
  <2>1. Matching([c EXCEPT !.state = 2])
    BY <1>1 DEF Matching
  <2> QED
    BY <1>3, <2>1, BecomesKeeps DEF handle_mail
<1>4. CASE handle_data(s)
  <2>1. Matching([c EXCEPT !.state = 4, !.is_data = TRUE])
    BY <1>1 DEF Matching
  <2> QED
    BY <1>4, <2>1, BecomesKeeps DEF handle_data
<1>5. CASE Dot(s)
  <2>1. Matching([c EXCEPT !.state = 5, !.is_data = FALSE, !.todo = c.rcpts])
    BY <1>1 DEF Matching
  <2> QED
    BY <1>5, <2>1, BecomesKeeps DEF Dot
<1>6. CASE handle_rset(s)
  <2> DEFINE f == Forget(Cleared(c))
  <2>1. Matching(f)
    BY <1>1, <1>6, ForgetMatches DEF handle_rset, Idle
  <2>2. Becomes(s, [f EXCEPT !.state = 1])
    BY <1>6 DEF handle_rset
  <2> HIDE DEF f
  <2>3. Matching([f EXCEPT !.state = 1])
    BY <2>1 DEF Matching
  <2> QED
    BY <2>2, <2>3, BecomesKeeps
<1>7. CASE handle_quit(s)
  BY <1>7, NewMatches, BecomesKeeps DEF handle_quit
<1>8. ASSUME NEW u \in Users, handle_rcpt(s, u) PROVE Inv'
  <2> DEFINE n == [c EXCEPT !.state = 3, !.rcpts = Append(@, u), !.asked = Append(@, u)]
  <2>1. /\ DOMAIN n = DOMAIN c /\ n.lines = c.lines /\ n.sent = c.sent /\ n.todo = c.todo
        /\ n.rcpts = Append(c.rcpts, u) /\ n.asked = Append(c.asked, u)
    BY <1>1 DEF Matching
  <2>2. c.todo = <<>> /\ Becomes(s, n)
    BY <1>8 DEF handle_rcpt, Idle
  <2> HIDE DEF n
  <2>3. Matching(n)
    BY <1>1, <2>1, <2>2 DEF Matching, ToSet
  <2> QED
    BY <2>2, <2>3, BecomesKeeps
<1>9. ASSUME NEW line \in Lines, Text(s, line) PROVE Inv'
  <2> DEFINE n == [c EXCEPT !.lines = WithLine(@, line), !.sent = Append(@, line)]
  <2>1. /\ DOMAIN n = DOMAIN c /\ n.rcpts = c.rcpts /\ n.asked = c.asked /\ n.todo = c.todo
        /\ n.lines = WithLine(c.lines, line) /\ n.sent = Append(c.sent, line)
    BY <1>1 DEF Matching
  <2>2. Becomes(s, n)
    BY <1>9 DEF Text
  <2> HIDE DEF n
  <2>3. /\ OnlyCommandsMissing(n.lines, n.sent)
        /\ n.lines \in Seq(Lines) /\ n.sent \in Seq(Lines)
    BY <1>1, <2>1, LineSent DEF Matching, WithLine
  <2>4. Matching(n)
    BY <1>1, <2>1, <2>3 DEF Matching
  <2> QED
    BY <2>2, <2>4, BecomesKeeps
<1> QED
  BY <1>2, <1>3, <1>4, <1>5, <1>6, <1>7, <1>8, <1>9

LEMMA DeliverKeeps ==
    ASSUME Inv, NEW s \in Senders, Deliver(s)
    PROVE  Inv'
<1> DEFINE c    == smtp[s]
           left == [c EXCEPT !.todo = Tail(@)]
           next == IF left.todo = <<>> THEN Forget(Cleared(left)) ELSE left
           line == [box   |-> Head(c.todo),
                    asked |-> Head(c.todo) \in ToSet(c.asked)
                                /\ OnlyCommandsMissing(c.lines, c.sent)]
<1>1. Matching(c) /\ c.todo \in Seq(Users) /\ c.todo # <<>>
  BY DEF Inv, Matching, Deliver, Idle
<1>2. /\ Head(c.todo) \in Users /\ Head(c.todo) \in ToSet(c.todo)
      /\ Tail(c.todo) \in Seq(Users) /\ ToSet(Tail(c.todo)) \subseteq ToSet(c.todo)
  BY <1>1, SetOfTail
<1>3. line \in [box : Users, asked : BOOLEAN] /\ line.asked
  BY <1>1, <1>2 DEF Matching
<1>4. Matching(next)
  <2>1. Matching(left)
    BY <1>1, <1>2 DEF Matching
  <2>2. CASE left.todo = <<>>
    <3> HIDE DEF left
    <3> QED
      BY <2>1, <2>2, ForgetMatches
  <2> QED
    BY <2>1, <2>2
<1>5. log' = Append(log, line) /\ smtp' = [smtp EXCEPT ![s] = next]
  BY DEF Deliver
<1> HIDE DEF line, next
<1>6. log' \in Seq([box : Users, asked : BOOLEAN]) /\ AsAsked'
  BY <1>3, <1>5 DEF Inv, AsAsked
<1> QED
  BY <1>4, <1>5, <1>6 DEF Inv

LEMMA OthersKeep ==
    ASSUME Inv, Pop3Step \/ (\E server \in {"smtp", "pop3"} : Restart(server)) \/ UNCHANGED vars
    PROVE  Inv'
<1>1. CASE smtp' = smtp /\ log' = log
  BY <1>1 DEF Inv, AsAsked
<1>2. CASE smtp' = [s \in Senders |-> NewSmtp] /\ log' = log
  BY <1>2, NewMatches DEF Inv, AsAsked
<1> QED
  BY <1>1, <1>2
  DEF Pop3Step, handle_pass, handle_dele, Reset, QuitOpen, QuitRead, QuitClose, QuitRemove,
      QuitRename, Restart, vars

LEMMA InvStep == Inv /\ [Next]_vars => Inv'
BY SmtpCommand, DeliverKeeps, OthersKeep DEF Next, SmtpStep

(* Mail goes only to those the client has named in that mail, and with the *)
(* lines it has sent for it, in order and none missing but some that begin *)
(* with HELO, MAIL or RCPT (smtp.cc handle_rcpt, handle_data, handle_rset, *)
(* worker), whatever commands came before and whichever server was         *)
(* restarted.                                                              *)
THEOREM AsAskedHolds == Spec => []AsAsked
<1>1. Inv => AsAsked
  BY DEF Inv
<1> QED
  BY InitOK, InvStep, <1>1, PTL DEF Spec

-----------------------------------------------------------------------------
Increasing(q) == \A i, j \in 1..Len(q) : i < j => q[i] < q[j]

-----------------------------------------------------------------------------
(* What is left in the files.                                              *)
Numbers == 1..Len(log)

(* A file with mail for user u, in the order it came.                      *)
MailOf(lg, q, u) ==
    /\ q \in Seq(1..Len(lg))
    /\ Increasing(q)
    /\ \A i \in 1..Len(q) : lg[q[i]].box = u

Todos(m) == MapThenSumSet(LAMBDA s : Len(m[s].todo), Senders)

Stage(conn) ==
    /\ conn.state \in 0..5
    /\ conn.is_data \in BOOLEAN
    /\ conn.is_data <=> conn.state = 4

(* There is room for the mails that are still to be written.               *)
Connections ==
    /\ \A s \in Senders : Stage(smtp[s])
    /\ Len(log) + Todos(smtp) <= MaxMails

(* No two paths name the same file.                                        *)
Names ==
    /\ mbox \in [Users -> Inodes \cup {NoFile}]
    /\ mboxNew \in [Users -> Inodes \cup {NoFile}]
    /\ \A u, v \in Users :
         /\ mbox[u] = mbox[v] /\ mbox[u] # NoFile => u = v
         /\ mboxNew[u] = mboxNew[v] /\ mboxNew[u] # NoFile => u = v
         /\ mbox[u] = mboxNew[v] => mbox[u] = NoFile

Owned ==
    /\ content \in [Inodes -> Seq(Numbers)]
    /\ \A u \in Users : mbox[u] # NoFile => MailOf(log, content[mbox[u]], u)
    /\ \A u \in Users : mboxNew[u] # NoFile => MailOf(log, content[mboxNew[u]], u)

Quits == {"OPENED", "READ", "WRITTEN", "REMOVED"}

SessionType ==
    [state : {"AUTHORIZATION", "TRANSACTION"} \cup Quits, user : Users \cup {NoFile},
     messages : Seq(Nat), deleted : SUBSET Nat, in : Inodes \cup {NoFile},
     new : Inodes \cup {NoFile}, out : Seq(Nat)]

Explained == marked \cup raced \cup stranded

(* All mail of user u is in q, but what is explained.                      *)
AllIn(lg, excused, q, u) ==
    \A n \in 1..Len(lg) : lg[n].box = u => n \in ToSet(q) \/ n \in excused

(* What a session has read is what its mailbox begins with; ...            *)
HasRead(p) ==
    /\ Len(p.messages) <= Len(content[mbox[p.user]])
    /\ \A i \in 1..Len(p.messages) : p.messages[i] = content[mbox[p.user]][i]

(* ... and between the steps of QUIT nothing is lost.                      *)
Session(p) ==
    /\ p.deleted \subseteq 1..Len(p.messages)
    /\ p.state = "AUTHORIZATION" <=> p.user = NoFile
    /\ p.state \notin Quits => p.new = NoFile
    /\ p.state \in Quits => p.new # NoFile /\ p.new = mboxNew[p.user]
    /\ p.state \in {"TRANSACTION", "OPENED", "READ", "WRITTEN"} => mbox[p.user] # NoFile
    /\ p.state \in {"OPENED", "READ", "WRITTEN"} => p.in = mbox[p.user]
    /\ p.state \in {"OPENED", "READ"} => content[p.new] = <<>>
    /\ p.state \in {"TRANSACTION", "OPENED"} => HasRead(p)
    /\ p.state = "OPENED" => \A i \in p.deleted : p.messages[i] \in marked
    /\ p.state = "READ" =>
         MailOf(log, p.out, p.user) /\ AllIn(log, Explained, p.out, p.user)
    /\ p.state \in {"WRITTEN", "REMOVED"} => AllIn(log, Explained, content[p.new], p.user)

Sessions ==
    /\ pop3 \in [Readers -> SessionType]
    /\ \A r \in Readers : Session(pop3[r])
    /\ \A r, o \in Readers : pop3[r].user = pop3[o].user /\ pop3[r].user # NoFile => r = o

Removed(u) == \E r \in Readers : pop3[r].user = u /\ pop3[r].state = "REMOVED"

(* The POP3 server serves those who have a mailbox, ...                    *)
Served ==
    /\ MAILBOXES \in [{"smtp", "pop3"} -> SUBSET Users]
    /\ \A u \in MAILBOXES["pop3"] : mbox[u] # NoFile \/ Removed(u)

(* ... in which all mail is that is not explained.                         *)
LeftIn ==
    /\ Explained \subseteq Numbers
    /\ \A u \in Users : Removed(u) \/ AllIn(log, Explained, Box(u), u)

Mailboxes == Names /\ Owned /\ Sessions /\ Served /\ LeftIn

MailInv == Inv /\ Connections /\ Mailboxes

Sum(h, S) == MapThenSumSet(LAMBDA x : h[x], S)

Picked(s) == CHOOSE x \in s : TRUE

SumsOf(sums, h, S) ==
    sums = [s \in SUBSET S |->
              IF s = {} THEN 0 ELSE h[Picked(s)] + sums[s \ {Picked(s)}]]

LEMMA SmallestNumber ==
    ASSUME NEW T \in SUBSET Nat, T # {}
    PROVE  \E x \in T : \A y \in T : x <= y
<1>1. PICK x \in T : \A y \in T : ~ (<<y, x>> \in OpToRel(<, Nat))
  <2>1. \E x \in T : \A y \in T : ~ (<<y, x>> \in OpToRel(<, Nat))
    BY NatLessThanWellFounded, WFMin, Zenon
  <2> QED
    BY <2>1, Zenon
<1>2. \A y \in T : ~ (y < x)
  BY <1>1, Zenon DEF OpToRel
<1> QED
  BY <1>2

(* Of the finite sets in a set of sets, one has no proper part in it.      *)
LEMMA SmallestSet ==
    ASSUME NEW D, D # {}, \A s \in D : IsFiniteSet(s)
    PROVE  \E s \in D : \A x \in s : s \ {x} \notin D
<1> DEFINE T == {Cardinality(s) : s \in D}
<1>1. T \subseteq Nat /\ T # {}
  BY FS_CardinalityType
<1>2. PICK n \in T : \A m \in T : n <= m
  BY <1>1, SmallestNumber
<1>3. PICK s \in D : n = Cardinality(s)
  BY <1>2
<1>4. ASSUME NEW x \in s, s \ {x} \in D PROVE FALSE
  <2>1. Cardinality(s \ {x}) = Cardinality(s) - 1
    BY <1>4, FS_RemoveElement
  <2>2. n <= Cardinality(s \ {x})
    BY <1>2, <1>4
  <2>3. n \in Nat
    BY <1>1, <1>2
  <2> HIDE DEF T
  <2> QED
    BY <1>3, <2>1, <2>2, <2>3
<1> QED
  BY <1>3, <1>4

LEMMA SumsUnique ==
    ASSUME NEW S, IsFiniteSet(S), NEW h, NEW a, NEW b, SumsOf(a, h, S), SumsOf(b, h, S)
    PROVE  a = b
<1> DEFINE D == {s \in SUBSET S : a[s] # b[s]}
<1>1. D = {}
  <2> SUFFICES ASSUME D # {} PROVE FALSE
    OBVIOUS
  <2>1. \A s \in D : IsFiniteSet(s)
    BY FS_Subset
  <2>2. PICK s \in D : \A x \in s : s \ {x} \notin D
    BY <2>1, SmallestSet
  <2>3. a[{}] = 0 /\ b[{}] = 0
    BY DEF SumsOf
  <2>4. s # {} /\ Picked(s) \in s
    BY <2>3 DEF Picked
  <2>5. a[s \ {Picked(s)}] = b[s \ {Picked(s)}]
    BY <2>2, <2>4
  <2>6. /\ a[s] = h[Picked(s)] + a[s \ {Picked(s)}]
        /\ b[s] = h[Picked(s)] + b[s \ {Picked(s)}]
    BY <2>4 DEF SumsOf
  <2> QED
    BY <2>5, <2>6
<1>2. a = [s \in SUBSET S |-> a[s]] /\ b = [s \in SUBSET S |-> b[s]]
  BY DEF SumsOf
<1> QED
  BY <1>1, <1>2

LEMMA SumsExist ==
    ASSUME NEW S, IsFiniteSet(S), NEW h, \A x \in S : h[x] \in Int
    PROVE  \E a \in [SUBSET S -> Int] : SumsOf(a, h, S)
<1> DEFINE Part(n) == {s \in SUBSET S : Cardinality(s) <= n}
           Next1(a, s) == IF s = {} THEN 0 ELSE h[Picked(s)] + a[s \ {Picked(s)}]
           Good(n) == \E a \in [Part(n) -> Int] : \A s \in Part(n) : a[s] = Next1(a, s)
           Bad == {n \in Nat : ~ Good(n)}
<1>1. \A s \in SUBSET S : IsFiniteSet(s) /\ Cardinality(s) \in Nat
  BY FS_Subset, FS_CardinalityType
<1>2. ASSUME NEW s \in SUBSET S, s # {}
      PROVE  /\ Picked(s) \in s
             /\ Cardinality(s \ {Picked(s)}) = Cardinality(s) - 1
             /\ h[Picked(s)] \in Int
  <2>1. Picked(s) \in s
    BY <1>2 DEF Picked
  <2> QED
    BY <1>1, <2>1, FS_RemoveElement
<1>3. Good(0)
  <2>1. ASSUME NEW s \in Part(0) PROVE s = {}
    <3>1. IsFiniteSet(s) /\ Cardinality(s) = 0
      BY <1>1
    <3> QED
      BY <3>1, FS_EmptySet
  <2>2. [s \in Part(0) |-> 0] \in [Part(0) -> Int]
    OBVIOUS
  <2> QED
    BY <2>1, <2>2
<1>4. ASSUME NEW n \in Nat, Good(n) PROVE Good(n + 1)
  <2>1. PICK a \in [Part(n) -> Int] : \A s \in Part(n) : a[s] = Next1(a, s)
    BY <1>4
  <2> DEFINE b == [s \in Part(n + 1) |-> IF s \in Part(n) THEN a[s] ELSE Next1(a, s)]
  <2>2. ASSUME NEW s \in Part(n + 1), s # {} PROVE s \ {Picked(s)} \in Part(n)
    <3>1. s \in SUBSET S /\ Cardinality(s) <= n + 1
      OBVIOUS
    <3>2. Cardinality(s \ {Picked(s)}) <= n
      BY <1>1, <1>2, <2>2, <3>1
    <3>3. s \ {Picked(s)} \in SUBSET S
      BY <3>1
    <3> QED
      BY <3>2, <3>3
  <2>3. \A s \in Part(n) : s \in Part(n + 1)
    BY <1>1
  <2>4. \A s \in Part(n + 1) : Next1(a, s) \in Int
    BY <1>2, <2>1, <2>2
  <2>5. b \in [Part(n + 1) -> Int]
    BY <2>1, <2>4
  <2>6. \A s \in Part(n) : b[s] = a[s]
    BY <2>3
  <2>7. ASSUME NEW s \in Part(n + 1) PROVE b[s] = Next1(a, s)
    <3>1. b[s] = IF s \in Part(n) THEN a[s] ELSE Next1(a, s)
      OBVIOUS
    <3> QED
      BY <2>1, <3>1
  <2> HIDE DEF b, Part
  <2>8. \A s \in Part(n + 1) : b[s] = Next1(b, s)
    BY <2>2, <2>6, <2>7
  <2> QED
    BY <2>5, <2>8
<1> HIDE DEF Good
<1>5. Bad = {}
  <2> SUFFICES ASSUME Bad # {} PROVE FALSE
    OBVIOUS
  <2>1. PICK n \in Bad : \A m \in Bad : n <= m
    BY SmallestNumber
  <2>2. n \in Nat /\ n # 0
    BY <1>3
  <2>3. n - 1 \in Nat /\ n - 1 \notin Bad
    BY <2>1, <2>2
  <2>4. Good(n - 1)
    BY <2>3
  <2>5. Good((n - 1) + 1)
    BY <1>4, <2>3, <2>4
  <2>6. (n - 1) + 1 = n
    BY <2>2
  <2>7. Good(n)
    BY <2>5, <2>6
  <2> QED
    BY <2>1, <2>7
<1> DEFINE c == Cardinality(S)
<1>6. c \in Nat
  BY FS_CardinalityType
<1>7. PICK a \in [Part(c) -> Int] : \A s \in Part(c) : a[s] = Next1(a, s)
  BY <1>5, <1>6 DEF Good
<1>8. Part(c) = SUBSET S
  <2>1. \A s \in SUBSET S : Cardinality(s) <= c
    BY FS_Subset
  <2> QED
    BY <2>1
<1>9. a \in [SUBSET S -> Int] /\ \A s \in SUBSET S : a[s] = Next1(a, s)
  BY <1>7, <1>8
<1> HIDE DEF Part, c
<1>10. SumsOf(a, h, S)
  BY <1>9 DEF SumsOf
<1> QED
  BY <1>9, <1>10

LEMMA SumIs ==
    ASSUME NEW S, IsFiniteSet(S), NEW h, NEW a, SumsOf(a, h, S)
    PROVE  Sum(h, S) = a[S]
<1>1. \A b : SumsOf(b, h, S) => b = a
  BY SumsUnique
<1> QED
  BY <1>1, Zenon DEF Sum, MapThenSumSet, MapThenFoldSet, SumsOf, Picked

LEMMA SumUnfolds ==
    ASSUME NEW S, IsFiniteSet(S), NEW h, \A x \in S : h[x] \in Int
    PROVE  /\ Sum(h, S) \in Int
           /\ S = {} => Sum(h, S) = 0
           /\ S # {} => /\ Picked(S) \in S
                        /\ Sum(h, S) = h[Picked(S)] + Sum(h, S \ {Picked(S)})
<1>1. PICK a \in [SUBSET S -> Int] : SumsOf(a, h, S)
  BY SumsExist
<1>2. Sum(h, S) = a[S]
  BY <1>1, SumIs
<1>3. S = {} => a[S] = 0
  BY <1>1 DEF SumsOf
<1>4. ASSUME S # {} PROVE Picked(S) \in S /\ a[S] = h[Picked(S)] + Sum(h, S \ {Picked(S)})
  <2> DEFINE T == S \ {Picked(S)}
             b == [s \in SUBSET T |-> a[s]]
  <2>1. Picked(S) \in S
    BY <1>4 DEF Picked
  <2>2. a[S] = h[Picked(S)] + a[T]
    BY <1>1, <1>4 DEF SumsOf
  <2>3. ASSUME NEW s \in SUBSET T
        PROVE  b[s] = IF s = {} THEN 0 ELSE h[Picked(s)] + b[s \ {Picked(s)}]
    <3>1. s \in SUBSET S
      OBVIOUS
    <3>2. a[s] = IF s = {} THEN 0 ELSE h[Picked(s)] + a[s \ {Picked(s)}]
      BY <1>1, <3>1 DEF SumsOf
    <3>3. s \ {Picked(s)} \in SUBSET T
      OBVIOUS
    <3>4. b[s] = a[s] /\ b[s \ {Picked(s)}] = a[s \ {Picked(s)}]
      BY <3>3
    <3> QED
      BY <3>2, <3>4
  <2>4. SumsOf(b, h, T)
    <3>1. b = [s \in SUBSET T |-> b[s]]
      OBVIOUS
    <3> HIDE DEF b, T
    <3> QED
      BY <2>3, <3>1 DEF SumsOf
  <2>5. IsFiniteSet(T)
    BY FS_Subset
  <2>6. Sum(h, T) = b[T] /\ b[T] = a[T]
    BY <2>4, <2>5, SumIs
  <2> QED
    BY <2>1, <2>2, <2>6
<1> QED
  BY <1>1, <1>2, <1>3, <1>4

(* The elements can be taken in any order. *)
LEMMA SumWithout ==
    ASSUME NEW S, IsFiniteSet(S), NEW h, \A x \in S : h[x] \in Int, NEW x \in S
    PROVE  Sum(h, S) = h[x] + Sum(h, S \ {x})
<1> DEFINE D == {s \in SUBSET S : \E y \in s : Sum(h, s) # h[y] + Sum(h, s \ {y})}
<1>1. D = {}
  <2> SUFFICES ASSUME D # {} PROVE FALSE
    OBVIOUS
  <2>1. \A s \in D : IsFiniteSet(s)
    BY FS_Subset
  <2>2. PICK s \in D : \A y \in s : s \ {y} \notin D
    BY <2>1, SmallestSet
  <2>3. PICK y \in s : Sum(h, s) # h[y] + Sum(h, s \ {y})
    BY <2>2
  <2> DEFINE p == Picked(s)
  <2>4. /\ IsFiniteSet(s) /\ IsFiniteSet(s \ {p}) /\ IsFiniteSet(s \ {y})
        /\ IsFiniteSet((s \ {p}) \ {y})
    BY FS_Subset
  <2>5. p \in s /\ Sum(h, s) = h[p] + Sum(h, s \ {p})
    BY <2>3, <2>4, SumUnfolds
  <2>6. p # y
    BY <2>3, <2>5
  <2>7. Sum(h, s \ {p}) = h[y] + Sum(h, (s \ {p}) \ {y})
    BY <2>2, <2>5, <2>6
  <2>8. Sum(h, s \ {y}) = h[p] + Sum(h, (s \ {y}) \ {p})
    BY <2>2, <2>3, <2>5, <2>6
  <2>9. (s \ {p}) \ {y} = (s \ {y}) \ {p}
    OBVIOUS
  <2>10. h[p] \in Int /\ h[y] \in Int /\ Sum(h, (s \ {p}) \ {y}) \in Int
    BY <2>4, <2>5, SumUnfolds
  <2> HIDE DEF p
  <2> QED
    BY <2>3, <2>5, <2>7, <2>8, <2>9, <2>10
<1> QED
  BY <1>1

LEMMA SumSame ==
    ASSUME NEW S, IsFiniteSet(S), NEW h, NEW k,
           \A x \in S : h[x] \in Int /\ h[x] = k[x]
    PROVE  Sum(h, S) = Sum(k, S)
<1>1. PICK a \in [SUBSET S -> Int] : SumsOf(a, h, S)
  BY SumsExist
<1>2. \A s \in SUBSET S : s # {} => h[Picked(s)] = k[Picked(s)]
  BY DEF Picked
<1>3. SumsOf(a, k, S)
  BY <1>1, <1>2 DEF SumsOf
<1> QED
  BY <1>1, <1>3, SumIs

(* A change at one element.                                                *)
LEMMA SumChanged ==
    ASSUME NEW S, IsFiniteSet(S), NEW h, NEW k, NEW x \in S,
           \A y \in S : h[y] \in Int /\ k[y] \in Int,
           \A y \in S \ {x} : h[y] = k[y]
    PROVE  Sum(k, S) = Sum(h, S) - h[x] + k[x]
<1>1. Sum(h, S) = h[x] + Sum(h, S \ {x}) /\ Sum(k, S) = k[x] + Sum(k, S \ {x})
  BY SumWithout
<1>2. IsFiniteSet(S \ {x})
  BY FS_Subset
<1>3. Sum(h, S \ {x}) = Sum(k, S \ {x}) /\ Sum(h, S \ {x}) \in Int
  BY <1>2, SumSame, SumUnfolds
<1> QED
  BY <1>1, <1>3

LEMMA SumOfZeros ==
    ASSUME NEW S, IsFiniteSet(S), NEW h, \A x \in S : h[x] = 0
    PROVE  Sum(h, S) = 0
<1> DEFINE z == [s \in SUBSET S |-> 0]
<1>1. \A s \in SUBSET S : s # {} => h[Picked(s)] = 0 /\ s \ {Picked(s)} \in SUBSET S
  BY DEF Picked
<1>2. SumsOf(z, h, S)
  BY <1>1 DEF SumsOf
<1>3. Sum(h, S) = z[S]
  BY <1>2, SumIs
<1> QED
  BY <1>3

LEMMA SumOfNaturals ==
    ASSUME NEW S, IsFiniteSet(S), NEW h, \A x \in S : h[x] \in Nat
    PROVE  Sum(h, S) \in Nat
<1> DEFINE D == {s \in SUBSET S : Sum(h, s) \notin Nat}
<1>1. D = {}
  <2> SUFFICES ASSUME D # {} PROVE FALSE
    OBVIOUS
  <2>1. \A s \in D : IsFiniteSet(s)
    BY FS_Subset
  <2>2. PICK s \in D : \A x \in s : s \ {x} \notin D
    BY <2>1, SmallestSet
  <2>3. s \subseteq S /\ IsFiniteSet(s) /\ Sum(h, s) \notin Nat
    BY <2>1, <2>2
  <2>4. \A x \in s : h[x] \in Int
    BY <2>3
  <2>5. /\ s = {} => Sum(h, s) = 0
        /\ s # {} => /\ Picked(s) \in s
                     /\ Sum(h, s) = h[Picked(s)] + Sum(h, s \ {Picked(s)})
    BY <2>3, <2>4, SumUnfolds
  <2>6. s # {}
    BY <2>3, <2>5
  <2>7. Sum(h, s \ {Picked(s)}) \in Nat
    BY <2>2, <2>3, <2>5, <2>6
  <2>8. h[Picked(s)] \in Nat
    BY <2>3, <2>5, <2>6
  <2> HIDE DEF D
  <2> QED
    BY <2>3, <2>5, <2>6, <2>7, <2>8
<1> QED
  BY <1>1

-----------------------------------------------------------------------------
(* What FlattenSeq computes is defined by a recursive function, too.       *)
FlattenOf(f, q) ==
    f = [i \in 1..Len(q) |-> IF i = 1 THEN q[i] ELSE f[i - 1] \o q[i]]

LEMMA FlattenUnique ==
    ASSUME NEW q, Len(q) \in Nat, NEW a, NEW b, FlattenOf(a, q), FlattenOf(b, q)
    PROVE  a = b
<1> DEFINE D == {i \in 1..Len(q) : a[i] # b[i]}
<1>1. D = {}
  <2> SUFFICES ASSUME D # {} PROVE FALSE
    OBVIOUS
  <2>1. D \in SUBSET Nat
    OBVIOUS
  <2>2. PICK i \in D : \A j \in D : i <= j
    <3> HIDE DEF D
    <3> QED
      BY <2>1, SmallestNumber
  <2>3. /\ a[i] = IF i = 1 THEN q[i] ELSE a[i - 1] \o q[i]
        /\ b[i] = IF i = 1 THEN q[i] ELSE b[i - 1] \o q[i]
    BY DEF FlattenOf
  <2>4. i # 1 => i - 1 \in 1..Len(q) /\ i - 1 \notin D
    BY <2>2
  <2>5. i # 1 => a[i - 1] = b[i - 1]
    BY <2>4
  <2> QED
    BY <2>3, <2>5
<1>2. a = [i \in 1..Len(q) |-> a[i]] /\ b = [i \in 1..Len(q) |-> b[i]]
  BY DEF FlattenOf
<1> QED
  BY <1>1, <1>2

LEMMA FlattenExists ==
    ASSUME NEW S, NEW q \in Seq(Seq(S))
    PROVE  \E f \in [1..Len(q) -> Seq(S)] : FlattenOf(f, q)
<1> DEFINE Step(f, i) == IF i = 1 THEN q[i] ELSE f[i - 1] \o q[i]
           Good(n) == \E f \in [1..n -> Seq(S)] : \A i \in 1..n : f[i] = Step(f, i)
           Bad == {n \in 0..Len(q) : ~ Good(n)}
<1>1. Len(q) \in Nat /\ \A i \in 1..Len(q) : q[i] \in Seq(S)
  OBVIOUS
<1>2. Good(0)
  <2>1. 1..0 = {}
    OBVIOUS
  <2>2. [i \in 1..0 |-> <<>>] \in [1..0 -> Seq(S)]
    BY <2>1
  <2> QED
    BY <2>1, <2>2
<1>3. ASSUME NEW n \in Nat, n < Len(q), Good(n) PROVE Good(n + 1)
  <2>1. PICK f \in [1..n -> Seq(S)] : \A i \in 1..n : f[i] = Step(f, i)
    BY <1>3
  <2> DEFINE g == [i \in 1..(n + 1) |-> IF i <= n THEN f[i] ELSE Step(f, n + 1)]
  <2>2. Step(f, n + 1) \in Seq(S)
    <3>1. q[n + 1] \in Seq(S)
      BY <1>1, <1>3
    <3>2. n # 0 => f[(n + 1) - 1] \in Seq(S)
      BY <2>1
    <3> QED
      BY <3>1, <3>2
  <2>3. g \in [1..(n + 1) -> Seq(S)]
    BY <2>1, <2>2
  <2>4. \A i \in 1..n : g[i] = f[i]
    OBVIOUS
  <2>5. g[n + 1] = Step(f, n + 1)
    OBVIOUS
  <2> HIDE DEF g
  <2>6. ASSUME NEW i \in 1..(n + 1) PROVE g[i] = Step(g, i)
    <3>1. CASE i <= n
      <4>1. i \in 1..n
        BY <3>1
      <4>2. g[i] = Step(f, i)
        BY <2>1, <2>4, <4>1
      <4>3. i # 1 => i - 1 \in 1..n
        BY <4>1
      <4> QED
        BY <2>4, <4>3, <4>2
    <3>2. CASE i = n + 1
      <4>1. i # 1 => i - 1 \in 1..n
        BY <3>2
      <4> QED
        BY <2>4, <2>5, <3>2, <4>1
    <3> QED
      BY <3>1, <3>2
  <2> QED
    BY <2>3, <2>6
<1> HIDE DEF Good
<1>4. Bad = {}
  <2> SUFFICES ASSUME Bad # {} PROVE FALSE
    OBVIOUS
  <2>1. Bad \in SUBSET Nat
    BY <1>1
  <2>2. PICK n \in Bad : \A m \in Bad : n <= m
    <3> HIDE DEF Bad
    <3> QED
      BY <2>1, SmallestNumber
  <2>3. n \in Nat /\ n # 0 /\ n <= Len(q)
    BY <1>1, <1>2
  <2>4. n - 1 \in 0..Len(q) /\ n - 1 \notin Bad
    BY <1>1, <2>2, <2>3
  <2>5. Good((n - 1) + 1)
    BY <1>1, <1>3, <2>3, <2>4
  <2>6. (n - 1) + 1 = n
    BY <2>3
  <2>7. Good(n)
    BY <2>5, <2>6
  <2> QED
    BY <2>7
<1>5. Good(Len(q))
  BY <1>1, <1>4
<1>6. PICK f \in [1..Len(q) -> Seq(S)] : \A i \in 1..Len(q) : f[i] = Step(f, i)
  BY <1>5 DEF Good
<1>7. FlattenOf(f, q)
  BY <1>6 DEF FlattenOf
<1> QED
  BY <1>7

LEMMA FlattenIs ==
    ASSUME NEW q, Len(q) \in Nat, Len(q) # 0, NEW f, FlattenOf(f, q)
    PROVE  FlattenSeq(q) = f[Len(q)]
<1>1. \A g : FlattenOf(g, q) => g = f
  BY FlattenUnique
<1> QED
  BY <1>1, Zenon DEF FlattenSeq, FlattenOf

LEMMA AppendOne ==
    ASSUME NEW S, NEW q \in Seq(S), NEW e \in S
    PROVE  q \o <<e>> = Append(q, e)
OBVIOUS

(* A number greater than all before it.                                    *)
LEMMA Appended ==
    ASSUME NEW a \in Seq(Nat), NEW x \in Nat, Increasing(a),
           \A k \in 1..Len(a) : a[k] < x
    PROVE  /\ Append(a, x) \in Seq(Nat)
           /\ Len(Append(a, x)) = Len(a) + 1
           /\ Increasing(Append(a, x))
           /\ ToSet(Append(a, x)) = ToSet(a) \cup {x}
<1> DEFINE m == Len(a)
           b == Append(a, x)
<1>1. m \in Nat /\ b \in Seq(Nat) /\ Len(b) = m + 1
  OBVIOUS
<1>2. b[m + 1] = x
  OBVIOUS
<1>3. \A k \in 1..m : b[k] = a[k] /\ a[k] \in Nat
  OBVIOUS
<1>4. \A k \in 1..(m + 1) : k \in 1..m \/ k = m + 1
  BY <1>1
<1>5. DOMAIN a = 1..m /\ DOMAIN b = 1..(m + 1)
  BY <1>1
<1>6. \A k, l \in 1..m : k < l => a[k] < a[l]
  BY DEF Increasing
<1>7. \A k \in 1..m : a[k] < x
  OBVIOUS
<1> HIDE DEF m, b
<1>8. ASSUME NEW k \in 1..(m + 1), NEW l \in 1..(m + 1), k < l PROVE b[k] < b[l]
  <2>1. k \in 1..m
    BY <1>1, <1>8
  <2>2. CASE l \in 1..m
    BY <1>3, <1>6, <1>8, <2>1, <2>2
  <2>3. CASE l = m + 1
    BY <1>2, <1>3, <1>7, <2>1, <2>3
  <2> QED
    BY <1>4, <2>2, <2>3
<1>9. Increasing(b)
  BY <1>1, <1>8 DEF Increasing
<1>10. ToSet(b) = ToSet(a) \cup {x}
  <2>1. ToSet(a) = {a[k] : k \in 1..m} /\ ToSet(b) = {b[k] : k \in 1..(m + 1)}
    BY <1>5 DEF ToSet
  <2>2. m + 1 \in 1..(m + 1) /\ \A k \in 1..m : k \in 1..(m + 1)
    BY <1>1
  <2> QED
    BY <1>2, <1>3, <1>4, <2>1, <2>2
<1> QED
  BY <1>1, <1>9, <1>10 DEF m, b

(* A mailbox read again, without the messages at some places.              *)
Without(old, D) == FlattenSeq([i \in 1..Len(old) |-> IF i \in D THEN <<>> ELSE <<old[i]>>])

LEMMA WithoutIs ==
    ASSUME NEW N \in Nat, NEW old \in Seq(1..N), NEW D, Increasing(old)
    PROVE  /\ Without(old, D) \in Seq(1..N)
           /\ Increasing(Without(old, D))
           /\ ToSet(Without(old, D)) = {old[i] : i \in (1..Len(old)) \ D}
<1> DEFINE q == [i \in 1..Len(old) |-> IF i \in D THEN <<>> ELSE <<old[i]>>]
           n == Len(old)
<1>1. n \in Nat /\ q \in Seq(Seq(1..N)) /\ Len(q) = n
  <2>1. n \in Nat
    OBVIOUS
  <2>2. ASSUME NEW i \in 1..n
        PROVE  (IF i \in D THEN <<>> ELSE <<old[i]>>) \in Seq(1..N)
    <3>1. old[i] \in 1..N
      OBVIOUS
    <3>2. <<>> \in Seq(1..N) /\ <<old[i]>> \in Seq(1..N)
      BY <3>1
    <3> QED
      BY <3>2
  <2> QED
    BY <2>1, <2>2
<1>2. \A i \in 1..n : q[i] = IF i \in D THEN <<>> ELSE <<old[i]>>
  OBVIOUS
<1>3. CASE n = 0
  <2>1. Without(old, D) = q
    BY <1>1, <1>3 DEF Without, FlattenSeq
  <2>2. q = <<>>
    BY <1>1, <1>3
  <2> QED
    BY <1>3, <2>1, <2>2 DEF Increasing, ToSet
<1>4. CASE n # 0
  <2>1. PICK f \in [1..n -> Seq(1..N)] : FlattenOf(f, q)
    BY <1>1, FlattenExists
  <2>2. FlattenSeq(q) = f[n]
    BY <1>1, <1>4, <2>1, FlattenIs
  <2>3. Without(old, D) = f[n]
    BY <2>2 DEF Without
  <2>4. \A i \in 1..n : f[i] = IF i = 1 THEN q[i] ELSE f[i - 1] \o q[i]
    BY <1>1, <2>1 DEF FlattenOf
  <2> HIDE DEF q
  <2> DEFINE Right(i) == /\ Increasing(f[i])
                         /\ ToSet(f[i]) = {old[j] : j \in (1..i) \ D}
             Bad == {i \in 1..n : ~ Right(i)}
  <2>5. \A i \in 1..n : f[i] \in Seq(1..N) /\ old[i] \in 1..N
    BY <2>1
  <2>6. Right(1)
    <3>1. 1 \in 1..n
      BY <1>1, <1>4
    <3>2. f[1] = IF 1 \in D THEN <<>> ELSE <<old[1]>>
      BY <1>2, <2>4, <3>1
    <3>3. CASE 1 \in D
      BY <3>2, <3>3 DEF Increasing, ToSet
    <3>4. CASE 1 \notin D
      <4>1. f[1] = <<old[1]>>
        BY <3>2, <3>4
      <4>2. Increasing(<<old[1]>>) /\ ToSet(<<old[1]>>) = {old[1]}
        BY DEF Increasing, ToSet
      <4>3. (1..1) \ D = {1}
        BY <3>4
      <4> QED
        BY <4>1, <4>2, <4>3
    <3> QED
      BY <3>3, <3>4
  <2>7. ASSUME NEW i \in 2..n, Right(i - 1) PROVE Right(i)
    <3>1. i - 1 \in 1..n /\ i \in 1..n /\ i # 1
      BY <1>1
    <3>2. f[i] = f[i - 1] \o q[i]
      BY <2>4, <3>1
    <3>3. f[i - 1] \in Seq(1..N)
      BY <2>5, <3>1
    <3>4. CASE i \in D
      <4>1. q[i] = <<>>
        BY <1>2, <3>1, <3>4
      <4>2. f[i] = f[i - 1]
        BY <3>2, <3>3, <4>1
      <4>3. (1..i) \ D = (1..(i - 1)) \ D
        BY <3>1, <3>4
      <4> QED
        BY <2>7, <4>2, <4>3
    <3>5. CASE i \notin D
      <4> DEFINE a == f[i - 1]
                 b == f[i]
      <4>1. q[i] = <<old[i]>> /\ old[i] \in 1..N
        BY <1>2, <2>5, <3>1, <3>5
      <4>2. b = Append(a, old[i])
        BY <3>2, <3>3, <4>1, AppendOne
      <4>3. a \in Seq(1..N) /\ old[i] \in 1..N
        BY <2>5, <3>1, <3>3
      <4>4. Increasing(a) /\ ToSet(a) = {old[j] : j \in (1..(i - 1)) \ D}
        BY <2>7
      <4> HIDE DEF a, b
      <4>5. \A k \in 1..Len(a) : a[k] < old[i]
        <5> SUFFICES ASSUME NEW k \in 1..Len(a) PROVE a[k] < old[i]
          OBVIOUS
        <5>1. a[k] \in ToSet(a)
          BY <4>3 DEF ToSet
        <5>2. PICK j \in (1..(i - 1)) \ D : a[k] = old[j]
          BY <4>4, <5>1
        <5>3. j \in 1..n /\ j < i
          BY <3>1
        <5> QED
          BY <3>1, <5>2, <5>3 DEF Increasing
      <4>6. Increasing(b) /\ ToSet(b) = ToSet(a) \cup {old[i]}
        <5>1. a \in Seq(Nat) /\ old[i] \in Nat
          BY <4>3
        <5> QED
          BY <4>2, <4>4, <4>5, <5>1, Appended
      <4>7. (1..i) \ D = ((1..(i - 1)) \ D) \cup {i}
        BY <3>1, <3>5
      <4>8. ToSet(b) = {old[j] : j \in (1..i) \ D}
        BY <4>4, <4>6, <4>7
      <4> QED
        BY <4>6, <4>8 DEF b
    <3> QED
      BY <3>4, <3>5
  <2> HIDE DEF Right
  <2>8. Bad = {}
    <3> SUFFICES ASSUME Bad # {} PROVE FALSE
      OBVIOUS
    <3>1. Bad \in SUBSET Nat
      BY <1>1
    <3>2. PICK i \in Bad : \A j \in Bad : i <= j
      <4> HIDE DEF Bad
      <4> QED
        BY <3>1, SmallestNumber
    <3>3. i \in 2..n
      BY <1>1, <2>6
    <3>4. i - 1 \in 1..n /\ i - 1 \notin Bad
      BY <1>1, <3>2, <3>3
    <3>5. Right(i)
      BY <2>7, <3>3, <3>4
    <3> QED
      BY <3>5
  <2>9. Right(n)
    <3>1. n \in 1..n
      BY <1>1, <1>4
    <3> QED
      BY <2>8, <3>1
  <2> QED
    BY <1>1, <1>4, <2>3, <2>5, <2>9 DEF Right
<1> QED
  BY <1>3, <1>4

-----------------------------------------------------------------------------
(* The inodes.                                                             *)
LEMMA InodesCount ==
    /\ Cardinality(Users) \in Nat /\ Cardinality(Readers) \in Nat
    /\ IsFiniteSet(Inodes)
    /\ Cardinality(Inodes) = 2 * Cardinality(Users) + Cardinality(Readers)
    /\ NoFile \notin Inodes
<1> DEFINE n == 2 * Cardinality(Users) + Cardinality(Readers)
<1>1. Cardinality(Users) \in Nat /\ Cardinality(Readers) \in Nat
  BY FS_CardinalityType, MailboxAssumption
<1>2. n \in Nat /\ Inodes = 1..n
  BY <1>1 DEF Inodes
<1> HIDE DEF n
<1>3. IsFiniteSet(1..n) /\ Cardinality(1..n) = n
  <2>1. n \in Int /\ 1 \in Int
    BY <1>2
  <2>2. IsFiniteSet(1..n) /\ Cardinality(1..n) = IF 1 > n THEN 0 ELSE n - 1 + 1
    BY <2>1, FS_Interval
  <2> QED
    BY <1>2, <2>2
<1>4. NoFile \notin 1..n
  BY DEF NoFile
<1> QED
  BY <1>1, <1>2, <1>3, <1>4 DEF n

LEMMA ImageCount ==
    ASSUME NEW S, IsFiniteSet(S), NEW f
    PROVE  /\ IsFiniteSet({f[x] : x \in S})
           /\ Cardinality({f[x] : x \in S}) \in Nat
           /\ Cardinality({f[x] : x \in S}) <= Cardinality(S)
<1> DEFINE T == {f[x] : x \in S}
           g == [x \in S |-> f[x]]
<1>1. g \in Surjection(S, T)
  BY DEF Surjection
<1> HIDE DEF T, g
<1>2. IsFiniteSet(T) /\ Cardinality(T) <= Cardinality(S)
  BY <1>1, FS_Surjection
<1>3. Cardinality(T) \in Nat
  BY <1>2, FS_CardinalityType
<1> QED
  BY <1>2, <1>3 DEF T

(* Three sets that are too small leave out some inode.                     *)
LEMMA SpareInode ==
    ASSUME NEW A, NEW B, NEW C, IsFiniteSet(A), IsFiniteSet(B), IsFiniteSet(C),
           Cardinality(A) + Cardinality(B) + Cardinality(C) < Cardinality(Inodes)
    PROVE  \E i \in Inodes : i \notin A /\ i \notin B /\ i \notin C
<1> DEFINE D == A \cup B
           E == D \cup C
<1>1. /\ Cardinality(A) \in Nat /\ Cardinality(B) \in Nat /\ Cardinality(C) \in Nat
      /\ Cardinality(A \cap B) \in Nat
  <2>1. IsFiniteSet(A \cap B)
    BY FS_Intersection
  <2> QED
    BY <2>1, FS_CardinalityType
<1>2. IsFiniteSet(D) /\ Cardinality(D) = Cardinality(A) + Cardinality(B) - Cardinality(A \cap B)
  BY FS_Union
<1> HIDE DEF D
<1>3. Cardinality(D) \in Nat /\ Cardinality(D \cap C) \in Nat
  <2>1. IsFiniteSet(D \cap C)
    BY <1>2, FS_Intersection
  <2> QED
    BY <1>2, <2>1, FS_CardinalityType
<1>4. IsFiniteSet(E) /\ Cardinality(E) = Cardinality(D) + Cardinality(C) - Cardinality(D \cap C)
  BY <1>2, FS_Union
<1> HIDE DEF E
<1>5. Cardinality(E) < Cardinality(Inodes) /\ Cardinality(E) \in Nat
      /\ Cardinality(Inodes) \in Nat
  <2>1. Cardinality(E) \in Nat /\ Cardinality(Inodes) \in Nat
    BY <1>4, InodesCount, FS_CardinalityType
  <2> QED
    BY <1>1, <1>2, <1>3, <1>4, <2>1
<1>6. ~ (Inodes \subseteq E)
  <2> SUFFICES ASSUME Inodes \subseteq E PROVE FALSE
    OBVIOUS
  <2>1. Cardinality(Inodes) <= Cardinality(E)
    BY <1>4, FS_Subset
  <2> QED
    BY <1>5, <2>1
<1> QED
  BY <1>6 DEF D, E

(* There is an inode for a path that names none.                           *)
LEMMA FreeInodeIs ==
    ASSUME NEW u \in Users, mbox[u] = NoFile \/ mboxNew[u] = NoFile,
           \A r \in Readers : pop3[r].new = NoFile
                                \/ \E v \in Users : pop3[r].new = mboxNew[v]
    PROVE  /\ FreeInode \in Inodes
           /\ \A v \in Users : FreeInode # mbox[v] /\ FreeInode # mboxNew[v]
<1> DEFINE A == {mbox[v] : v \in Users}
           B == {mboxNew[v] : v \in Users}
           less == Users \ {u}
           A1 == {mbox[v] : v \in less}
           B1 == {mboxNew[v] : v \in less}
           held == [r \in Readers |-> pop3[r].in]
           C == {held[r] : r \in Readers}
           Free(i) == /\ \A v \in Users : i \notin {mbox[v], mboxNew[v]}
                      /\ \A r \in Readers : i \notin {pop3[r].in, pop3[r].new}
           n == Cardinality(Users)
           m == Cardinality(Readers)
<1>1. /\ n \in Nat /\ m \in Nat /\ NoFile \notin Inodes
      /\ Cardinality(Inodes) = 2 * n + m
  BY InodesCount
<1>2. IsFiniteSet(Users) /\ IsFiniteSet(Readers)
  BY MailboxAssumption
<1>3. IsFiniteSet(less) /\ Cardinality(less) = n - 1
  BY <1>2, FS_RemoveElement
<1>4. /\ IsFiniteSet(A) /\ Cardinality(A) \in Nat /\ Cardinality(A) <= n
      /\ IsFiniteSet(B) /\ Cardinality(B) \in Nat /\ Cardinality(B) <= n
      /\ IsFiniteSet(C) /\ Cardinality(C) \in Nat /\ Cardinality(C) <= m
  <2>1. IsFiniteSet(A) /\ Cardinality(A) \in Nat /\ Cardinality(A) <= n
    BY <1>2, ImageCount
  <2>2. IsFiniteSet(B) /\ Cardinality(B) \in Nat /\ Cardinality(B) <= n
    BY <1>2, ImageCount
  <2>3. IsFiniteSet(C) /\ Cardinality(C) \in Nat /\ Cardinality(C) <= m
    <3> HIDE DEF held
    <3> QED
      BY <1>2, ImageCount
  <2> QED
    BY <2>1, <2>2, <2>3
<1>5. /\ IsFiniteSet(A1) /\ Cardinality(A1) \in Nat /\ Cardinality(A1) <= n - 1
      /\ IsFiniteSet(B1) /\ Cardinality(B1) \in Nat /\ Cardinality(B1) <= n - 1
  <2> HIDE DEF less, n
  <2>1. /\ IsFiniteSet(A1) /\ Cardinality(A1) \in Nat /\ Cardinality(A1) <= Cardinality(less)
        /\ IsFiniteSet(B1) /\ Cardinality(B1) \in Nat /\ Cardinality(B1) <= Cardinality(less)
    BY <1>3, ImageCount
  <2> QED
    BY <1>3, <2>1
<1>6. \A r \in Readers : pop3[r].in \in C /\ pop3[r].new \in B \cup {NoFile}
  <2>1. \A r \in Readers : held[r] \in C /\ held[r] = pop3[r].in
    OBVIOUS
  <2> QED
    BY <2>1
<1>7. \E i \in Inodes : Free(i)
  <2>1. CASE mbox[u] = NoFile
    <3>1. \A v \in Users : mbox[v] \in A1 \cup {NoFile} /\ mboxNew[v] \in B
      BY <2>1
    <3>2. Cardinality(A1) + Cardinality(B) + Cardinality(C) < Cardinality(Inodes)
      <4> HIDE DEF A, B, C, A1, B1, n, m
      <4> QED
        BY <1>1, <1>4, <1>5
    <3>3. PICK i \in Inodes : i \notin A1 /\ i \notin B /\ i \notin C
      <4> HIDE DEF A, B, C, A1, B1
      <4> QED
        BY <1>4, <1>5, <3>2, SpareInode
    <3> HIDE DEF A, B, C, A1, B1
    <3> QED
      BY <1>1, <1>6, <3>1, <3>3
  <2>2. CASE mboxNew[u] = NoFile
    <3>1. \A v \in Users : mbox[v] \in A /\ mboxNew[v] \in B1 \cup {NoFile}
      BY <2>2
    <3>2. Cardinality(A) + Cardinality(B1) + Cardinality(C) < Cardinality(Inodes)
      <4> HIDE DEF A, B, C, A1, B1, n, m
      <4> QED
        BY <1>1, <1>4, <1>5
    <3>3. PICK i \in Inodes : i \notin A /\ i \notin B1 /\ i \notin C
      <4> HIDE DEF A, B, C, A1, B1
      <4> QED
        BY <1>4, <1>5, <3>2, SpareInode
    <3>4. B \subseteq B1 \cup {NoFile}
      BY <3>1
    <3> HIDE DEF A, B, C, A1, B1
    <3> QED
      BY <1>1, <1>6, <3>1, <3>3, <3>4
  <2> QED
    BY <2>1, <2>2
<1>8. FreeInode = CHOOSE i \in Inodes : Free(i)
  BY DEF FreeInode
<1> HIDE DEF Free
<1>9. FreeInode \in Inodes /\ Free(FreeInode)
  BY <1>7, <1>8
<1> QED
  BY <1>9 DEF Free

(* The users, in some order.                                               *)
LEMMA UsersInOrder ==
    LET order == SetToSeq(Users)
    IN  /\ DOMAIN order = 1..Cardinality(Users)
        /\ \A u \in Users : \E i \in DOMAIN order : order[i] = u
<1> DEFINE n == Cardinality(Users)
           order == SetToSeq(Users)
<1>1. n \in Nat /\ IsFiniteSet(Users) /\ ExistsBijection(1..n, Users)
  BY FS_CardinalityType, MailboxAssumption
<1>2. PICK b : b \in Bijection(1..n, Users)
  BY <1>1 DEF ExistsBijection
<1>3. b \in [1..n -> Users] /\ IsInjective(b)
  BY <1>2 DEF Bijection, Injection, IsInjective
<1>4. order \in [1..n -> Users] /\ IsInjective(order)
  BY <1>3 DEF SetToSeq
<1> HIDE DEF order
<1>5. order \in Injection(1..n, Users)
  BY <1>4 DEF Injection, IsInjective
<1>6. Cardinality(1..n) = n
  <2> HIDE DEF n
  <2>1. Cardinality(1..n) = IF 1 > n THEN 0 ELSE n - 1 + 1
    BY <1>1, FS_Interval
  <2> QED
    BY <1>1, <2>1
<1>7. order \in Surjection(1..n, Users)
  BY <1>1, <1>5, <1>6, FS_Injection
<1>8. \A u \in Users : \E i \in 1..n : order[i] = u
  BY <1>7 DEF Surjection
<1> QED
  BY <1>4, <1>8 DEF order

-----------------------------------------------------------------------------
(* The SMTP server.                                                        *)
LEMMA TodosIs ==
    ASSUME NEW m, NEW h, \A s \in Senders : h[s] = Len(m[s].todo) /\ h[s] \in Int
    PROVE  Todos(m) = Sum(h, Senders) /\ Todos(m) \in Int
<1>1. IsFiniteSet(Senders)
  BY MailboxAssumption
<1>2. PICK a \in [SUBSET Senders -> Int] : SumsOf(a, h, Senders)
  BY <1>1, SumsExist
<1>3. \A s \in SUBSET Senders : s # {} => h[Picked(s)] = Len(m[Picked(s)].todo)
  BY DEF Picked
<1>4. \A b : b = [s \in SUBSET Senders |->
                    IF s = {} THEN 0 ELSE Len(m[Picked(s)].todo) + b[s \ {Picked(s)}]]
               => SumsOf(b, h, Senders)
  BY <1>3 DEF SumsOf
<1>5. \A b : b = [s \in SUBSET Senders |->
                    IF s = {} THEN 0 ELSE Len(m[Picked(s)].todo) + b[s \ {Picked(s)}]]
               => b = a
  BY <1>1, <1>2, <1>4, SumsUnique
<1>6. a = [s \in SUBSET Senders |->
             IF s = {} THEN 0 ELSE Len(m[Picked(s)].todo) + a[s \ {Picked(s)}]]
  BY <1>2, <1>3 DEF SumsOf
<1>7. Todos(m) = a[Senders]
  BY <1>5, <1>6, Zenon DEF Todos, MapThenSumSet, MapThenFoldSet, Picked
<1>8. Sum(h, Senders) = a[Senders]
  BY <1>1, <1>2, SumIs
<1> QED
  BY <1>2, <1>7, <1>8

LEMMA PromisedIs == Promised = Len(log) + Todos(smtp)
BY Zenon DEF Promised, Todos

(* The mails to be written when one connection goes on.                    *)
LEMMA TodosChanged ==
    ASSUME Inv, NEW s \in Senders, NEW conn, conn.todo \in Seq(Users),
           smtp' = [smtp EXCEPT ![s] = conn]
    PROVE  /\ Todos(smtp) \in Int
           /\ Todos(smtp') = Todos(smtp) - Len(smtp[s].todo) + Len(conn.todo)
<1> DEFINE h == [t \in Senders |-> Len(smtp[t].todo)]
           k == [t \in Senders |-> Len(smtp'[t].todo)]
<1>1. \A t \in Senders : smtp[t].todo \in Seq(Users)
  BY DEF Inv, Matching
<1>2. smtp'[s] = conn /\ \A t \in Senders \ {s} : smtp'[t] = smtp[t]
  BY DEF Inv
<1>3. \A t \in Senders : smtp'[t].todo \in Seq(Users)
  BY <1>1, <1>2
<1>4. \A t \in Senders : h[t] = Len(smtp[t].todo) /\ h[t] \in Int
  BY <1>1
<1>5. \A t \in Senders : k[t] = Len(smtp'[t].todo) /\ k[t] \in Int
  BY <1>3
<1>6. h[s] = Len(smtp[s].todo) /\ k[s] = Len(conn.todo)
  BY <1>2
<1>7. \A t \in Senders \ {s} : h[t] = k[t]
  BY <1>2
<1> HIDE DEF h, k
<1>8. Todos(smtp) = Sum(h, Senders) /\ Todos(smtp) \in Int
  BY <1>4, TodosIs
<1>9. Todos(smtp') = Sum(k, Senders)
  BY <1>5, TodosIs
<1>10. Sum(k, Senders) = Sum(h, Senders) - h[s] + k[s]
  <2>1. IsFiniteSet(Senders) /\ \A t \in Senders : h[t] \in Int /\ k[t] \in Int
    BY <1>4, <1>5, MailboxAssumption
  <2> QED
    BY <1>7, <2>1, SumChanged
<1> QED
  BY <1>6, <1>8, <1>9, <1>10

(* None are when the connections are new.                                  *)
LEMMA NothingToDo ==
    ASSUME NEW m, \A s \in Senders : m[s] = NewSmtp
    PROVE  Todos(m) = 0
<1> DEFINE h == [s \in Senders |-> 0]
<1>1. \A s \in Senders : h[s] = 0
  OBVIOUS
<1>2. \A s \in Senders : m[s].todo = <<>>
  BY DEF NewSmtp
<1>3. \A s \in Senders : h[s] = Len(m[s].todo) /\ h[s] \in Int
  BY <1>1, <1>2
<1> HIDE DEF h
<1>4. Todos(m) = Sum(h, Senders)
  BY <1>3, TodosIs
<1>5. Sum(h, Senders) = 0
  BY <1>1, SumOfZeros, MailboxAssumption
<1> QED
  BY <1>4, <1>5

LEMMA MailboxesSame ==
    ASSUME Mailboxes, UNCHANGED <<files, MAILBOXES, pop3, log, fate>>
    PROVE  Mailboxes'
<1>1. Names' /\ Owned'
  BY DEF Mailboxes, Names, Owned, files, Numbers
<1>2. \A p : Session(p)' <=> Session(p)
  BY DEF Session, HasRead, Explained, files, fate
<1>3. Sessions'
  BY <1>2 DEF Mailboxes, Sessions
<1>4. Served' /\ LeftIn'
  BY DEF Mailboxes, Served, Removed, LeftIn, Explained, Numbers, Box, files, fate
<1> QED
  BY <1>1, <1>3, <1>4 DEF Mailboxes

(* A step of one connection that leaves room.                              *)
LEMMA BecomesMail ==
    ASSUME MailInv, Inv', NEW s \in Senders, NEW conn, Becomes(s, conn),
           Stage(conn), conn.todo \in Seq(Users),
           Len(conn.todo) <= Len(smtp[s].todo) \/ Promised + Len(conn.todo) <= MaxMails
    PROVE  MailInv'
<1>1. /\ smtp' = [smtp EXCEPT ![s] = conn] /\ log' = log
      /\ UNCHANGED <<files, MAILBOXES, pop3, log, fate>>
  BY DEF Becomes
<1>2. Mailboxes'
  BY <1>1, MailboxesSame DEF MailInv
<1>3. Todos(smtp) \in Int /\ Todos(smtp') = Todos(smtp) - Len(smtp[s].todo) + Len(conn.todo)
  BY <1>1, TodosChanged DEF MailInv
<1>4. smtp[s].todo \in Seq(Users) /\ Len(smtp[s].todo) \in Nat /\ Len(conn.todo) \in Nat
  BY DEF MailInv, Inv, Matching
<1>5. Len(log) \in Nat /\ MaxMails \in Nat
  BY MailboxAssumption DEF MailInv, Inv
<1>6. Len(log) + Todos(smtp) <= MaxMails
  BY DEF MailInv, Connections
<1>7. Len(log) + Todos(smtp') <= MaxMails
  <2> DEFINE l == Len(log)
             t == Todos(smtp)
             a == Len(smtp[s].todo)
             b == Len(conn.todo)
  <2>1. l \in Nat /\ t \in Int /\ a \in Nat /\ b \in Nat /\ MaxMails \in Nat
    BY <1>3, <1>4, <1>5
  <2>2. b <= a \/ l + t + b <= MaxMails
    BY PromisedIs
  <2>3. l + t <= MaxMails /\ Todos(smtp') = t - a + b
    BY <1>3, <1>6
  <2> HIDE DEF t, a, b
  <2>4. l + Todos(smtp') <= MaxMails
    <3> HIDE DEF l
    <3> QED
      BY <2>1, <2>2, <2>3
  <2> QED
    BY <2>4
<1>8. \A t \in Senders : smtp'[t] = IF t = s THEN conn ELSE smtp[t]
  BY <1>1 DEF MailInv, Inv
<1>9. \A t \in Senders : Stage(smtp'[t])
  BY <1>8 DEF MailInv, Connections
<1>10. Connections'
  BY <1>1, <1>7, <1>9 DEF Connections
<1> QED
  BY <1>2, <1>10 DEF MailInv

LEMMA SmtpCommandMail ==
    ASSUME MailInv, Inv', NEW s \in Senders,
           \/ handle_helo(s) \/ handle_mail(s) \/ handle_data(s) \/ Dot(s)
           \/ handle_rset(s) \/ handle_quit(s)
           \/ (\E u \in Users : handle_rcpt(s, u))
           \/ (\E line \in Lines : Text(s, line))
    PROVE  MailInv'
<1> DEFINE c == smtp[s]
<1>1. /\ DOMAIN c = {"state", "is_data", "rcpts", "lines", "todo", "asked", "sent"}
      /\ c.todo \in Seq(Users) /\ c.rcpts \in Seq(Users) /\ Len(c.todo) \in Nat
      /\ c.state \in 0..5 /\ c.is_data \in BOOLEAN /\ (c.is_data <=> c.state = 4)
  BY DEF MailInv, Inv, Matching, Connections, Stage
<1>2. CASE handle_helo(s)
  <2> DEFINE n == [c EXCEPT !.state = 1]
  <2>1. n.state = 1 /\ n.is_data = c.is_data /\ n.todo = c.todo
    BY <1>1
  <2>2. Becomes(s, n) /\ c.state = 0
    BY <1>2 DEF handle_helo
  <2> HIDE DEF n
  <2>3. Stage(n) /\ n.todo \in Seq(Users) /\ Len(n.todo) <= Len(c.todo)
    BY <1>1, <2>1, <2>2 DEF Stage
  <2> QED
    BY <2>2, <2>3, BecomesMail
<1>3. CASE handle_mail(s)
  <2> DEFINE n == [c EXCEPT !.state = 2]
  <2>1. n.state = 2 /\ n.is_data = c.is_data /\ n.todo = c.todo
    BY <1>1
  <2>2. Becomes(s, n) /\ c.state = 1
    BY <1>3 DEF handle_mail
  <2> HIDE DEF n
  <2>3. Stage(n) /\ n.todo \in Seq(Users) /\ Len(n.todo) <= Len(c.todo)
    BY <1>1, <2>1, <2>2 DEF Stage
  <2> QED
    BY <2>2, <2>3, BecomesMail
<1>4. CASE handle_data(s)
  <2> DEFINE n == [c EXCEPT !.state = 4, !.is_data = TRUE]
  <2>1. n.state = 4 /\ n.is_data \in BOOLEAN /\ n.is_data /\ n.todo = c.todo
    BY <1>1
  <2>2. Becomes(s, n)
    BY <1>4 DEF handle_data
  <2> HIDE DEF n
  <2>3. Stage(n) /\ n.todo \in Seq(Users) /\ Len(n.todo) <= Len(c.todo)
    BY <1>1, <2>1, <2>2 DEF Stage
  <2> QED
    BY <2>2, <2>3, BecomesMail
<1>5. CASE Dot(s)
  <2> DEFINE n == [c EXCEPT !.state = 5, !.is_data = FALSE, !.todo = c.rcpts]
  <2>1. n.state = 5 /\ n.is_data \in BOOLEAN /\ ~ n.is_data /\ n.todo = c.rcpts
    BY <1>1
  <2>2. Becomes(s, n) /\ Promised + Len(c.rcpts) <= MaxMails
    BY <1>5 DEF Dot
  <2> HIDE DEF n
  <2>3. Stage(n) /\ n.todo \in Seq(Users) /\ Promised + Len(n.todo) <= MaxMails
    BY <1>1, <2>1, <2>2 DEF Stage
  <2> QED
    BY <2>2, <2>3, BecomesMail
<1>6. CASE handle_rset(s)
  <2> DEFINE f == Forget(Cleared(c))
             n == [f EXCEPT !.state = 1]
  <2>1. DOMAIN f = DOMAIN c /\ f.is_data = c.is_data /\ f.todo = c.todo
    BY <1>1 DEF Forget, Cleared
  <2>2. Becomes(s, n) /\ ~ c.is_data
    BY <1>6 DEF handle_rset
  <2> HIDE DEF f
  <2>3. n.state = 1 /\ n.is_data = c.is_data /\ n.todo = c.todo
    BY <1>1, <2>1
  <2> HIDE DEF n
  <2>4. Stage(n) /\ n.todo \in Seq(Users) /\ Len(n.todo) <= Len(c.todo)
    BY <1>1, <2>2, <2>3 DEF Stage
  <2> QED
    BY <2>2, <2>4, BecomesMail
<1>7. CASE handle_quit(s)
  <2> DEFINE n == NewSmtp
  <2>1. n.state = 0 /\ n.is_data \in BOOLEAN /\ ~ n.is_data /\ n.todo = <<>>
    BY DEF NewSmtp
  <2>2. Becomes(s, n)
    BY <1>7 DEF handle_quit
  <2> HIDE DEF n
  <2>3. Stage(n) /\ n.todo \in Seq(Users) /\ Len(n.todo) <= Len(c.todo)
    BY <1>1, <2>1 DEF Stage
  <2> QED
    BY <2>2, <2>3, BecomesMail
<1>8. ASSUME NEW u \in Users, handle_rcpt(s, u) PROVE MailInv'
  <2> DEFINE n == [c EXCEPT !.state = 3, !.rcpts = Append(@, u), !.asked = Append(@, u)]
  <2>1. n.state = 3 /\ n.is_data = c.is_data /\ n.todo = c.todo
    BY <1>1
  <2>2. Becomes(s, n) /\ c.state \in {2, 3}
    BY <1>8 DEF handle_rcpt
  <2> HIDE DEF n
  <2>3. Stage(n) /\ n.todo \in Seq(Users) /\ Len(n.todo) <= Len(c.todo)
    BY <1>1, <2>1, <2>2 DEF Stage
  <2> QED
    BY <2>2, <2>3, BecomesMail
<1>9. ASSUME NEW line \in Lines, Text(s, line) PROVE MailInv'
  <2> DEFINE n == [c EXCEPT !.lines = WithLine(@, line), !.sent = Append(@, line)]
  <2>1. n.state = c.state /\ n.is_data = c.is_data /\ n.todo = c.todo
    BY <1>1
  <2>2. Becomes(s, n)
    BY <1>9 DEF Text
  <2> HIDE DEF n
  <2>3. Stage(n) /\ n.todo \in Seq(Users) /\ Len(n.todo) <= Len(c.todo)
    BY <1>1, <2>1, <2>2 DEF Stage
  <2> QED
    BY <2>2, <2>3, BecomesMail
<1> QED
  BY <1>2, <1>3, <1>4, <1>5, <1>6, <1>7, <1>8, <1>9

LEMMA TodosNat ==
    ASSUME Inv
    PROVE  Todos(smtp) \in Nat
<1> DEFINE h == [s \in Senders |-> Len(smtp[s].todo)]
<1>1. \A s \in Senders : smtp[s].todo \in Seq(Users)
  BY DEF Inv, Matching
<1>2. \A s \in Senders : h[s] = Len(smtp[s].todo) /\ h[s] \in Nat
  BY <1>1
<1> HIDE DEF h
<1>3. Todos(smtp) = Sum(h, Senders)
  BY <1>2, TodosIs
<1> QED
  BY <1>2, <1>3, SumOfNaturals, MailboxAssumption

(* A message more.                                                         *)
Mail == [box : Users, asked : BOOLEAN]

LEMMA MailOfMore ==
    ASSUME NEW lg \in Seq(Mail), NEW e \in Mail, NEW q, NEW u, MailOf(lg, q, u)
    PROVE  MailOf(Append(lg, e), q, u)
<1>1. Len(lg) \in Nat /\ Len(Append(lg, e)) = Len(lg) + 1
  OBVIOUS
<1>2. \A n \in 1..Len(lg) : Append(lg, e)[n] = lg[n] /\ n \in 1..(Len(lg) + 1)
  OBVIOUS
<1>3. q \in Seq(1..Len(lg)) /\ \A i \in 1..Len(q) : q[i] \in 1..Len(lg)
  BY DEF MailOf
<1>4. q \in Seq(1..(Len(lg) + 1))
  BY <1>1, <1>3
<1> QED
  BY <1>1, <1>2, <1>3, <1>4 DEF MailOf

LEMMA MailOfAppend ==
    ASSUME NEW lg \in Seq(Mail), NEW e \in Mail, NEW q, MailOf(lg, q, e.box)
    PROVE  /\ MailOf(Append(lg, e), Append(q, Len(lg) + 1), e.box)
           /\ ToSet(Append(q, Len(lg) + 1)) = ToSet(q) \cup {Len(lg) + 1}
           /\ Len(Append(q, Len(lg) + 1)) = Len(q) + 1
<1> DEFINE n == Len(lg) + 1
           more == Append(lg, e)
           b == Append(q, n)
<1>1. n \in Nat /\ n \in 1..n /\ Len(more) = n /\ more[n] = e
  OBVIOUS
<1>2. q \in Seq(1..(n - 1)) /\ Increasing(q) /\ \A i \in 1..Len(q) : q[i] \in 1..(n - 1)
  BY DEF MailOf
<1>3. q \in Seq(Nat) /\ \A i \in 1..Len(q) : q[i] < n
  BY <1>1, <1>2
<1>4. MailOf(more, q, e.box)
  BY MailOfMore
<1> HIDE DEF n, more, b
<1>5. Increasing(b) /\ Len(b) = Len(q) + 1 /\ ToSet(b) = ToSet(q) \cup {n}
  BY <1>1, <1>2, <1>3, Appended DEF b
<1>6. q \in Seq(1..n) /\ \A i \in 1..Len(q) : more[q[i]].box = e.box
  BY <1>1, <1>4 DEF MailOf
<1>7. b \in Seq(1..n)
  BY <1>1, <1>6 DEF b
<1>8. ASSUME NEW i \in 1..Len(b) PROVE more[b[i]].box = e.box
  <2>1. CASE i \in 1..Len(q)
    BY <1>6, <2>1 DEF b
  <2>2. CASE i = Len(q) + 1
    <3>1. b[i] = n
      BY <1>6, <2>2 DEF b
    <3> QED
      BY <1>1, <3>1
  <2>3. Len(q) \in Nat
    BY <1>6
  <2> QED
    BY <1>5, <2>1, <2>2, <2>3
<1>9. MailOf(more, b, e.box)
  BY <1>1, <1>5, <1>7, <1>8 DEF MailOf
<1> QED
  BY <1>5, <1>9 DEF n, more, b

LEMMA AllInMore ==
    ASSUME NEW lg \in Seq(Mail), NEW e \in Mail, NEW x, NEW y, x \subseteq y, NEW q, NEW r, NEW u,
           AllIn(lg, x, q, u), ToSet(q) \subseteq ToSet(r),
           e.box = u => Len(lg) + 1 \in ToSet(r) \/ Len(lg) + 1 \in y
    PROVE  AllIn(Append(lg, e), y, r, u)
<1>1. /\ Len(lg) \in Nat /\ Len(Append(lg, e)) = Len(lg) + 1
      /\ Append(lg, e)[Len(lg) + 1] = e
  OBVIOUS
<1>2. \A n \in 1..Len(lg) : Append(lg, e)[n] = lg[n]
  OBVIOUS
<1>3. \A n \in 1..(Len(lg) + 1) : n \in 1..Len(lg) \/ n = Len(lg) + 1
  BY <1>1
<1> QED
  BY <1>1, <1>2, <1>3 DEF AllIn

LEMMA SessionFacts ==
    ASSUME Mailboxes, NEW r \in Readers
    PROVE  /\ pop3[r] \in SessionType /\ Session(pop3[r])
           /\ pop3[r].state \in {"AUTHORIZATION", "TRANSACTION"} \cup Quits
           /\ pop3[r].user \in Users \cup {NoFile}
           /\ pop3[r].state # "AUTHORIZATION" => pop3[r].user \in Users
           /\ pop3[r].messages \in Seq(Nat) /\ pop3[r].out \in Seq(Nat)
           /\ pop3[r].in \in Inodes \cup {NoFile} /\ pop3[r].new \in Inodes \cup {NoFile}
<1>1. pop3[r] \in SessionType /\ Session(pop3[r])
  BY DEF Mailboxes, Sessions
<1>2. pop3[r].state # "AUTHORIZATION" => pop3[r].user # NoFile
  BY <1>1 DEF Session
<1> QED
  BY <1>1, <1>2 DEF SessionType

LEMMA NewIsNamed ==
    ASSUME Mailboxes, NEW r \in Readers
    PROVE  pop3[r].new = NoFile \/ \E v \in Users : pop3[r].new = mboxNew[v]
<1> SUFFICES ASSUME pop3[r].new # NoFile
             PROVE  \E v \in Users : pop3[r].new = mboxNew[v]
  OBVIOUS
<1>1. pop3[r].state \in Quits /\ pop3[r].new = mboxNew[pop3[r].user]
  BY SessionFacts DEF Session
<1>2. pop3[r].user \in Users
  BY <1>1, SessionFacts DEF Quits
<1> QED
  BY <1>1, <1>2

(* The inode a mail is written to.                                         *)
LEMMA MailboxInode ==
    ASSUME Mailboxes, NEW u \in Users,
           NEW box, box = IF mbox[u] = NoFile THEN FreeInode ELSE mbox[u]
    PROVE  /\ box \in Inodes /\ box # NoFile
           /\ \A v \in Users : box # mboxNew[v] /\ (v # u => box # mbox[v])
<1>1. NoFile \notin Inodes
  BY InodesCount
<1>2. CASE mbox[u] = NoFile
  <2>1. \A r \in Readers : pop3[r].new = NoFile \/ \E v \in Users : pop3[r].new = mboxNew[v]
    BY NewIsNamed
  <2> QED
    BY <1>1, <1>2, <2>1, FreeInodeIs
<1>3. CASE mbox[u] # NoFile
  BY <1>1, <1>3 DEF Mailboxes, Names
<1> QED
  BY <1>2, <1>3

(* What Deliver does to the files.                                         *)
LEMMA Delivered ==
    ASSUME MailInv, NEW s \in Senders, Deliver(s), NEW u, u = Head(smtp[s].todo), u \in Users
    PROVE  \E box \in Inodes, e \in Mail :
             /\ box # NoFile /\ (mbox[u] # NoFile => box = mbox[u])
             /\ \A v \in Users : box # mboxNew[v] /\ (v # u => box # mbox[v])
             /\ mbox' = [mbox EXCEPT ![u] = box]
             /\ content' = [content EXCEPT ![box] = Append(Box(u), Len(log) + 1)]
             /\ log' = Append(log, e) /\ e.box = u
             /\ raced \subseteq raced' /\ raced' \subseteq raced \cup {Len(log) + 1}
             /\ (\E r \in Readers : Rewriting(r, u)) => Len(log) + 1 \in raced'
             /\ UNCHANGED <<mboxNew, MAILBOXES, pop3, marked, stranded>>
<1> DEFINE box == IF mbox[u] = NoFile THEN FreeInode ELSE mbox[u]
           e   == [box   |-> u,
                   asked |-> u \in ToSet(smtp[s].asked)
                               /\ OnlyCommandsMissing(smtp[s].lines, smtp[s].sent)]
           n   == Len(log) + 1
<1>1. /\ box \in Inodes /\ box # NoFile
      /\ \A v \in Users : box # mboxNew[v] /\ (v # u => box # mbox[v])
  BY MailboxInode DEF MailInv
<1>2. e \in Mail /\ e.box = u
  BY DEF Mail
<1>3. /\ mbox' = [mbox EXCEPT ![u] = box]
      /\ log' = Append(log, e)
      /\ raced' = IF \E r \in Readers : Rewriting(r, u) THEN raced \cup {n} ELSE raced
      /\ UNCHANGED <<mboxNew, MAILBOXES, pop3, marked, stranded>>
  BY DEF Deliver
<1>4. content' = [content EXCEPT ![box] = Append(Box(u), n)]
  <2>1. content' = [content EXCEPT ![box] = IF mbox[u] = NoFile THEN <<n>> ELSE Append(@, n)]
    BY DEF Deliver
  <2>2. CASE mbox[u] = NoFile
    <3>1. Append(Box(u), n) = <<n>>
      BY <2>2 DEF Box
    <3> QED
      BY <2>1, <2>2, <3>1
  <2>3. CASE mbox[u] # NoFile
    <3>1. Box(u) = content[box]
      BY <2>3 DEF Box
    <3> QED
      BY <2>1, <2>3, <3>1
  <2> QED
    BY <2>2, <2>3
<1>5. mbox[u] # NoFile => box = mbox[u]
  OBVIOUS
<1> HIDE DEF box, e
<1> QED
  BY <1>1, <1>2, <1>3, <1>4, <1>5

(* A session when a mail is delivered.                                     *)
LEMMA SessionDelivered ==
    ASSUME Mailboxes, log \in Seq(Mail), NEW u \in Users, NEW box \in Inodes, NEW e \in Mail,
           box # NoFile, mbox[u] # NoFile => box = mbox[u],
           \A v \in Users : box # mboxNew[v] /\ (v # u => box # mbox[v]),
           mbox' = [mbox EXCEPT ![u] = box],
           content' = [content EXCEPT ![box] = Append(Box(u), Len(log) + 1)],
           log' = Append(log, e), e.box = u,
           raced \subseteq raced',
           (\E r \in Readers : Rewriting(r, u)) => Len(log) + 1 \in raced',
           UNCHANGED <<mboxNew, pop3, marked, stranded>>,
           NEW r \in Readers
    PROVE  Session(pop3[r])'
<1> DEFINE p == pop3[r]
           v == p.user
           n == Len(log) + 1
<1>1. /\ p \in SessionType /\ Session(p) /\ (p.state # "AUTHORIZATION" => v \in Users)
      /\ p.state \in {"AUTHORIZATION", "TRANSACTION"} \cup Quits
  BY SessionFacts
<1>2. pop3'[r] = p
  OBVIOUS
<1>3. mbox \in [Users -> Inodes \cup {NoFile}] /\ content \in [Inodes -> Seq(Numbers)]
      /\ mboxNew \in [Users -> Inodes \cup {NoFile}]
  BY DEF Mailboxes, Names, Owned
<1>4. ASSUME v \in Users, mbox[v] # NoFile
      PROVE  mbox'[v] = mbox[v]
  BY <1>3, <1>4
<1>5. ASSUME v \in Users, p.new # NoFile, p.new = mboxNew[v]
      PROVE  content'[p.new] = content[p.new]
  BY <1>3, <1>5
<1>6. Explained \subseteq Explained'
  BY DEF Explained
<1>7. ASSUME p.state \in {"TRANSACTION", "OPENED"}
      PROVE  HasRead(p)'
  <2>1. v \in Users /\ mbox[v] # NoFile /\ HasRead(p)
    BY <1>1, <1>7 DEF Session
  <2>2. mbox'[v] = mbox[v] /\ mbox[v] \in Inodes
    BY <1>3, <1>4, <2>1
  <2>3. CASE v = u
    <3>1. Box(u) = content[mbox[u]] /\ box = mbox[u]
      BY <2>1, <2>3 DEF Box
    <3>2. content'[mbox'[v]] = Append(content[mbox[v]], n)
      BY <1>3, <2>2, <2>3, <3>1
    <3> DEFINE q == content[mbox[v]]
    <3>3. q \in Seq(Numbers)
      BY <1>3, <2>2
    <3>4. Len(Append(q, n)) = Len(q) + 1 /\ \A i \in 1..Len(q) : Append(q, n)[i] = q[i]
      BY <3>3
    <3>5. Len(p.messages) \in Nat /\ Len(q) \in Nat
      BY <1>1, <3>3 DEF SessionType
    <3>6. Len(p.messages) <= Len(q) /\ \A i \in 1..Len(p.messages) : p.messages[i] = q[i]
      BY <2>1 DEF HasRead
    <3> HIDE DEF q
    <3>7. /\ Len(p.messages) <= Len(Append(q, n))
          /\ \A i \in 1..Len(p.messages) : p.messages[i] = Append(q, n)[i]
      BY <3>4, <3>5, <3>6
    <3> QED
      BY <1>2, <3>2, <3>7 DEF HasRead, q
  <2>4. CASE v # u
    <3>1. content'[mbox'[v]] = content[mbox[v]]
      BY <1>3, <2>1, <2>2, <2>4
    <3> QED
      BY <1>2, <2>1, <3>1 DEF HasRead
  <2> QED
    BY <2>3, <2>4
<1>8. ASSUME NEW q, AllIn(log, Explained, q, v), p.state \in {"READ", "WRITTEN", "REMOVED"}
      PROVE  AllIn(log', Explained', q, v)
  <2>1. v = u => Len(log) + 1 \in Explained'
    BY <1>8 DEF Rewriting, Explained
  <2> QED
    BY <1>6, <1>8, <2>1, AllInMore
<1>9. p.state = "READ" => MailOf(log', p.out, v) /\ AllIn(log', Explained', p.out, v)
  BY <1>1, <1>8, MailOfMore DEF Session
<1>10. ASSUME p.state \in {"WRITTEN", "REMOVED"}
       PROVE  AllIn(log', Explained', content'[p.new], v)
  <2>1. v \in Users /\ p.new # NoFile /\ p.new = mboxNew[v]
        /\ AllIn(log, Explained, content[p.new], v)
    BY <1>1, <1>10 DEF Session, Quits
  <2>2. content'[p.new] = content[p.new]
    BY <1>5, <2>1
  <2>3. AllIn(log', Explained', content[p.new], v)
    BY <1>8, <1>10, <2>1
  <2> QED
    BY <2>2, <2>3
<1>11. /\ p.state \in {"TRANSACTION", "OPENED", "READ", "WRITTEN"} => mbox'[v] # NoFile
       /\ p.state \in {"OPENED", "READ", "WRITTEN"} => p.in = mbox'[v]
  BY <1>1, <1>4 DEF Session
<1>12. p.state \in {"OPENED", "READ"} => content'[p.new] = <<>>
  BY <1>1, <1>5 DEF Session, Quits
<1>13. /\ p.deleted \subseteq 1..Len(p.messages)
       /\ p.state = "AUTHORIZATION" <=> v = NoFile
       /\ p.state \notin Quits => p.new = NoFile
       /\ p.state \in Quits => p.new # NoFile /\ p.new = mboxNew'[v]
       /\ p.state = "OPENED" => \A i \in p.deleted : p.messages[i] \in marked'
  BY <1>1 DEF Session
<1> QED
  BY <1>2, <1>7, <1>9, <1>10, <1>11, <1>12, <1>13 DEF Session

LEMMA FilesDelivered ==
    ASSUME Mailboxes, log \in Seq(Mail), NEW u \in Users, NEW box \in Inodes, NEW e \in Mail,
           box # NoFile, mbox[u] # NoFile => box = mbox[u],
           \A v \in Users : box # mboxNew[v] /\ (v # u => box # mbox[v]),
           mbox' = [mbox EXCEPT ![u] = box],
           content' = [content EXCEPT ![box] = Append(Box(u), Len(log) + 1)],
           log' = Append(log, e), e.box = u, mboxNew' = mboxNew
    PROVE  /\ Names' /\ Owned'
           /\ Box(u)' = Append(Box(u), Len(log) + 1)
           /\ \A v \in Users \ {u} : Box(v)' = Box(v)
           /\ Box(u) \in Seq(Numbers)
<1> DEFINE n == Len(log) + 1
<1>1. /\ mbox \in [Users -> Inodes \cup {NoFile}] /\ content \in [Inodes -> Seq(Numbers)]
      /\ mboxNew \in [Users -> Inodes \cup {NoFile}]
  BY DEF Mailboxes, Names, Owned
<1>2. mbox'[u] = box /\ \A v \in Users \ {u} : mbox'[v] = mbox[v]
  BY <1>1
<1>3. Names'
  <2>1. mbox' \in [Users -> Inodes \cup {NoFile}] /\ mboxNew' \in [Users -> Inodes \cup {NoFile}]
    BY <1>1
  <2>2. ASSUME NEW v \in Users, NEW w \in Users
        PROVE  /\ mbox'[v] = mbox'[w] /\ mbox'[v] # NoFile => v = w
               /\ mboxNew[v] = mboxNew[w] /\ mboxNew[v] # NoFile => v = w
               /\ mbox'[v] = mboxNew[w] => mbox'[v] = NoFile
    BY <1>2 DEF Mailboxes, Names
  <2> QED
    BY <2>1, <2>2 DEF Names
<1>4. Box(u) \in Seq(Numbers) /\ MailOf(log, Box(u), u)
  <2>1. CASE mbox[u] = NoFile
    <3>1. Box(u) = <<>>
      BY <2>1 DEF Box
    <3>2. MailOf(log, <<>>, u)
      BY DEF MailOf, Increasing
    <3> QED
      BY <3>1, <3>2
  <2>2. CASE mbox[u] # NoFile
    <3>1. Box(u) = content[mbox[u]] /\ mbox[u] \in Inodes
      BY <1>1, <2>2 DEF Box
    <3>2. MailOf(log, content[mbox[u]], u)
      BY <2>2 DEF Mailboxes, Owned
    <3> QED
      BY <1>1, <3>1, <3>2
  <2> QED
    BY <2>1, <2>2
<1>5. MailOf(log', Append(Box(u), n), u)
  BY <1>4, MailOfAppend
<1>6. Len(log) \in Nat /\ Len(log') = n
  OBVIOUS
<1>7. content'[box] = Append(Box(u), n) /\ \A i \in Inodes \ {box} : content'[i] = content[i]
  BY <1>1
<1>8. content' \in [Inodes -> Seq(Numbers')]
  <2>1. \A i \in Inodes : content[i] \in Seq(1..n)
    <3> SUFFICES ASSUME NEW i \in Inodes PROVE content[i] \in Seq(1..n)
      OBVIOUS
    <3>1. content[i] \in Seq(1..Len(log))
      BY <1>1 DEF Numbers
    <3> QED
      BY <1>6, <3>1
  <2>2. Append(Box(u), n) \in Seq(1..n)
    <3>1. Box(u) \in Seq(1..Len(log))
      BY <1>4 DEF Numbers
    <3>2. Box(u) \in Seq(1..n) /\ n \in 1..n
      BY <1>6, <3>1
    <3> QED
      BY <3>2
  <2>3. \A i \in Inodes : content'[i] \in Seq(1..n)
    BY <1>7, <2>1, <2>2
  <2>4. Numbers' = 1..n
    BY <1>6 DEF Numbers
  <2>5. content' = [i \in Inodes |-> content'[i]]
    BY <1>1
  <2> QED
    BY <2>3, <2>4, <2>5
<1>9. ASSUME NEW v \in Users, mbox'[v] # NoFile PROVE MailOf(log', content'[mbox'[v]], v)
  <2>1. CASE v = u
    <3>1. content'[mbox'[v]] = Append(Box(u), n)
      BY <1>2, <1>7, <2>1
    <3> QED
      BY <1>5, <2>1, <3>1
  <2>2. CASE v # u
    <3>1. mbox'[v] = mbox[v] /\ mbox[v] \in Inodes \ {box} /\ MailOf(log, content[mbox[v]], v)
      BY <1>1, <1>2, <1>9, <2>2 DEF Mailboxes, Owned
    <3>2. MailOf(log', content[mbox[v]], v)
      BY <3>1, MailOfMore
    <3> QED
      BY <1>7, <3>1, <3>2
  <2> QED
    BY <2>1, <2>2
<1>10. ASSUME NEW v \in Users, mboxNew[v] # NoFile
       PROVE  MailOf(log', content'[mboxNew[v]], v)
  <2>1. mboxNew[v] \in Inodes \ {box} /\ MailOf(log, content[mboxNew[v]], v)
    BY <1>1, <1>10 DEF Mailboxes, Owned
  <2>2. MailOf(log', content[mboxNew[v]], v)
    BY <2>1, MailOfMore
  <2> QED
    BY <1>7, <2>1, <2>2
<1>11. Owned'
  BY <1>8, <1>9, <1>10 DEF Owned
<1>12. Box(u)' = Append(Box(u), n)
  BY <1>2, <1>7 DEF Box
<1>13. ASSUME NEW v \in Users \ {u} PROVE Box(v)' = Box(v)
  <2>1. mbox'[v] = mbox[v] /\ mbox[v] # box
    BY <1>2
  <2>2. mbox[v] # NoFile => content'[mbox[v]] = content[mbox[v]]
    BY <1>1, <1>7, <2>1
  <2> QED
    BY <2>1, <2>2 DEF Box
<1> QED
  BY <1>3, <1>4, <1>11, <1>12, <1>13

(* A mail goes to one more mailbox (smtp.cc handle_data).                  *)
LEMMA DeliverMail ==
    ASSUME MailInv, Inv', NEW s \in Senders, Deliver(s)
    PROVE  MailInv'
<1> DEFINE c == smtp[s]
           n == Len(log) + 1
           left == [c EXCEPT !.todo = Tail(@)]
           next == IF left.todo = <<>> THEN Forget(Cleared(left)) ELSE left
<1>1. /\ DOMAIN c = {"state", "is_data", "rcpts", "lines", "todo", "asked", "sent"}
      /\ c.todo \in Seq(Users) /\ c.todo # <<>> /\ Stage(c)
  BY DEF MailInv, Inv, Matching, Connections, Deliver, Idle
<1>2. PICK u \in Users : u = Head(c.todo)
  BY <1>1
<1>3. PICK box \in Inodes, e \in Mail :
             /\ box # NoFile /\ (mbox[u] # NoFile => box = mbox[u])
             /\ \A v \in Users : box # mboxNew[v] /\ (v # u => box # mbox[v])
             /\ mbox' = [mbox EXCEPT ![u] = box]
             /\ content' = [content EXCEPT ![box] = Append(Box(u), n)]
             /\ log' = Append(log, e) /\ e.box = u
             /\ raced \subseteq raced' /\ raced' \subseteq raced \cup {n}
             /\ (\E r \in Readers : Rewriting(r, u)) => n \in raced'
             /\ UNCHANGED <<mboxNew, MAILBOXES, pop3, marked, stranded>>
  BY <1>2, Delivered
<1>4. Mailboxes /\ log \in Seq(Mail) /\ Len(log) \in Nat /\ Len(log') = n
  BY <1>3 DEF MailInv, Inv, Mail
<1>5. Connections'
  <2>1. smtp' = [smtp EXCEPT ![s] = next]
    BY DEF Deliver
  <2>2. Tail(c.todo) \in Seq(Users) /\ Len(Tail(c.todo)) = Len(c.todo) - 1 /\ Len(c.todo) \in Nat
    BY <1>1
  <2>3. /\ DOMAIN left = DOMAIN c /\ left.todo = Tail(c.todo) /\ left.state = c.state
        /\ left.is_data = c.is_data
    BY <1>1
  <2> HIDE DEF left
  <2>4. next.todo = left.todo /\ next.state = c.state /\ next.is_data = c.is_data
    BY <1>1, <2>3 DEF Forget, Cleared
  <2> HIDE DEF next
  <2>5. Stage(next)
    BY <1>1, <2>4 DEF Stage
  <2>6. next.todo \in Seq(Users) /\ Len(next.todo) = Len(c.todo) - 1
    BY <2>2, <2>3, <2>4
  <2>7. /\ Todos(smtp) \in Int
        /\ Todos(smtp') = Todos(smtp) - Len(c.todo) + Len(next.todo)
    BY <2>1, <2>6, TodosChanged DEF MailInv
  <2>8. Len(log) + Todos(smtp) <= MaxMails /\ MaxMails \in Nat
    BY MailboxAssumption DEF MailInv, Connections
  <2>9. Todos(smtp') = Todos(smtp) - 1
    BY <2>2, <2>6, <2>7
  <2>10. Len(log') + Todos(smtp') <= MaxMails
    BY <1>4, <2>7, <2>8, <2>9
  <2>11. \A t \in Senders : smtp'[t] = IF t = s THEN next ELSE smtp[t]
    BY <2>1 DEF MailInv, Inv
  <2>12. \A t \in Senders : Stage(smtp'[t])
    BY <2>5, <2>11 DEF MailInv, Connections
  <2> QED
    BY <2>10, <2>12 DEF Connections
<1>6. /\ Names' /\ Owned' /\ Box(u)' = Append(Box(u), n)
      /\ \A v \in Users \ {u} : Box(v)' = Box(v)
      /\ Box(u) \in Seq(Numbers)
  <2> HIDE DEF c, left, next
  <2>1. content' = [content EXCEPT ![box] = Append(Box(u), Len(log) + 1)]
    BY <1>3
  <2>2. /\ box # NoFile /\ (mbox[u] # NoFile => box = mbox[u])
        /\ \A v \in Users : box # mboxNew[v] /\ (v # u => box # mbox[v])
        /\ mbox' = [mbox EXCEPT ![u] = box]
        /\ log' = Append(log, e) /\ e.box = u /\ mboxNew' = mboxNew
    BY <1>3
  <2> QED
    BY <1>4, <2>1, <2>2, FilesDelivered
<1>7. \A r \in Readers : Session(pop3[r])'
  BY <1>3, <1>4, SessionDelivered
<1>8. Sessions'
  BY <1>3, <1>4, <1>7 DEF Mailboxes, Sessions
<1>9. Served'
  <2>1. \A v \in Users : mbox[v] # NoFile => mbox'[v] # NoFile
    BY <1>3, <1>4 DEF Mailboxes, Names
  <2>2. \A v \in Users : Removed(v)' <=> Removed(v)
    BY <1>3 DEF Removed
  <2>3. MAILBOXES["pop3"] \subseteq Users
    BY <1>4 DEF Mailboxes, Served
  <2> QED
    BY <1>3, <1>4, <2>1, <2>2, <2>3 DEF Mailboxes, Served
<1>10. LeftIn'
  <2>1. Explained \subseteq Explained' /\ Explained' \subseteq Explained \cup {n}
    BY <1>3 DEF Explained
  <2>2. Explained' \subseteq Numbers'
    <3>1. Explained \subseteq 1..Len(log) /\ Numbers' = 1..n
      BY <1>4 DEF Mailboxes, LeftIn, Numbers
    <3> QED
      BY <1>4, <2>1, <3>1
  <2>3. ASSUME NEW v \in Users, ~ Removed(v)' PROVE AllIn(log', Explained', Box(v)', v)
    <3>1. ~ Removed(v)
      BY <1>3, <2>3 DEF Removed
    <3>2. AllIn(log, Explained, Box(v), v)
      BY <1>4, <3>1 DEF Mailboxes, LeftIn
    <3>3. CASE v = u
      <4>1. ToSet(Append(Box(u), n)) = ToSet(Box(u)) \cup {n}
        BY <1>6 DEF ToSet
      <4>2. AllIn(log', Explained', Append(Box(u), n), u)
        BY <1>3, <1>4, <2>1, <3>2, <3>3, <4>1, AllInMore
      <4> QED
        BY <1>6, <3>3, <4>2
    <3>4. CASE v # u
      <4>1. AllIn(log', Explained', Box(v), v)
        BY <1>3, <1>4, <2>1, <3>2, <3>4, AllInMore
      <4> QED
        BY <1>6, <3>4, <4>1
    <3> QED
      BY <3>3, <3>4
  <2> QED
    BY <2>2, <2>3 DEF LeftIn
<1> QED
  BY <1>5, <1>6, <1>8, <1>9, <1>10 DEF MailInv, Mailboxes

-----------------------------------------------------------------------------
(* The POP3 server.  A session that a step is not about.                   *)
LEMMA SessionStays ==
    ASSUME Mailboxes, NEW r \in Readers, pop3'[r] = pop3[r],
           log' = log, marked \subseteq marked',
           raced \subseteq raced', stranded \subseteq stranded',
           pop3[r].user \in Users =>
             /\ mbox'[pop3[r].user] = mbox[pop3[r].user]
             /\ mboxNew'[pop3[r].user] = mboxNew[pop3[r].user]
             /\ \A i \in Inodes : i = mbox[pop3[r].user] \/ i = mboxNew[pop3[r].user]
                                    => content'[i] = content[i]
    PROVE  Session(pop3[r])'
<1> DEFINE p == pop3[r]
           v == p.user
<1>1. /\ Session(p) /\ (p.state # "AUTHORIZATION" => v \in Users)
      /\ p.state \in {"AUTHORIZATION", "TRANSACTION"} \cup Quits
  BY SessionFacts
<1>2. CASE p.state = "AUTHORIZATION"
  BY <1>1, <1>2 DEF Session, Quits
<1>3. CASE p.state # "AUTHORIZATION"
  <2>1. v \in Users
    BY <1>1, <1>3
  <2>2. mbox[v] # NoFile => content'[mbox'[v]] = content[mbox[v]]
    BY <2>1 DEF Mailboxes, Names
  <2>3. mboxNew[v] # NoFile => content'[mboxNew[v]] = content[mboxNew[v]]
    BY <2>1 DEF Mailboxes, Names
  <2>4. p.state \in Quits =>
            p.new # NoFile /\ p.new = mboxNew[v] /\ content'[p.new] = content[p.new]
    BY <1>1, <2>3 DEF Session
  <2>5. p.state \in {"TRANSACTION", "OPENED"} => HasRead(p)'
    BY <1>1, <2>1, <2>2 DEF Session, HasRead
  <2>6. \A q : AllIn(log, Explained, q, v) => AllIn(log', Explained', q, v)
    BY DEF AllIn, Explained
  <2>7. p.state = "READ" => MailOf(log', p.out, v) /\ AllIn(log', Explained', p.out, v)
    BY <1>1, <2>6 DEF Session
  <2>8. p.state \in {"WRITTEN", "REMOVED"} => AllIn(log', Explained', content'[p.new], v)
    BY <1>1, <2>4, <2>6 DEF Session, Quits
  <2>9. /\ p.state \in {"TRANSACTION", "OPENED", "READ", "WRITTEN"} => mbox'[v] # NoFile
        /\ p.state \in {"OPENED", "READ", "WRITTEN"} => p.in = mbox'[v]
        /\ p.state \in {"OPENED", "READ"} => content'[p.new] = <<>>
    BY <1>1, <2>1, <2>4 DEF Session, Quits
  <2>10. /\ p.deleted \subseteq 1..Len(p.messages)
         /\ p.state = "AUTHORIZATION" <=> v = NoFile
         /\ p.state \notin Quits => p.new = NoFile
         /\ p.state \in Quits => p.new # NoFile /\ p.new = mboxNew'[v]
         /\ p.state = "OPENED" => \A i \in p.deleted : p.messages[i] \in marked'
    BY <1>1, <2>1 DEF Session, Quits
  <2> QED
    BY <2>5, <2>7, <2>8, <2>9, <2>10 DEF Session
<1> QED
  BY <1>2, <1>3

(* A step of a session that leaves the files alone.                        *)
LEMMA SessionStep ==
    ASSUME MailInv, Inv', NEW r \in Readers, NEW p \in SessionType,
           pop3' = [pop3 EXCEPT ![r] = p], Session(pop3[r])',
           UNCHANGED <<files, MAILBOXES, smtp, log, fate>>,
           p.user # NoFile => \A o \in Readers : o # r => pop3[o].user # p.user,
           p.state # "REMOVED", pop3[r].state # "REMOVED"
    PROVE  MailInv'
<1>1. Mailboxes /\ pop3 \in [Readers -> SessionType]
  BY DEF MailInv, Mailboxes, Sessions
<1>2. UNCHANGED <<content, mbox, mboxNew, marked, raced, stranded>>
  BY DEF files, fate
<1>3. pop3'[r] = p /\ \A o \in Readers \ {r} : pop3'[o] = pop3[o]
  BY <1>1
<1>4. \A o \in Readers \ {r} : Session(pop3[o])'
  BY <1>1, <1>2, <1>3, SessionStays
<1>5. Sessions'
  <2>1. pop3' \in [Readers -> SessionType]
    BY <1>1
  <2>2. \A o \in Readers : Session(pop3[o])'
    BY <1>3, <1>4
  <2>3. ASSUME NEW a \in Readers, NEW b \in Readers,
               pop3'[a].user = pop3'[b].user, pop3'[a].user # NoFile
        PROVE  a = b
    BY <1>1, <1>3, <2>3 DEF Mailboxes, Sessions
  <2> QED
    BY <2>1, <2>2, <2>3 DEF Sessions
<1>6. \A u : Removed(u)' <=> Removed(u)
  BY <1>3 DEF Removed
<1>7. Names' /\ Owned' /\ Served' /\ LeftIn'
  BY <1>1, <1>2, <1>6 DEF Mailboxes, Names, Owned, Served, LeftIn, Explained, Numbers, Box
<1>8. Connections'
  BY DEF MailInv, Connections
<1> QED
  BY <1>5, <1>7, <1>8 DEF MailInv, Mailboxes

(* USER and PASS.                                                          *)
LEMMA PassMail ==
    ASSUME OneReader, MailInv, Inv', NEW r \in Readers, NEW u \in Users, handle_pass(r, u)
    PROVE  MailInv'
<1>1. Mailboxes /\ pop3[r].state = "AUTHORIZATION" /\ \A o \in Readers : pop3[o].user # u
  BY DEF MailInv, handle_pass, Using
<1>2. mbox[u] # NoFile /\ mbox[u] \in Inodes
  <2>1. mbox[u] # NoFile \/ Removed(u)
    BY <1>1 DEF Mailboxes, Served, handle_pass
  <2>2. mbox[u] # NoFile
    BY <1>1, <2>1 DEF Removed
  <2> QED
    BY <1>1, <2>2 DEF Mailboxes, Names
<1>3. Box(u) = content[mbox[u]] /\ Box(u) \in Seq(Nat)
  <2>1. Box(u) = content[mbox[u]] /\ content[mbox[u]] \in Seq(Numbers)
    BY <1>1, <1>2 DEF Box, Mailboxes, Owned
  <2>2. Box(u) \in Seq(1..Len(log))
    BY <2>1 DEF Numbers
  <2> QED
    BY <2>1, <2>2
<1>4. PICK p \in SessionType :
          /\ p = [NewPop3 EXCEPT !.state = "TRANSACTION", !.user = u, !.messages = Box(u)]
          /\ p.state = "TRANSACTION" /\ p.user = u /\ p.messages = Box(u)
          /\ p.deleted = {} /\ p.new = NoFile
  <2> DEFINE q == [NewPop3 EXCEPT !.state = "TRANSACTION", !.user = u, !.messages = Box(u)]
  <2>1. NewPop3 \in SessionType
    BY DEF NewPop3, SessionType
  <2>2. q \in SessionType
    BY <1>3, <2>1 DEF SessionType
  <2>3. /\ q.state = "TRANSACTION" /\ q.user = u /\ q.messages = Box(u)
        /\ q.deleted = {} /\ q.new = NoFile
    BY DEF NewPop3
  <2> QED
    BY <2>2, <2>3
<1>5. /\ pop3' = [pop3 EXCEPT ![r] = p]
      /\ UNCHANGED <<files, MAILBOXES, smtp, log, fate>>
  BY <1>4 DEF handle_pass
<1>6. pop3'[r] = p /\ UNCHANGED <<content, mbox, mboxNew>>
  BY <1>1, <1>5 DEF files, Mailboxes, Sessions
<1>7. HasRead(pop3[r])'
  BY <1>2, <1>4, <1>3, <1>6 DEF HasRead
<1>8. u # NoFile
  BY MailboxAssumption
<1>9. Session(pop3[r])'
  BY <1>2, <1>4, <1>6, <1>7, <1>8 DEF Session, Quits
<1> QED
  BY <1>1, <1>4, <1>5, <1>9, SessionStep

(* DELE and RSET.                                                          *)
LEMMA MarksMail ==
    ASSUME MailInv, Inv', NEW r \in Readers, pop3[r].state = "TRANSACTION",
           NEW D \in SUBSET (1..Len(pop3[r].messages)),
           pop3' = [pop3 EXCEPT ![r].deleted = D],
           UNCHANGED <<files, MAILBOXES, smtp, log, fate>>
    PROVE  MailInv'
<1>1. Mailboxes /\ pop3 \in [Readers -> SessionType] /\ pop3[r] \in SessionType
  BY DEF MailInv, Mailboxes, Sessions
<1>2. D \in SUBSET Nat
  BY <1>1 DEF SessionType
<1>3. PICK p \in SessionType :
          /\ p = [pop3[r] EXCEPT !.deleted = D]
          /\ p.state = "TRANSACTION" /\ p.user = pop3[r].user /\ p.deleted = D
          /\ p.messages = pop3[r].messages /\ p.new = pop3[r].new
  <2> DEFINE q == [pop3[r] EXCEPT !.deleted = D]
  <2>1. q \in SessionType
    BY <1>1, <1>2 DEF SessionType
  <2>2. /\ q.state = "TRANSACTION" /\ q.user = pop3[r].user /\ q.deleted = D
        /\ q.messages = pop3[r].messages /\ q.new = pop3[r].new
    BY <1>1 DEF SessionType
  <2> QED
    BY <2>1, <2>2
<1>4. pop3' = [pop3 EXCEPT ![r] = p] /\ pop3'[r] = p
  BY <1>1, <1>3
<1>5. \A o \in Readers : o # r /\ p.user # NoFile => pop3[o].user # p.user
  BY <1>1, <1>3 DEF Mailboxes, Sessions
<1>6. Session(pop3[r])
  BY <1>1, SessionFacts
<1>7. UNCHANGED <<content, mbox, mboxNew>>
  BY DEF files
<1>8. Session(pop3[r])'
  BY <1>3, <1>4, <1>6, <1>7 DEF Session, HasRead, Quits
<1> QED
  BY <1>3, <1>4, <1>5, <1>8, SessionStep

LEMMA DeleMail ==
    ASSUME MailInv, Inv', NEW r \in Readers, NEW i, handle_dele(r, i)
    PROVE  MailInv'
<1> DEFINE D == pop3[r].deleted \cup {i}
<1>1. Session(pop3[r])
  BY SessionFacts DEF MailInv
<1>2. D \in SUBSET (1..Len(pop3[r].messages))
  BY <1>1 DEF Session, handle_dele
<1>3. /\ pop3[r].state = "TRANSACTION" /\ pop3' = [pop3 EXCEPT ![r].deleted = D]
      /\ UNCHANGED <<files, MAILBOXES, smtp, log, fate>>
  BY DEF handle_dele
<1> HIDE DEF D
<1> QED
  BY <1>2, <1>3, MarksMail

LEMMA ResetMail ==
    ASSUME MailInv, Inv', NEW r \in Readers, Reset(r)
    PROVE  MailInv'
<1>1. {} \in SUBSET (1..Len(pop3[r].messages))
  OBVIOUS
<1> QED
  BY <1>1, MarksMail DEF Reset

(* QUIT reads the mailbox again.                                           *)
LEMMA QuitReadMail ==
    ASSUME MailInv, Inv', NEW r \in Readers, QuitRead(r)
    PROVE  MailInv'
<1> DEFINE old == content[pop3[r].in]
           D   == pop3[r].deleted
           out == Without(old, D)
           u   == pop3[r].user
<1>1. /\ Mailboxes /\ pop3 \in [Readers -> SessionType] /\ pop3[r] \in SessionType
      /\ Session(pop3[r]) /\ pop3[r].state = "OPENED" /\ u \in Users
  <2>1. Mailboxes /\ pop3[r].state = "OPENED"
    BY DEF MailInv, QuitRead
  <2> QED
    BY <2>1, SessionFacts DEF Mailboxes, Sessions
<1>2. /\ mbox[u] # NoFile /\ pop3[r].in = mbox[u] /\ mbox[u] \in Inodes /\ HasRead(pop3[r])
      /\ \A i \in D : pop3[r].messages[i] \in marked
      /\ D \subseteq 1..Len(pop3[r].messages)
  <2>1. /\ mbox[u] # NoFile /\ pop3[r].in = mbox[u] /\ HasRead(pop3[r])
        /\ \A i \in D : pop3[r].messages[i] \in marked
        /\ D \subseteq 1..Len(pop3[r].messages)
    BY <1>1 DEF Session
  <2>2. mbox[u] \in Inodes
    BY <1>1, <2>1 DEF Mailboxes, Names
  <2> QED
    BY <2>1, <2>2
<1>3. old = Box(u) /\ MailOf(log, old, u) /\ old \in Seq(1..Len(log)) /\ Increasing(old)
  <2>1. old = Box(u)
    BY <1>2 DEF Box
  <2>2. MailOf(log, old, u)
    BY <1>1, <1>2 DEF Mailboxes, Owned
  <2> QED
    BY <2>1, <2>2 DEF MailOf
<1>4. Len(log) \in Nat
  BY DEF MailInv, Inv
<1>5. /\ out \in Seq(1..Len(log)) /\ Increasing(out)
      /\ ToSet(out) = {old[i] : i \in (1..Len(old)) \ D}
  <2> HIDE DEF old, D
  <2> QED
    BY <1>3, <1>4, WithoutIs
<1>6. FlattenSeq(Kept(r)) = out
  <2>1. Kept(r) = [i \in 1..Len(old) |-> IF i \in D THEN <<>> ELSE <<old[i]>>]
    BY <1>2 DEF Kept
  <2> QED
    BY <2>1 DEF Without
<1>7. MailOf(log, out, u)
  <2>1. ASSUME NEW i \in 1..Len(out) PROVE log[out[i]].box = u
    <3>1. out[i] \in ToSet(out)
      BY <1>5 DEF ToSet
    <3>2. PICK j \in 1..Len(old) : out[i] = old[j]
      BY <1>5, <3>1
    <3> QED
      BY <1>3, <3>2 DEF MailOf
  <2> QED
    BY <1>5, <2>1 DEF MailOf
<1>8. AllIn(log, Explained, out, u)
  <2> SUFFICES ASSUME NEW n \in 1..Len(log), log[n].box = u, n \notin ToSet(out)
               PROVE  n \in Explained
    BY DEF AllIn
  <2>1. AllIn(log, Explained, old, u)
    <3>1. ~ Removed(u)
      <4>1. u # NoFile
        BY <1>1, MailboxAssumption
      <4>2. \A o \in Readers : pop3[o].user = u => o = r
        BY <1>1, <4>1 DEF Mailboxes, Sessions
      <4> QED
        BY <1>1, <4>2 DEF Removed
    <3> QED
      BY <1>1, <1>3, <3>1 DEF Mailboxes, LeftIn
  <2>2. CASE n \in Explained
    BY <2>2
  <2>3. CASE n \in ToSet(old)
    <3>1. PICK i \in 1..Len(old) : n = old[i]
      BY <1>3, <2>3 DEF ToSet
    <3>2. i \in D
      BY <1>5, <3>1
    <3>3. pop3[r].messages[i] = old[i] /\ pop3[r].messages[i] \in marked
      BY <1>2, <3>2 DEF HasRead
    <3> QED
      BY <3>1, <3>3 DEF Explained
  <2> QED
    BY <2>1, <2>2, <2>3 DEF AllIn
<1>9. out \in Seq(Nat)
  BY <1>4, <1>5
<1>10. PICK p \in SessionType :
          /\ p = [pop3[r] EXCEPT !.state = "READ", !.out = out]
          /\ p.state = "READ" /\ p.user = u /\ p.deleted = D /\ p.out = out
          /\ p.messages = pop3[r].messages /\ p.new = pop3[r].new /\ p.in = pop3[r].in
  <2> HIDE DEF out, D, u
  <2> DEFINE q == [pop3[r] EXCEPT !.state = "READ", !.out = out]
  <2>1. q \in SessionType
    BY <1>1, <1>9 DEF SessionType, Quits
  <2>2. /\ q.state = "READ" /\ q.user = pop3[r].user /\ q.deleted = pop3[r].deleted
        /\ q.out = out
        /\ q.messages = pop3[r].messages /\ q.new = pop3[r].new /\ q.in = pop3[r].in
    BY <1>1 DEF SessionType
  <2> QED
    BY <2>1, <2>2 DEF D, u
<1>11. /\ pop3' = [pop3 EXCEPT ![r] = p] /\ pop3'[r] = p
       /\ UNCHANGED <<files, MAILBOXES, smtp, log, fate>>
  BY <1>1, <1>6, <1>10 DEF QuitRead
<1>12. p.user # NoFile => \A o \in Readers : o # r => pop3[o].user # p.user
  BY <1>1, <1>10 DEF Mailboxes, Sessions
<1>13. Explained' = Explained /\ log' = log /\ UNCHANGED <<content, mbox, mboxNew>>
  BY <1>11 DEF Explained, fate, files
<1>14. Session(pop3[r])'
  <2>1. /\ MailOf(log', p.out, p.user) /\ AllIn(log', Explained', p.out, p.user)
        /\ p.deleted \subseteq 1..Len(p.messages)
    BY <1>2, <1>7, <1>8, <1>10, <1>13
  <2>2. p.new # NoFile /\ p.new = mboxNew[u] /\ content[p.new] = <<>> /\ u # NoFile
    BY <1>1, <1>10 DEF Session, Quits
  <2> QED
    BY <1>2, <1>11, <1>10, <1>13, <2>1, <2>2 DEF Session, Quits
<1> QED
  BY <1>1, <1>11, <1>10, <1>12, <1>14, SessionStep

-----------------------------------------------------------------------------
(* The steps of QUIT that change the files.                                *)
LEMMA SessionsStay ==
    ASSUME Mailboxes, NEW r \in Readers, NEW p \in SessionType,
           pop3' = [pop3 EXCEPT ![r] = p], p.user = pop3[r].user \/ p.user = NoFile,
           Session(pop3[r])',
           log' = log, marked \subseteq marked',
           raced \subseteq raced', stranded \subseteq stranded',
           \A v \in Users : v # pop3[r].user =>
             /\ mbox'[v] = mbox[v] /\ mboxNew'[v] = mboxNew[v]
             /\ \A i \in Inodes : i = mbox[v] \/ i = mboxNew[v] => content'[i] = content[i]
    PROVE  /\ Sessions'
           /\ pop3'[r] = p /\ \A o \in Readers \ {r} : pop3'[o] = pop3[o]
<1>1. pop3 \in [Readers -> SessionType]
  BY DEF Mailboxes, Sessions
<1>2. pop3'[r] = p /\ \A o \in Readers \ {r} : pop3'[o] = pop3[o]
  BY <1>1
<1>3. ASSUME NEW o \in Readers \ {r} PROVE Session(pop3[o])'
  <2>1. pop3[o].user \in Users => pop3[o].user # pop3[r].user
    BY MailboxAssumption DEF Mailboxes, Sessions
  <2>2. pop3'[o] = pop3[o]
    BY <1>2
  <2>3. pop3[o].user \in Users =>
             /\ mbox'[pop3[o].user] = mbox[pop3[o].user]
             /\ mboxNew'[pop3[o].user] = mboxNew[pop3[o].user]
             /\ \A i \in Inodes : i = mbox[pop3[o].user] \/ i = mboxNew[pop3[o].user]
                                    => content'[i] = content[i]
    BY <2>1
  <2> QED
    BY <2>2, <2>3, SessionStays
<1>4. \A o \in Readers : Session(pop3[o])'
  BY <1>3
<1>5. ASSUME NEW a \in Readers, NEW b \in Readers,
             pop3'[a].user = pop3'[b].user, pop3'[a].user # NoFile
      PROVE  a = b
  BY <1>2, <1>5 DEF Mailboxes, Sessions
<1> QED
  BY <1>1, <1>2, <1>4, <1>5 DEF Sessions

(* Who else has a mailbox is not concerned.                                *)
LEMMA QuitFacts ==
    ASSUME MailInv, NEW r \in Readers, pop3[r].state # "AUTHORIZATION"
    PROVE  /\ Mailboxes /\ pop3[r] \in SessionType /\ Session(pop3[r])
           /\ pop3[r].user \in Users /\ pop3[r].user # NoFile
           /\ \A o \in Readers : pop3[o].user = pop3[r].user => o = r
           /\ pop3[r].state # "REMOVED" => ~ Removed(pop3[r].user)
           /\ mbox \in [Users -> Inodes \cup {NoFile}]
           /\ mboxNew \in [Users -> Inodes \cup {NoFile}]
           /\ content \in [Inodes -> Seq(Numbers)] /\ NoFile \notin Inodes
<1>1. Mailboxes
  BY DEF MailInv
<1>2. pop3[r] \in SessionType /\ Session(pop3[r]) /\ pop3[r].user \in Users
  BY <1>1, SessionFacts
<1>3. pop3[r].user # NoFile
  BY <1>2, MailboxAssumption
<1>4. \A o \in Readers : pop3[o].user = pop3[r].user => o = r
  BY <1>1, <1>3 DEF Mailboxes, Sessions
<1>5. /\ mbox \in [Users -> Inodes \cup {NoFile}] /\ mboxNew \in [Users -> Inodes \cup {NoFile}]
      /\ content \in [Inodes -> Seq(Numbers)]
  BY <1>1 DEF Mailboxes, Names, Owned
<1>6. pop3[r].state # "REMOVED" => ~ Removed(pop3[r].user)
  BY <1>4 DEF Removed
<1> QED
  BY <1>1, <1>2, <1>3, <1>4, <1>5, <1>6, InodesCount

LEMMA NewInode ==
    ASSUME Mailboxes, NEW u \in Users,
           NEW new, new = IF mboxNew[u] = NoFile THEN FreeInode ELSE mboxNew[u]
    PROVE  /\ new \in Inodes /\ new # NoFile
           /\ \A v \in Users : new # mbox[v] /\ (v # u => new # mboxNew[v])
<1>1. NoFile \notin Inodes
  BY InodesCount
<1>2. CASE mboxNew[u] = NoFile
  <2>1. \A r \in Readers : pop3[r].new = NoFile \/ \E v \in Users : pop3[r].new = mboxNew[v]
    BY NewIsNamed
  <2> QED
    BY <1>1, <1>2, <2>1, FreeInodeIs
<1>3. CASE mboxNew[u] # NoFile
  BY <1>1, <1>3 DEF Mailboxes, Names
<1> QED
  BY <1>2, <1>3

LEMMA QuitOpenMail ==
    ASSUME MailInv, Inv', NEW r \in Readers, QuitOpen(r)
    PROVE  MailInv'
<1>1. PICK u : u = pop3[r].user
  OBVIOUS
<1>2. pop3[r].state = "TRANSACTION"
  BY DEF QuitOpen
<1>3. /\ Mailboxes /\ pop3[r] \in SessionType /\ Session(pop3[r])
      /\ u \in Users /\ u # NoFile /\ ~ Removed(u)
      /\ mbox \in [Users -> Inodes \cup {NoFile}] /\ mboxNew \in [Users -> Inodes \cup {NoFile}]
      /\ content \in [Inodes -> Seq(Numbers)] /\ NoFile \notin Inodes
  BY <1>2, <1>1, QuitFacts
<1>4. PICK new : new = IF mboxNew[u] = NoFile THEN FreeInode ELSE mboxNew[u]
  OBVIOUS
<1>5. /\ new \in Inodes /\ new # NoFile
      /\ \A v \in Users : new # mbox[v] /\ (v # u => new # mboxNew[v])
  BY <1>3, <1>4, NewInode
<1>6. /\ pop3' = [pop3 EXCEPT ![r].state = "OPENED", ![r].in = mbox[u], ![r].new = new]
      /\ mboxNew' = [mboxNew EXCEPT ![u] = new]
      /\ content' = [content EXCEPT ![new] = <<>>]
      /\ marked' = marked \cup MarkedBy(r)
      /\ UNCHANGED <<mbox, MAILBOXES, smtp, log, raced, stranded>>
  BY <1>4, <1>1 DEF QuitOpen
<1>7. /\ mbox[u] # NoFile /\ mbox[u] \in Inodes /\ HasRead(pop3[r])
      /\ pop3[r].deleted \subseteq 1..Len(pop3[r].messages)
      /\ Len(pop3[r].messages) \in Nat
  <2>1. mbox[u] # NoFile /\ HasRead(pop3[r]) /\ pop3[r].deleted \subseteq 1..Len(pop3[r].messages)
    BY <1>2, <1>3, <1>1 DEF Session
  <2>2. mbox[u] \in Inodes
    BY <1>3, <2>1
  <2>3. pop3[r].messages \in Seq(Nat)
    BY <1>3 DEF SessionType
  <2> QED
    BY <2>1, <2>2, <2>3
<1>8. /\ mboxNew'[u] = new /\ \A v \in Users \ {u} : mboxNew'[v] = mboxNew[v]
      /\ content'[new] = <<>> /\ \A i \in Inodes \ {new} : content'[i] = content[i]
  BY <1>3, <1>5, <1>6
<1>9. PICK p \in SessionType :
          /\ pop3' = [pop3 EXCEPT ![r] = p]
          /\ p.state = "OPENED" /\ p.in = mbox[u] /\ p.new = new /\ p.user = u
          /\ p.messages = pop3[r].messages /\ p.deleted = pop3[r].deleted
  <2> DEFINE q == [pop3[r] EXCEPT !.state = "OPENED", !.in = mbox[u], !.new = new]
  <2>1. q \in SessionType
    BY <1>3, <1>5, <1>7 DEF SessionType, Quits
  <2>2. /\ q.state = "OPENED" /\ q.in = mbox[u] /\ q.new = new /\ q.user = u
        /\ q.messages = pop3[r].messages /\ q.deleted = pop3[r].deleted
    BY <1>3, <1>1 DEF SessionType
  <2>3. pop3' = [pop3 EXCEPT ![r] = q]
    BY <1>3, <1>6 DEF Mailboxes, Sessions
  <2> QED
    BY <2>1, <2>2, <2>3
<1>10. MarkedBy(r) \subseteq Numbers
  <2> SUFFICES ASSUME NEW i \in pop3[r].deleted PROVE pop3[r].messages[i] \in Numbers
    BY DEF MarkedBy
  <2>1. i \in 1..Len(pop3[r].messages) /\ pop3[r].messages[i] = content[mbox[u]][i]
    BY <1>7, <1>1 DEF HasRead
  <2>2. content[mbox[u]] \in Seq(Numbers) /\ Len(pop3[r].messages) <= Len(content[mbox[u]])
    BY <1>3, <1>7, <1>1 DEF HasRead
  <2>3. i \in 1..Len(content[mbox[u]])
    BY <1>7, <2>1, <2>2
  <2> QED
    BY <2>1, <2>2, <2>3
<1>11. Explained \subseteq Explained' /\ Explained' = Explained \cup MarkedBy(r)
  BY <1>6 DEF Explained
<1>12. Session(pop3[r])'
  <2>1. pop3'[r] = p
    BY <1>3, <1>9 DEF Mailboxes, Sessions
  <2>2. content'[mbox[u]] = content[mbox[u]]
    BY <1>3, <1>5, <1>7, <1>8
  <2>3. HasRead(pop3[r])'
    <3>1. p.user = u /\ p.messages = pop3[r].messages /\ mbox'[u] = mbox[u]
      BY <1>6, <1>9
    <3>2. /\ Len(p.messages) <= Len(content'[mbox'[u]])
          /\ \A i \in 1..Len(p.messages) : p.messages[i] = content'[mbox'[u]][i]
      BY <1>7, <1>1, <2>2, <3>1 DEF HasRead
    <3> QED
      BY <2>1, <3>1, <3>2 DEF HasRead
  <2>4. \A i \in p.deleted : p.messages[i] \in marked'
    BY <1>6, <1>9 DEF MarkedBy
  <2> QED
    BY <1>3, <1>5, <1>6, <1>7, <1>8, <1>9, <1>1, <2>1, <2>3, <2>4 DEF Session, Quits
<1>13. \A v \in Users : v # u =>
             /\ mbox'[v] = mbox[v] /\ mboxNew'[v] = mboxNew[v]
             /\ \A i \in Inodes : i = mbox[v] \/ i = mboxNew[v] => content'[i] = content[i]
  BY <1>5, <1>6, <1>8
<1>14. Sessions' /\ pop3'[r] = p /\ \A o \in Readers \ {r} : pop3'[o] = pop3[o]
  <2>1. /\ log' = log /\ marked \subseteq marked' /\ raced \subseteq raced'
        /\ stranded \subseteq stranded'
    BY <1>6
  <2>2. pop3' = [pop3 EXCEPT ![r] = p] /\ p.user = pop3[r].user
    BY <1>9, <1>1
  <2> QED
    BY <1>3, <1>12, <1>13, <1>1, <2>1, <2>2, SessionsStay
<1>15. Names'
  <2>1. mboxNew' \in [Users -> Inodes \cup {NoFile}]
    BY <1>3, <1>5, <1>6
  <2>2. ASSUME NEW v \in Users, NEW w \in Users
        PROVE  /\ mbox[v] = mbox[w] /\ mbox[v] # NoFile => v = w
               /\ mboxNew'[v] = mboxNew'[w] /\ mboxNew'[v] # NoFile => v = w
               /\ mbox[v] = mboxNew'[w] => mbox[v] = NoFile
    BY <1>3, <1>5, <1>8 DEF Mailboxes, Names
  <2> QED
    BY <1>3, <1>6, <2>1, <2>2 DEF Names
<1>16. Owned'
  <2>1. Numbers' = Numbers /\ <<>> \in Seq(Numbers)
    BY <1>6 DEF Numbers
  <2>2. content' \in [Inodes -> Seq(Numbers')]
    BY <1>3, <1>6, <2>1
  <2>3. \A v \in Users : mbox[v] # NoFile => content'[mbox[v]] = content[mbox[v]]
    BY <1>3, <1>5, <1>8
  <2>4. MailOf(log, <<>>, u)
    BY DEF MailOf, Increasing
  <2>5. \A v \in Users \ {u} : mboxNew[v] # NoFile => content'[mboxNew[v]] = content[mboxNew[v]]
    BY <1>3, <1>5, <1>8
  <2> QED
    BY <1>3, <1>6, <1>8, <2>2, <2>3, <2>4, <2>5 DEF Mailboxes, Owned
<1>17. \A v : Removed(v)' <=> Removed(v)
  BY <1>2, <1>9, <1>14, <1>1 DEF Removed
<1>18. Served'
  BY <1>3, <1>6, <1>17 DEF Mailboxes, Served
<1>19. LeftIn'
  <2>1. ASSUME NEW v \in Users PROVE Box(v)' = Box(v)
    BY <1>3, <1>5, <1>6, <1>8 DEF Box
  <2>2. \A v \in Users : AllIn(log, Explained, Box(v), v) => AllIn(log', Explained', Box(v)', v)
    BY <1>6, <1>11, <2>1 DEF AllIn
  <2>3. Explained' \subseteq Numbers'
    BY <1>3, <1>6, <1>10, <1>11 DEF Mailboxes, LeftIn, Numbers
  <2> QED
    BY <1>3, <1>17, <2>2, <2>3 DEF Mailboxes, LeftIn
<1>20. Connections'
  BY <1>6 DEF MailInv, Connections
<1> QED
  BY <1>14, <1>15, <1>16, <1>18, <1>19, <1>20 DEF MailInv, Mailboxes

(* QUIT writes what is left.                                               *)
LEMMA QuitCloseMail ==
    ASSUME MailInv, Inv', NEW r \in Readers, QuitClose(r)
    PROVE  MailInv'
<1>1. PICK u : u = pop3[r].user
  OBVIOUS
<1>2. PICK new : new = pop3[r].new
  OBVIOUS
<1>3. PICK out : out = pop3[r].out
  OBVIOUS
<1>4. pop3[r].state = "READ"
  BY DEF QuitClose
<1>5. /\ Mailboxes /\ pop3[r] \in SessionType /\ Session(pop3[r])
      /\ u \in Users /\ u # NoFile /\ ~ Removed(u)
      /\ mbox \in [Users -> Inodes \cup {NoFile}] /\ mboxNew \in [Users -> Inodes \cup {NoFile}]
      /\ content \in [Inodes -> Seq(Numbers)] /\ NoFile \notin Inodes
  BY <1>4, <1>1, QuitFacts
<1>6. /\ new # NoFile /\ new = mboxNew[u] /\ content[new] = <<>>
      /\ mbox[u] # NoFile /\ pop3[r].in = mbox[u]
      /\ MailOf(log, out, u) /\ AllIn(log, Explained, out, u)
      /\ pop3[r].deleted \subseteq 1..Len(pop3[r].messages)
  BY <1>4, <1>5, <1>1, <1>2, <1>3 DEF Session, Quits
<1>7. /\ new \in Inodes
      /\ \A v \in Users : new # mbox[v] /\ (v # u => new # mboxNew[v])
  BY <1>5, <1>6 DEF Mailboxes, Names
<1>8. out \in Seq(Numbers)
  BY <1>6 DEF MailOf, Numbers
<1>9. out \o SubSeq(content[new], Len(out) + 1, Len(content[new])) = out
  BY <1>6, <1>8
<1>10. /\ pop3' = [pop3 EXCEPT ![r].state = "WRITTEN"]
       /\ content' = [content EXCEPT ![new] = out]
       /\ UNCHANGED <<mbox, mboxNew, MAILBOXES, smtp, log, marked, raced, stranded>>
  BY <1>9, <1>2, <1>3 DEF QuitClose, fate
<1>11. content'[new] = out /\ \A i \in Inodes \ {new} : content'[i] = content[i]
  BY <1>5, <1>7, <1>10
<1>12. PICK p \in SessionType :
           /\ pop3' = [pop3 EXCEPT ![r] = p]
           /\ p.state = "WRITTEN" /\ p.in = mbox[u] /\ p.new = new /\ p.user = u
           /\ p.messages = pop3[r].messages /\ p.deleted = pop3[r].deleted
  <2> DEFINE q == [pop3[r] EXCEPT !.state = "WRITTEN"]
  <2>1. q \in SessionType
    BY <1>5 DEF SessionType, Quits
  <2>2. /\ q.state = "WRITTEN" /\ q.in = mbox[u] /\ q.new = new /\ q.user = u
        /\ q.messages = pop3[r].messages /\ q.deleted = pop3[r].deleted
    BY <1>5, <1>6, <1>1, <1>2 DEF SessionType
  <2>3. pop3' = [pop3 EXCEPT ![r] = q]
    BY <1>5, <1>10 DEF Mailboxes, Sessions
  <2> QED
    BY <2>1, <2>2, <2>3
<1>13. Explained' = Explained /\ Numbers' = Numbers
  BY <1>10 DEF Explained, Numbers
<1>14. Session(pop3[r])'
  <2>1. pop3'[r] = p
    BY <1>5, <1>12 DEF Mailboxes, Sessions
  <2>2. AllIn(log', Explained', content'[p.new], u)
    BY <1>6, <1>10, <1>11, <1>12, <1>13
  <2>3. mbox'[u] = mbox[u] /\ mboxNew'[u] = mboxNew[u]
    BY <1>10
  <2> QED
    BY <1>5, <1>6, <1>12, <2>1, <2>2, <2>3 DEF Session, Quits
<1>15. \A v \in Users : v # u =>
             /\ mbox'[v] = mbox[v] /\ mboxNew'[v] = mboxNew[v]
             /\ \A i \in Inodes : i = mbox[v] \/ i = mboxNew[v] => content'[i] = content[i]
  BY <1>7, <1>10, <1>11
<1>16. Sessions' /\ pop3'[r] = p /\ \A o \in Readers \ {r} : pop3'[o] = pop3[o]
  <2>1. /\ log' = log /\ marked \subseteq marked' /\ raced \subseteq raced'
        /\ stranded \subseteq stranded'
    BY <1>10
  <2>2. pop3' = [pop3 EXCEPT ![r] = p] /\ p.user = pop3[r].user
    BY <1>12, <1>1
  <2> QED
    BY <1>5, <1>14, <1>15, <1>1, <2>1, <2>2, SessionsStay
<1>17. Names'
  BY <1>5, <1>10 DEF Mailboxes, Names
<1>18. Owned'
  <2>1. content' \in [Inodes -> Seq(Numbers')]
    BY <1>5, <1>8, <1>10, <1>13
  <2>2. \A v \in Users : mbox[v] # NoFile => content'[mbox[v]] = content[mbox[v]]
    BY <1>5, <1>7, <1>11
  <2>3. \A v \in Users \ {u} : mboxNew[v] # NoFile => content'[mboxNew[v]] = content[mboxNew[v]]
    BY <1>5, <1>7, <1>11
  <2>4. \A v \in Users : mbox'[v] # NoFile => MailOf(log', content'[mbox'[v]], v)
    BY <1>5, <1>10, <2>2 DEF Mailboxes, Owned
  <2>5. ASSUME NEW v \in Users, mboxNew'[v] # NoFile
        PROVE  MailOf(log', content'[mboxNew'[v]], v)
    <3>1. CASE v = u
      BY <1>6, <1>10, <1>11, <3>1
    <3>2. CASE v # u
      BY <1>5, <1>10, <2>3, <2>5, <3>2 DEF Mailboxes, Owned
    <3> QED
      BY <3>1, <3>2
  <2> QED
    BY <2>1, <2>4, <2>5 DEF Owned
<1>19. \A v : Removed(v)' <=> Removed(v)
  BY <1>4, <1>12, <1>16 DEF Removed
<1>20. Served'
  BY <1>5, <1>10, <1>19 DEF Mailboxes, Served
<1>21. LeftIn'
  <2>1. ASSUME NEW v \in Users PROVE Box(v)' = Box(v)
    BY <1>5, <1>7, <1>10, <1>11 DEF Box
  <2>2. \A v \in Users : AllIn(log, Explained, Box(v), v) => AllIn(log', Explained', Box(v)', v)
    BY <1>10, <1>13, <2>1
  <2> QED
    BY <1>5, <1>13, <1>19, <2>2 DEF Mailboxes, LeftIn
<1>22. Connections'
  BY <1>10 DEF MailInv, Connections
<1> QED
  BY <1>16, <1>17, <1>18, <1>20, <1>21, <1>22 DEF MailInv, Mailboxes

(* QUIT removes the mailbox: until the new file has its name, all is there.*)
LEMMA QuitRemoveMail ==
    ASSUME MailInv, Inv', NEW r \in Readers, QuitRemove(r)
    PROVE  MailInv'
<1>1. PICK u : u = pop3[r].user
  OBVIOUS
<1>2. pop3[r].state = "WRITTEN"
  BY DEF QuitRemove
<1>3. /\ Mailboxes /\ pop3[r] \in SessionType /\ Session(pop3[r])
      /\ u \in Users /\ u # NoFile
      /\ mbox \in [Users -> Inodes \cup {NoFile}] /\ mboxNew \in [Users -> Inodes \cup {NoFile}]
      /\ content \in [Inodes -> Seq(Numbers)] /\ NoFile \notin Inodes
  BY <1>2, <1>1, QuitFacts
<1>4. /\ pop3[r].new # NoFile /\ pop3[r].new = mboxNew[u]
      /\ AllIn(log, Explained, content[pop3[r].new], u)
      /\ pop3[r].deleted \subseteq 1..Len(pop3[r].messages)
  BY <1>2, <1>3, <1>1 DEF Session, Quits
<1>5. /\ pop3' = [pop3 EXCEPT ![r].state = "REMOVED"]
      /\ mbox' = [mbox EXCEPT ![u] = NoFile]
      /\ UNCHANGED <<content, mboxNew, MAILBOXES, smtp, log, marked, raced, stranded>>
  BY <1>1 DEF QuitRemove, fate
<1>6. mbox'[u] = NoFile /\ \A v \in Users \ {u} : mbox'[v] = mbox[v]
  BY <1>3, <1>5
<1>7. PICK p \in SessionType :
          /\ pop3' = [pop3 EXCEPT ![r] = p]
          /\ p.state = "REMOVED" /\ p.new = pop3[r].new /\ p.user = u
          /\ p.messages = pop3[r].messages /\ p.deleted = pop3[r].deleted
  <2> DEFINE q == [pop3[r] EXCEPT !.state = "REMOVED"]
  <2>1. q \in SessionType
    BY <1>3 DEF SessionType, Quits
  <2>2. /\ q.state = "REMOVED" /\ q.new = pop3[r].new /\ q.user = u
        /\ q.messages = pop3[r].messages /\ q.deleted = pop3[r].deleted
    BY <1>3, <1>1 DEF SessionType
  <2>3. pop3' = [pop3 EXCEPT ![r] = q]
    BY <1>3, <1>5 DEF Mailboxes, Sessions
  <2> QED
    BY <2>1, <2>2, <2>3
<1>8. Explained' = Explained /\ Numbers' = Numbers
  BY <1>5 DEF Explained, Numbers
<1>9. Session(pop3[r])'
  <2>1. pop3'[r] = p
    BY <1>3, <1>7 DEF Mailboxes, Sessions
  <2>2. AllIn(log', Explained', content'[p.new], u)
    BY <1>4, <1>5, <1>7, <1>8
  <2>3. mboxNew'[u] = mboxNew[u]
    BY <1>5
  <2> QED
    BY <1>3, <1>4, <1>7, <2>1, <2>2, <2>3 DEF Session, Quits
<1>10. \A v \in Users : v # u =>
              /\ mbox'[v] = mbox[v] /\ mboxNew'[v] = mboxNew[v]
              /\ \A i \in Inodes : i = mbox[v] \/ i = mboxNew[v] => content'[i] = content[i]
  BY <1>5, <1>6
<1>11. Sessions' /\ pop3'[r] = p /\ \A o \in Readers \ {r} : pop3'[o] = pop3[o]
  <2>1. /\ log' = log /\ marked \subseteq marked' /\ raced \subseteq raced'
        /\ stranded \subseteq stranded'
    BY <1>5
  <2>2. pop3' = [pop3 EXCEPT ![r] = p] /\ p.user = pop3[r].user
    BY <1>7, <1>1
  <2> QED
    BY <1>3, <1>9, <1>10, <1>1, <2>1, <2>2, SessionsStay
<1>12. Names'
  <2>1. mbox' \in [Users -> Inodes \cup {NoFile}]
    BY <1>3, <1>5
  <2>2. ASSUME NEW v \in Users, NEW w \in Users
        PROVE  /\ mbox'[v] = mbox'[w] /\ mbox'[v] # NoFile => v = w
               /\ mboxNew[v] = mboxNew[w] /\ mboxNew[v] # NoFile => v = w
               /\ mbox'[v] = mboxNew[w] => mbox'[v] = NoFile
    BY <1>3, <1>6 DEF Mailboxes, Names
  <2> QED
    BY <1>3, <1>5, <2>1, <2>2 DEF Names
<1>13. Owned'
  BY <1>3, <1>5, <1>6, <1>8 DEF Mailboxes, Owned
<1>14. \A v : Removed(v) => Removed(v)'
  BY <1>2, <1>11 DEF Removed
<1>15. Removed(u)'
  BY <1>7, <1>11 DEF Removed
<1>16. Served'
  <2>1. ASSUME NEW v \in MAILBOXES["pop3"] PROVE mbox'[v] # NoFile \/ Removed(v)'
    BY <1>3, <1>6, <1>14, <1>15 DEF Mailboxes, Served
  <2> QED
    BY <1>3, <1>5, <2>1 DEF Mailboxes, Served
<1>17. LeftIn'
  <2>1. ASSUME NEW v \in Users PROVE Removed(v)' \/ AllIn(log', Explained', Box(v)', v)
    <3>1. CASE v = u
      BY <1>15, <3>1
    <3>2. CASE v # u
      <4>1. Box(v)' = Box(v)
        BY <1>5, <1>6, <3>2 DEF Box
      <4>2. AllIn(log, Explained, Box(v), v) => AllIn(log', Explained', Box(v)', v)
        BY <1>5, <1>8, <4>1
      <4> QED
        BY <1>3, <1>14, <4>2 DEF Mailboxes, LeftIn
    <3> QED
      BY <3>1, <3>2
  <2> QED
    BY <1>3, <1>8, <2>1 DEF Mailboxes, LeftIn
<1>18. Connections'
  BY <1>5 DEF MailInv, Connections
<1> QED
  BY <1>11, <1>12, <1>13, <1>16, <1>17, <1>18 DEF MailInv, Mailboxes

(* QUIT gives the new file its name.                                       *)
LEMMA QuitRenameMail ==
    ASSUME MailInv, Inv', NEW r \in Readers, QuitRename(r)
    PROVE  MailInv'
<1>1. PICK u : u = pop3[r].user
  OBVIOUS
<1>2. PICK new : new = mboxNew[u]
  OBVIOUS
<1>3. pop3[r].state = "REMOVED"
  BY DEF QuitRename
<1>4. /\ Mailboxes /\ pop3[r] \in SessionType /\ Session(pop3[r])
      /\ u \in Users /\ u # NoFile
      /\ \A o \in Readers : pop3[o].user = u => o = r
      /\ mbox \in [Users -> Inodes \cup {NoFile}] /\ mboxNew \in [Users -> Inodes \cup {NoFile}]
      /\ content \in [Inodes -> Seq(Numbers)] /\ NoFile \notin Inodes
  BY <1>3, <1>1, QuitFacts
<1>5. /\ new # NoFile /\ pop3[r].new = new /\ new \in Inodes
      /\ AllIn(log, Explained, content[new], u)
  BY <1>3, <1>4, <1>1, <1>2 DEF Session, Quits
<1>6. /\ pop3' = [pop3 EXCEPT ![r] = NewPop3]
      /\ mbox' = [mbox EXCEPT ![u] = new] /\ mboxNew' = [mboxNew EXCEPT ![u] = NoFile]
      /\ UNCHANGED <<MAILBOXES, smtp, log, marked, raced, stranded>>
  BY <1>5, <1>1, <1>2 DEF QuitRename, fate
<1>7. /\ mbox'[u] = new /\ mboxNew'[u] = NoFile
      /\ \A v \in Users \ {u} : mbox'[v] = mbox[v] /\ mboxNew'[v] = mboxNew[v]
  BY <1>4, <1>6
<1>8. /\ \A v \in Users : mbox'[v] # NoFile => content'[mbox'[v]] = content[mbox'[v]]
      /\ \A v \in Users : mboxNew'[v] # NoFile => content'[mboxNew'[v]] = content[mboxNew'[v]]
      /\ content' \in [Inodes -> Seq(Numbers)]
  <2> DEFINE held == {mbox'[v] : v \in Users} \cup {mboxNew'[v] : v \in Users}
                       \cup {pop3'[o].in : o \in Readers} \cup {pop3'[o].new : o \in Readers}
             open == {pop3[r].in, pop3[r].new}
  <2>1. content' = [i \in Inodes |-> IF i \in open \ held THEN <<>> ELSE content[i]]
    BY DEF QuitRename
  <2>2. /\ \A v \in Users : mbox'[v] \in held /\ mboxNew'[v] \in held
        /\ mbox' \in [Users -> Inodes \cup {NoFile}] /\ mboxNew' \in [Users -> Inodes \cup {NoFile}]
    BY <1>4, <1>5, <1>6
  <2>3. <<>> \in Seq(Numbers)
    OBVIOUS
  <2> HIDE DEF held, open
  <2> QED
    BY <1>4, <2>1, <2>2, <2>3
<1>9. Explained' = Explained /\ Numbers' = Numbers
  BY <1>6 DEF Explained, Numbers
<1>10. NewPop3 \in SessionType
  BY DEF NewPop3, SessionType
<1>11. PICK p \in SessionType :
           /\ pop3' = [pop3 EXCEPT ![r] = p]
           /\ p.state = "AUTHORIZATION" /\ p.user = NoFile /\ p.new = NoFile
           /\ p.messages = <<>> /\ p.deleted = {}
  BY <1>6, <1>10 DEF NewPop3
<1>12. Session(pop3[r])'
  <2>1. pop3'[r] = p
    BY <1>4, <1>11 DEF Mailboxes, Sessions
  <2> QED
    BY <1>11, <2>1 DEF Session, Quits
<1>13. ASSUME NEW v \in Users, v # u
       PROVE  /\ mbox'[v] = mbox[v] /\ mboxNew'[v] = mboxNew[v]
              /\ \A i \in Inodes : i = mbox[v] \/ i = mboxNew[v] => content'[i] = content[i]
  BY <1>4, <1>7, <1>8, <1>13
<1>14. Sessions' /\ pop3'[r] = p /\ \A o \in Readers \ {r} : pop3'[o] = pop3[o]
  <2>1. /\ log' = log /\ marked \subseteq marked' /\ raced \subseteq raced'
        /\ stranded \subseteq stranded'
    BY <1>6
  <2>2. pop3' = [pop3 EXCEPT ![r] = p] /\ p.user = NoFile
    BY <1>11
  <2> QED
    BY <1>4, <1>12, <1>13, <1>1, <2>1, <2>2, SessionsStay
<1>15. Names'
  <2>1. mbox' \in [Users -> Inodes \cup {NoFile}] /\ mboxNew' \in [Users -> Inodes \cup {NoFile}]
    BY <1>4, <1>5, <1>6
  <2>2. ASSUME NEW v \in Users, NEW w \in Users
        PROVE  /\ mbox'[v] = mbox'[w] /\ mbox'[v] # NoFile => v = w
               /\ mboxNew'[v] = mboxNew'[w] /\ mboxNew'[v] # NoFile => v = w
               /\ mbox'[v] = mboxNew'[w] => mbox'[v] = NoFile
    BY <1>4, <1>5, <1>7, <1>2 DEF Mailboxes, Names
  <2> QED
    BY <2>1, <2>2 DEF Names
<1>16. Owned'
  <2>1. \A v \in Users : mbox'[v] # NoFile => MailOf(log', content'[mbox'[v]], v)
    BY <1>4, <1>5, <1>6, <1>7, <1>8, <1>2 DEF Mailboxes, Owned
  <2>2. \A v \in Users : mboxNew'[v] # NoFile => MailOf(log', content'[mboxNew'[v]], v)
    BY <1>4, <1>6, <1>7, <1>8 DEF Mailboxes, Owned
  <2> QED
    BY <1>8, <1>9, <2>1, <2>2 DEF Owned
<1>17. \A v : v # u => (Removed(v)' <=> Removed(v))
  BY <1>3, <1>11, <1>14, <1>1 DEF Removed
<1>18. Served'
  <2>1. ASSUME NEW v \in MAILBOXES["pop3"] PROVE mbox'[v] # NoFile \/ Removed(v)'
    BY <1>4, <1>5, <1>7, <1>17 DEF Mailboxes, Served
  <2> QED
    BY <1>4, <1>6, <2>1 DEF Mailboxes, Served
<1>19. LeftIn'
  <2>1. ASSUME NEW v \in Users PROVE Removed(v)' \/ AllIn(log', Explained', Box(v)', v)
    <3>1. CASE v = u
      <4>1. Box(u)' = content[new]
        BY <1>4, <1>5, <1>7, <1>8 DEF Box
      <4> QED
        BY <1>5, <1>6, <1>9, <3>1, <4>1
    <3>2. CASE v # u
      <4>1. Box(v)' = Box(v)
        BY <1>7, <1>8, <3>2 DEF Box
      <4>2. AllIn(log, Explained, Box(v), v) => AllIn(log', Explained', Box(v)', v)
        BY <1>6, <1>9, <4>1
      <4> QED
        BY <1>4, <1>17, <3>2, <4>2 DEF Mailboxes, LeftIn
    <3> QED
      BY <3>1, <3>2
  <2> QED
    BY <1>4, <1>9, <2>1 DEF Mailboxes, LeftIn
<1>20. Connections'
  BY <1>6 DEF MailInv, Connections
<1> QED
  BY <1>14, <1>15, <1>16, <1>18, <1>19, <1>20 DEF MailInv, Mailboxes

-----------------------------------------------------------------------------
(* A server is started again.                                              *)
LEMMA Found ==
    ASSUME NEW server, NEW found \in get_mailboxes(server)
    PROVE  found \subseteq Present
BY DEF get_mailboxes

LEMMA NewStage == Stage(NewSmtp)
<1>1. NewSmtp.state = 0 /\ NewSmtp.is_data \in BOOLEAN /\ ~ NewSmtp.is_data
  BY DEF NewSmtp
<1> QED
  BY <1>1 DEF Stage

LEMMA RestartSmtp ==
    ASSUME MailInv, Inv', Restart("smtp")
    PROVE  MailInv'
<1>1. /\ smtp' = [s \in Senders |-> NewSmtp]
      /\ UNCHANGED <<files, pop3, log, fate>>
  BY DEF Restart, fate
<1>2. PICK found \in get_mailboxes("smtp") : MAILBOXES' = [MAILBOXES EXCEPT !["smtp"] = found]
  BY DEF Restart
<1>3. Mailboxes /\ MAILBOXES \in [{"smtp", "pop3"} -> SUBSET Users]
  BY DEF MailInv, Mailboxes, Served
<1>4. MAILBOXES' \in [{"smtp", "pop3"} -> SUBSET Users] /\ MAILBOXES'["pop3"] = MAILBOXES["pop3"]
  BY <1>2, <1>3, Found DEF Present
<1>5. Names' /\ Owned'
  BY <1>1, <1>3 DEF Mailboxes, Names, Owned, files, Numbers
<1>6. Sessions'
  <2>1. \A p : Session(p)' <=> Session(p)
    BY <1>1 DEF Session, HasRead, Explained, files, fate
  <2> QED
    BY <1>1, <1>3, <2>1 DEF Mailboxes, Sessions
<1>7. Served' /\ LeftIn'
  BY <1>1, <1>3, <1>4
  DEF Mailboxes, Served, Removed, LeftIn, Explained, Numbers, Box, files, fate
<1>8. Connections'
  <2>1. \A s \in Senders : Stage(smtp'[s])
    BY <1>1, NewStage
  <2>2. Todos(smtp') = 0
    BY <1>1, NothingToDo
  <2>3. Len(log) <= MaxMails
    <3>1. Todos(smtp) \in Nat /\ Len(log) \in Nat /\ MaxMails \in Nat
      BY TodosNat, MailboxAssumption DEF MailInv, Inv
    <3>2. Len(log) + Todos(smtp) <= MaxMails
      BY DEF MailInv, Connections
    <3> QED
      BY <3>1, <3>2
  <2>4. Len(log) + 0 <= MaxMails
    BY <2>3 DEF MailInv, Inv
  <2> QED
    BY <1>1, <2>1, <2>2, <2>4 DEF Connections
<1> QED
  BY <1>5, <1>6, <1>7, <1>8 DEF MailInv, Mailboxes

(* What a rewrite has not renamed, and is nowhere else, is stranded.       *)
LEMMA RestartPop3 ==
    ASSUME MailInv, Inv', Restart("pop3")
    PROVE  MailInv'
<1>1. /\ pop3' = [r \in Readers |-> NewPop3]
      /\ stranded' = stranded \cup UNION {NotRenamed(u) \ ToSet(Box(u)) : u \in Users}
      /\ UNCHANGED <<content, mbox, mboxNew, smtp, log, marked, raced>>
  BY DEF Restart, files
<1>2. PICK found \in get_mailboxes("pop3") : MAILBOXES' = [MAILBOXES EXCEPT !["pop3"] = found]
  BY DEF Restart
<1>3. Mailboxes /\ MAILBOXES \in [{"smtp", "pop3"} -> SUBSET Users]
  BY DEF MailInv, Mailboxes, Served
<1>4. /\ MAILBOXES' \in [{"smtp", "pop3"} -> SUBSET Users]
      /\ \A u \in MAILBOXES'["pop3"] : mbox[u] # NoFile
  BY <1>2, <1>3, Found DEF Present
<1>5. Names' /\ Owned'
  BY <1>1, <1>3 DEF Mailboxes, Names, Owned, Numbers
<1>6. Sessions'
  <2>1. NewPop3 \in SessionType
    BY DEF NewPop3, SessionType
  <2>2. \A r \in Readers : /\ pop3'[r].state = "AUTHORIZATION" /\ pop3'[r].user = NoFile
                           /\ pop3'[r].new = NoFile /\ pop3'[r].deleted = {}
    BY <1>1 DEF NewPop3
  <2>3. \A r \in Readers : Session(pop3[r])'
    BY <2>2 DEF Session, Quits
  <2> QED
    BY <1>1, <2>1, <2>2, <2>3 DEF Sessions
<1>7. Served'
  BY <1>1, <1>4 DEF Served
<1>8. LeftIn'
  <2>1. Explained \subseteq Explained' /\ Numbers' = Numbers
    BY <1>1 DEF Explained, Numbers
  <2>2. Explained' \subseteq Numbers'
    <3> SUFFICES ASSUME NEW v \in Users PROVE NotRenamed(v) \subseteq Numbers
      BY <1>1, <1>3, <2>1 DEF Mailboxes, LeftIn, Explained
    <3>1. mboxNew[v] # NoFile => content[mboxNew[v]] \in Seq(Numbers)
      BY <1>3 DEF Mailboxes, Owned, MailOf, Numbers
    <3> QED
      BY <3>1 DEF NotRenamed, ToSet
  <2>3. ASSUME NEW v \in Users PROVE AllIn(log', Explained', Box(v)', v)
    <3>1. Box(v)' = Box(v)
      BY <1>1 DEF Box
    <3>2. CASE ~ Removed(v)
      BY <1>1, <1>3, <2>1, <3>1, <3>2 DEF Mailboxes, LeftIn, AllIn
    <3>3. CASE Removed(v)
      <4>1. PICK r \in Readers : pop3[r].user = v /\ pop3[r].state = "REMOVED"
        BY <3>3 DEF Removed
      <4>2. mboxNew[v] # NoFile /\ AllIn(log, Explained, content[mboxNew[v]], v)
        BY <1>3, <4>1, SessionFacts DEF Session, Quits
      <4>3. ToSet(content[mboxNew[v]]) \ ToSet(Box(v)) \subseteq Explained'
        BY <1>1, <4>2 DEF NotRenamed, Explained
      <4> QED
        BY <1>1, <2>1, <3>1, <4>2, <4>3 DEF AllIn
    <3> QED
      BY <3>2, <3>3
  <2> QED
    BY <2>2, <2>3 DEF LeftIn
<1>9. Connections'
  BY <1>1 DEF MailInv, Connections
<1> QED
  BY <1>5, <1>6, <1>7, <1>8, <1>9 DEF MailInv, Mailboxes

-----------------------------------------------------------------------------
(* The first state.                                                        *)
LEMMA InitMail == Init => MailInv
<1> SUFFICES ASSUME Init PROVE MailInv
  OBVIOUS
<1> DEFINE order == SetToSeq(Users)
           inode == [u \in Users |-> CHOOSE i \in DOMAIN order : order[i] = u]
<1>1. \A u \in Users : inode[u] \in 1..Cardinality(Users) /\ order[inode[u]] = u
  BY UsersInOrder
<1>2. /\ mbox = inode /\ mboxNew = [u \in Users |-> NoFile] /\ content = [i \in Inodes |-> <<>>]
      /\ smtp = [s \in Senders |-> NewSmtp] /\ pop3 = [r \in Readers |-> NewPop3]
      /\ log = <<>> /\ marked = {} /\ raced = {} /\ stranded = {}
      /\ MAILBOXES \in [{"smtp", "pop3"} -> SUBSET Users]
      /\ MAILBOXES["pop3"] \subseteq Present
  BY Found DEF Init
<1> HIDE DEF order, inode
<1>3. \A u \in Users : inode[u] \in Inodes
  <2>1. /\ Cardinality(Users) \in Nat /\ Cardinality(Readers) \in Nat
    BY InodesCount
  <2> QED
    BY <1>1, <2>1 DEF Inodes
<1>4. /\ \A u \in Users : mbox[u] \in Inodes /\ mbox[u] # NoFile /\ mboxNew[u] = NoFile
      /\ \A u, v \in Users : mbox[u] = mbox[v] => u = v
      /\ mbox \in [Users -> Inodes]
  <2>1. NoFile \notin Inodes
    BY InodesCount
  <2>2. DOMAIN inode = Users /\ inode = [u \in Users |-> inode[u]]
    BY DEF inode
  <2> QED
    BY <1>1, <1>2, <1>3, <2>1, <2>2
<1>5. Inv
  BY InitOK
<1>6. Connections
  <2>1. \A s \in Senders : Stage(smtp[s])
    BY <1>2, NewStage
  <2>2. Todos(smtp) = 0
    BY <1>2, NothingToDo
  <2> QED
    BY <1>2, <2>1, <2>2, MailboxAssumption DEF Connections
<1>7. Names
  BY <1>2, <1>4 DEF Names
<1>8. Owned
  <2>1. \A u \in Users : MailOf(log, <<>>, u)
    BY DEF MailOf, Increasing
  <2>2. content \in [Inodes -> Seq(Numbers)] /\ \A i \in Inodes : content[i] = <<>>
    BY <1>2
  <2> QED
    BY <1>4, <2>1, <2>2 DEF Owned
<1>9. Sessions
  <2>1. NewPop3 \in SessionType
    BY DEF NewPop3, SessionType
  <2>2. \A r \in Readers : /\ pop3[r].state = "AUTHORIZATION" /\ pop3[r].user = NoFile
                           /\ pop3[r].new = NoFile /\ pop3[r].deleted = {}
    BY <1>2 DEF NewPop3
  <2>3. \A r \in Readers : Session(pop3[r])
    BY <2>2 DEF Session, Quits
  <2> QED
    BY <1>2, <2>1, <2>2, <2>3 DEF Sessions
<1>10. Served
  BY <1>2, <1>4 DEF Served
<1>11. LeftIn
  BY <1>2 DEF LeftIn, Explained, AllIn, Numbers
<1> QED
  BY <1>5, <1>6, <1>7, <1>8, <1>9, <1>10, <1>11 DEF MailInv, Mailboxes

(* One step.                                                               *)
LEMMA MailStep ==
    ASSUME OneReader, MailInv, [Next]_vars
    PROVE  MailInv'
<1>1. Inv'
  BY InvStep DEF MailInv
<1>2. CASE SmtpStep
  BY <1>1, <1>2, SmtpCommandMail, DeliverMail DEF SmtpStep
<1>3. CASE Pop3Step
  <2>1. PICK r \in Readers :
            \/ \E u \in Users : handle_pass(r, u)
            \/ \E i \in 1..MaxMails : handle_dele(r, i)
            \/ Reset(r) \/ QuitOpen(r) \/ QuitRead(r) \/ QuitClose(r)
            \/ QuitRemove(r) \/ QuitRename(r)
    BY <1>3 DEF Pop3Step
  <2> QED
    BY <1>1, <2>1, PassMail, DeleMail, ResetMail, QuitOpenMail, QuitReadMail, QuitCloseMail,
       QuitRemoveMail, QuitRenameMail
<1>4. ASSUME NEW server \in {"smtp", "pop3"}, Restart(server) PROVE MailInv'
  BY <1>1, <1>4, RestartSmtp, RestartPop3
<1>5. CASE UNCHANGED vars
  <2>1. Mailboxes'
    BY <1>5, MailboxesSame DEF MailInv, vars
  <2>2. Connections'
    BY <1>5 DEF MailInv, Connections, vars
  <2> QED
    BY <1>1, <2>1, <2>2 DEF MailInv
<1> QED
  BY <1>2, <1>3, <1>4, <1>5 DEF Next

LEMMA MailInvariant ==
    ASSUME OneReader
    PROVE  Spec => []MailInv
<1>1. MailInv /\ [Next]_vars => MailInv'
  BY MailStep
<1> QED
  BY <1>1, InitMail, PTL DEF Spec

-----------------------------------------------------------------------------
(* The theorems.                                                           *)
LEMMA WiderSeq ==
    ASSUME NEW A, NEW B, A \subseteq B, NEW q \in Seq(A)
    PROVE  q \in Seq(B)
<1>1. Len(q) \in Nat /\ q = [k \in 1..Len(q) |-> q[k]] /\ \A k \in 1..Len(q) : q[k] \in B
  OBVIOUS
<1> QED
  BY <1>1

LEMMA MailTyped == MailInv => TypeOK
<1> SUFFICES ASSUME MailInv PROVE TypeOK
  OBVIOUS
<1>1. Mailboxes /\ Connections /\ Inv
  BY DEF MailInv
<1>2. Len(log) \in Nat /\ Len(log) <= MaxMails /\ MaxMails \in Nat
  <2>1. Todos(smtp) \in Nat /\ Len(log) \in Nat /\ Len(log) + Todos(smtp) <= MaxMails
    BY <1>1, TodosNat DEF Connections, Inv
  <2> QED
    BY <2>1, MailboxAssumption
<1>3. content \in [Inodes -> Seq(1..MaxMails)]
  <2>1. content \in [Inodes -> Seq(1..Len(log))]
    BY <1>1 DEF Mailboxes, Owned, Numbers
  <2>2. 1..Len(log) \subseteq 1..MaxMails
    BY <1>2
  <2>3. \A i \in Inodes : content[i] \in Seq(1..MaxMails)
    BY <2>1, <2>2, WiderSeq
  <2> QED
    BY <2>1, <2>3
<1>4. \A s \in Senders :
         /\ smtp[s].state \in 0..5
         /\ smtp[s].is_data <=> smtp[s].state = 4
         /\ smtp[s].lines \in Seq(Lines)
         /\ smtp[s].rcpts \in Seq(Users)
  BY <1>1 DEF Connections, Stage, Inv, Matching
<1>5. \A r \in Readers :
         /\ pop3[r].state \in {"AUTHORIZATION", "TRANSACTION", "OPENED", "READ",
                               "WRITTEN", "REMOVED"}
         /\ pop3[r].user \in Users \cup {NoFile}
         /\ pop3[r].deleted \subseteq 1..Len(pop3[r].messages)
  BY <1>1, SessionFacts DEF Session, Quits
<1>6. marked \cup raced \cup stranded \subseteq 1..Len(log)
  BY <1>1 DEF Mailboxes, LeftIn, Explained, Numbers
<1> QED
  BY <1>1, <1>2, <1>3, <1>4, <1>5, <1>6 DEF TypeOK, Mailboxes, Names, Served

LEMMA MailInOrder == MailInv => InOrder
<1> SUFFICES ASSUME MailInv, NEW u \in Users
             PROVE  /\ \A i, j \in 1..Len(Box(u)) : i < j => Box(u)[i] < Box(u)[j]
                    /\ \A i \in 1..Len(Box(u)) : log[Box(u)[i]].box = u
  BY DEF InOrder
<1>1. MailOf(log, Box(u), u)
  <2>1. MailOf(log, <<>>, u)
    BY DEF MailOf, Increasing
  <2> QED
    BY <2>1 DEF MailInv, Mailboxes, Owned, Box
<1> QED
  BY <1>1 DEF MailOf, Increasing

(* Nobody serves a mailbox that is removed and not yet renamed as if there *)
(* were no rewrite.                                                        *)
LEMMA MailExplained == MailInv => LossExplained
<1> SUFFICES ASSUME MailInv, NEW n \in 1..Len(log), Lost(n)
             PROVE  n \in marked \cup raced \cup stranded
  BY DEF LossExplained
<1>1. log[n].box \in Users
  <2>1. log \in Seq(Mail)
    BY DEF MailInv, Inv, Mail
  <2>2. log[n] \in Mail
    BY <2>1
  <2> QED
    BY <2>2 DEF Mail
<1>2. ~ Removed(log[n].box)
  BY DEF Removed, Lost, Using
<1>3. AllIn(log, Explained, Box(log[n].box), log[n].box)
  BY <1>1, <1>2 DEF MailInv, Mailboxes, LeftIn
<1> QED
  BY <1>3 DEF AllIn, Lost, Explained

(* What the two servers keep, under any interleaving of their threads and  *)
(* any restarts, while nobody has two POP3 sessions at once: no inode and  *)
(* no message number out of its range (smtp.cc handle_data; pop3.cc        *)
(* update_mailbox).                                                        *)
THEOREM MailboxTyped ==
    ASSUME OneReader
    PROVE  Spec => []TypeOK
BY MailInvariant, MailTyped, PTL

(* A mailbox has its messages in the order they came, each once, and none  *)
(* of another's: however often its file is rewritten, removed and renamed  *)
(* by QUIT, and whatever smtp.cc appends in between.                       *)
THEOREM InOrderHolds ==
    ASSUME OneReader
    PROVE  Spec => []InOrder
BY MailInvariant, MailInOrder, PTL

(* What is gone from a mailbox was deleted by its reader, or came during a *)
(* rewrite, or is in the user.mbox.new a stopped server left behind: QUIT  *)
(* loses nothing else (pop3.cc update_mailbox).                            *)
THEOREM LossExplainedHolds ==
    ASSUME OneReader
    PROVE  Spec => []LossExplained
BY MailInvariant, MailExplained, PTL

-----------------------------------------------------------------------------
(* A loop of L steps from x: step[i][s] is what its i-th step makes of s.  *)
LoopOf(f, x, L, step) ==
    f = [i \in 0..L |-> IF i = 0 THEN x ELSE step[i][f[i - 1]]]

(* Such a loop can be run.                                                 *)
LEMMA LoopExists ==
    ASSUME NEW S, NEW x \in S, NEW L \in Nat, NEW step \in [1..L -> [S -> S]]
    PROVE  \E f \in [0..L -> S] : LoopOf(f, x, L, step)
<1> DEFINE Good(n) == \E f \in [0..n -> S] :
                        f[0] = x /\ \A i \in 1..n : f[i] = step[i][f[i - 1]]
           Bad == {n \in 0..L : ~ Good(n)}
<1>1. Good(0)
  <2>1. 0..0 = {0} /\ 1..0 = {}
    OBVIOUS
  <2>2. [i \in 0..0 |-> x] \in [0..0 -> S]
    OBVIOUS
  <2> QED
    BY <2>1, <2>2
<1>2. ASSUME NEW n \in Nat, n < L, Good(n) PROVE Good(n + 1)
  <2>1. PICK f \in [0..n -> S] : f[0] = x /\ \A i \in 1..n : f[i] = step[i][f[i - 1]]
    BY <1>2
  <2>2. f[n] \in S /\ n + 1 \in 1..L
    BY <1>2
  <2>3. step[n + 1][f[n]] \in S
    <3>1. step[n + 1] \in [S -> S]
      BY <2>2
    <3> QED
      BY <2>2, <3>1
  <2> DEFINE g == [i \in 0..(n + 1) |-> IF i = n + 1 THEN step[n + 1][f[n]] ELSE f[i]]
  <2>4. g \in [0..(n + 1) -> S]
    BY <2>3
  <2>5. g[0] = x
    BY <2>1
  <2>6. ASSUME NEW i \in 1..(n + 1) PROVE g[i] = step[i][g[i - 1]]
    <3>1. CASE i = n + 1
      <4>1. g[i] = step[n + 1][f[n]]
        BY <3>1
      <4>2. g[i - 1] = f[n]
        BY <3>1
      <4> QED
        BY <3>1, <4>1, <4>2
    <3>2. CASE i \in 1..n
      <4>1. g[i] = f[i] /\ g[i - 1] = f[i - 1]
        BY <3>2
      <4> QED
        BY <2>1, <3>2, <4>1
    <3> QED
      BY <3>1, <3>2
  <2> QED
    BY <2>4, <2>5, <2>6
<1> HIDE DEF Good
<1>3. Bad = {}
  <2> SUFFICES ASSUME Bad # {} PROVE FALSE
    OBVIOUS
  <2>1. Bad \subseteq Nat
    OBVIOUS
  <2>2. PICK n \in Bad : \A m \in Bad : n <= m
    <3> HIDE DEF Bad
    <3> QED
      BY <2>1, SmallestNumber
  <2>3. n \in 1..L
    BY <1>1, <2>2
  <2>4. n - 1 \in 0..L /\ n - 1 \notin Bad
    BY <2>2, <2>3
  <2>5. n - 1 \in Nat /\ n - 1 < L /\ (n - 1) + 1 = n
    BY <2>3
  <2>6. Good((n - 1) + 1)
    BY <1>2, <2>4, <2>5
  <2> QED
    BY <2>2, <2>5, <2>6
<1>4. Good(L)
  BY <1>3
<1>5. PICK f \in [0..L -> S] : f[0] = x /\ \A i \in 1..L : f[i] = step[i][f[i - 1]]
  BY <1>4 DEF Good
<1>6. \A i \in 0..L : f[i] = IF i = 0 THEN x ELSE step[i][f[i - 1]]
  BY <1>5
<1>7. LoopOf(f, x, L, step)
  BY <1>6 DEF LoopOf
<1> QED
  BY <1>7

(* What holds at a, and at each number if at the one before, holds up to b. *)
LEMMA Climb ==
    ASSUME NEW a \in Nat, NEW b \in Nat, NEW H, a \in H,
           \A i \in (a + 1)..b : i - 1 \in H => i \in H
    PROVE  \A i \in a..b : i \in H
<1> DEFINE Bad == {i \in a..b : i \notin H}
<1> SUFFICES ASSUME Bad # {} PROVE FALSE
  OBVIOUS
<1>1. PICK n \in Bad : \A m \in Bad : n <= m
  <2>1. Bad \subseteq Nat
    OBVIOUS
  <2> HIDE DEF Bad
  <2> QED
    BY <2>1, SmallestNumber
<1>2. n \in (a + 1)..b
  OBVIOUS
<1>3. n - 1 \in a..b /\ n - 1 \notin Bad
  BY <1>1, <1>2
<1> QED
  BY <1>1, <1>2, <1>3

(* What holds before a loop and is kept by its steps holds all along.      *)
LEMMA LoopKeeps ==
    ASSUME NEW a \in Nat, NEW b \in Nat, NEW f, NEW G, f[a] \in G,
           \A i \in (a + 1)..b : f[i - 1] \in G => f[i] \in G
    PROVE  \A i \in a..b : f[i] \in G
<1> DEFINE H == {i \in a..b : f[i] \in G}
<1>1. CASE a <= b
  <2>1. a \in H /\ \A i \in (a + 1)..b : i - 1 \in H => i \in H
    BY <1>1
  <2>2. \A i \in a..b : i \in H
    <3> HIDE DEF H
    <3> QED
      BY <2>1, Climb
  <2> QED
    BY <2>2
<1>2. CASE ~ (a <= b)
  BY <1>2
<1> QED
  BY <1>1, <1>2

-----------------------------------------------------------------------------
(* A sequence of n numbers. *)
LEMMA NumbersAreSeq ==
    ASSUME NEW n \in Nat, NEW s \in [1..n -> Int]
    PROVE  s \in Seq(Int) /\ Len(s) = n
OBVIOUS

(* e is s with the numbers at j and j + 1 in order.                        *)
Swapped(e, s, n, j) ==
    /\ e \in [1..n -> Int]
    /\ e[j] <= e[j + 1]
    /\ \A k \in (1..n) \ {j, j + 1} : e[k] = s[k]
    /\ \/ e[j] = s[j] /\ e[j + 1] = s[j + 1]
       \/ e[j] = s[j + 1] /\ e[j + 1] = s[j]

LEMMA Exchanged ==
    ASSUME NEW n \in Nat, NEW s \in [1..n -> Int], NEW j \in 1..(n - 1),
           NEW e, e = Exchange(j)[s]
    PROVE  Swapped(e, s, n, j)
<1> DEFINE x == [s EXCEPT ![j] = s[j + 1], ![j + 1] = s[j]]
<1>1. e = IF s[j] > s[j + 1] THEN x ELSE s
  <2>1. s \in Seq(Int)
    BY NumbersAreSeq
  <2> QED
    BY <2>1, Zenon DEF Exchange
<1>2. /\ j \in 1..n /\ j + 1 \in 1..n /\ j # j + 1 /\ s[j] \in Int /\ s[j + 1] \in Int
  <2>1. j \in 1..n /\ j + 1 \in 1..n /\ j # j + 1
    OBVIOUS
  <2>2. s[j] \in Int /\ s[j + 1] \in Int
    BY <2>1
  <2> QED
    BY <2>1, <2>2
<1>3. /\ x \in [1..n -> Int] /\ x[j] = s[j + 1] /\ x[j + 1] = s[j]
      /\ \A k \in (1..n) \ {j, j + 1} : x[k] = s[k]
  BY <1>2
<1> HIDE DEF x
<1>4. CASE s[j] > s[j + 1]
  BY <1>1, <1>2, <1>3, <1>4 DEF Swapped
<1>5. CASE ~ (s[j] > s[j + 1])
  BY <1>1, <1>2, <1>5 DEF Swapped
<1> QED
  BY <1>4, <1>5

(* An exchange loses and adds no number.                                   *)
LEMMA ExchangeCounts ==
    ASSUME NEW n \in Nat, NEW s \in [1..n -> Int], NEW j \in 1..(n - 1), NEW v
    PROVE  Count(Exchange(j)[s], v) = Count(s, v)
<1> DEFINE e == Exchange(j)[s]
           A == {k \in 1..n : e[k] = v}
           B == {k \in 1..n : s[k] = v}
<1>1. /\ e \in [1..n -> Int]
      /\ \A k \in (1..n) \ {j, j + 1} : e[k] = s[k]
      /\ \/ e[j] = s[j] /\ e[j + 1] = s[j + 1]
         \/ e[j] = s[j + 1] /\ e[j + 1] = s[j]
  <2>1. Swapped(e, s, n, j)
    BY Exchanged, Zenon
  <2> QED
    BY <2>1 DEF Swapped
<1>2. Len(e) = n /\ Len(s) = n
  BY <1>1, NumbersAreSeq
<1>3. Count(e, v) = Cardinality(A) /\ Count(s, v) = Cardinality(B)
  BY <1>2 DEF Count
<1> HIDE DEF e
<1>4. j \in 1..n /\ j + 1 \in 1..n /\ j # j + 1
  OBVIOUS
<1>5. CASE e[j] = s[j] /\ e[j + 1] = s[j + 1]
  <2>1. A = B
    BY <1>1, <1>5
  <2> QED
    BY <1>3, <2>1 DEF e
<1>6. CASE e[j] = s[j + 1] /\ e[j + 1] = s[j]
  <2> DEFINE h == [k \in A |-> IF k = j THEN j + 1 ELSE IF k = j + 1 THEN j ELSE k]
  <2>1. \A k \in A : h[k] \in B
    BY <1>1, <1>4, <1>6
  <2>2. \A k, l \in A : h[k] = h[l] => k = l
    BY <1>4
  <2>3. \A l \in B : \E k \in A : h[k] = l
    <3> TAKE l \in B
    <3> DEFINE k == IF l = j THEN j + 1 ELSE IF l = j + 1 THEN j ELSE l
    <3>1. k \in A
      BY <1>1, <1>4, <1>6
    <3>2. h[k] = l
      BY <1>4, <3>1
    <3> QED
      BY <3>1, <3>2
  <2>4. h \in [A -> B]
    BY <2>1
  <2>5. IsFiniteSet(A)
    <3>1. 1 \in Int /\ n \in Int
      OBVIOUS
    <3>2. IsFiniteSet(1..n) /\ A \in SUBSET (1..n)
      BY <3>1, FS_Interval
    <3> QED
      BY <3>2, FS_Subset
  <2> HIDE DEF h, A, B
  <2>6. h \in Bijection(A, B)
    BY <2>2, <2>3, <2>4 DEF Bijection, Injection, Surjection, IsInjective
  <2>7. Cardinality(A) = Cardinality(B)
    <3>1. ExistsBijection(A, B)
      BY <2>6 DEF ExistsBijection
    <3> QED
      BY <2>5, <3>1, FS_Bijection
  <2> QED
    BY <1>3, <2>7 DEF e
<1> QED
  BY <1>1, <1>5, <1>6

(* The function that Bubble is defined with.                               *)
UpTo(f, s, m) ==
    f = [j \in 0..m |-> IF j = 0 THEN s ELSE Exchange(j)[f[j - 1]]]

(* f[j] is s after j exchanges.                                            *)
Exchanging(f, s, n, m) ==
    /\ f \in [0..m -> [1..n -> Int]]
    /\ f[0] = s
    /\ \A j \in 1..m : f[j] = Exchange(j)[f[j - 1]]
    /\ Bubble(s, m) = f[m]

LEMMA BubbleIs ==
    ASSUME NEW n \in Nat, NEW s \in [1..n -> Int], NEW m \in Nat, m < n
    PROVE  \E f : Exchanging(f, s, n, m)
<1> DEFINE T == [1..n -> Int]
           step == [j \in 1..m |-> [t \in T |-> Exchange(j)[t]]]
<1>1. \A j \in 1..m : j \in 1..(n - 1)
  OBVIOUS
<1>2. \A j \in 1..m, t \in T : Exchange(j)[t] \in T
  <2> TAKE j \in 1..m, t \in T
  <2>1. Swapped(Exchange(j)[t], t, n, j)
    BY <1>1, Exchanged, Zenon
  <2> QED
    BY <2>1 DEF Swapped
<1> HIDE DEF T
<1>3. step \in [1..m -> [T -> T]] /\ \A j \in 1..m, t \in T : step[j][t] = Exchange(j)[t]
  BY <1>2
<1>4. s \in T
  BY DEF T
<1> HIDE DEF step
<1>5. PICK g \in [0..m -> T] : LoopOf(g, s, m, step)
  BY <1>3, <1>4, LoopExists
<1>6. UpTo(g, s, m)
  <2>1. \A j \in 0..m : g[j] = IF j = 0 THEN s ELSE step[j][g[j - 1]]
    BY <1>5 DEF LoopOf
  <2>2. \A j \in 0..m : g[j] = IF j = 0 THEN s ELSE Exchange(j)[g[j - 1]]
    <3> TAKE j \in 0..m
    <3>1. CASE j = 0
      BY <2>1, <3>1
    <3>2. CASE j # 0
      <4>1. j \in 1..m /\ g[j - 1] \in T
        BY <3>2
      <4> QED
        BY <1>3, <2>1, <3>2, <4>1
    <3> QED
      BY <3>1, <3>2
  <2>3. g = [j \in 0..m |-> g[j]]
    OBVIOUS
  <2> QED
    BY <2>2, <2>3 DEF UpTo
<1> DEFINE f == CHOOSE h : UpTo(h, s, m)
<1>7. UpTo(f, s, m)
  BY <1>6, Zenon
<1>8. Bubble(s, m) = f[m]
  BY Zenon DEF Bubble, UpTo
<1> HIDE DEF f
<1>9. f[0] = s /\ \A j \in 1..m : f[j] = Exchange(j)[f[j - 1]]
  <2>1. \A j \in 0..m : f[j] = IF j = 0 THEN s ELSE Exchange(j)[f[j - 1]]
    BY <1>7, Zenon DEF UpTo
  <2>2. 0 \in 0..m /\ \A j \in 1..m : j \in 0..m /\ j # 0
    OBVIOUS
  <2> QED
    BY <2>1, <2>2
<1>10. \A j \in 0..m : f[j] \in T
  <2>1. \A j \in 1..m : f[j - 1] \in T => f[j] \in T
    BY <1>2, <1>9
  <2>2. 0 \in Nat /\ 0 + 1 = 1
    OBVIOUS
  <2> QED
    BY <1>4, <1>9, <2>1, <2>2, LoopKeeps
<1>11. f \in [0..m -> T]
  BY <1>7, <1>10 DEF UpTo
<1> QED
  BY <1>8, <1>9, <1>11 DEF T, Exchanging

(* The same numbers as those of s.                                         *)
SameAs(s, n) == {t \in [1..n -> Int] : \A v \in Int : Count(t, v) = Count(s, v)}

(* The last i of n numbers are in their places.                            *)
Settled(t, n, i) == \A k \in 1..n : \A l \in 1..k : k > n - i => t[l] <= t[k]

(* Index j of the loop has moved the largest number so far to j + 1.       *)
LEMMA ExchangeSettles ==
    ASSUME NEW n \in Nat, NEW i \in 1..n, NEW j \in 1..(n - i),
           NEW t \in [1..n -> Int], NEW e, e = Exchange(j)[t],
           Settled(t, n, i - 1), \A l \in 1..j : t[l] <= t[j]
    PROVE  Settled(e, n, i - 1) /\ \A l \in 1..(j + 1) : e[l] <= e[j + 1]
<1>1. j \in 1..(n - 1) /\ j \in 1..n /\ j + 1 \in 1..n /\ j + 1 <= n - (i - 1)
  OBVIOUS
<1>2. /\ e \in [1..n -> Int]
      /\ e[j] <= e[j + 1]
      /\ \A k \in (1..n) \ {j, j + 1} : e[k] = t[k]
      /\ \/ e[j] = t[j] /\ e[j + 1] = t[j + 1]
         \/ e[j] = t[j + 1] /\ e[j + 1] = t[j]
  <2>1. Swapped(e, t, n, j)
    BY <1>1, Exchanged, Zenon
  <2> QED
    BY <2>1 DEF Swapped
<1>3. \A k \in 1..n : e[k] \in Int /\ t[k] \in Int
  BY <1>2
<1>4. \A l \in 1..(j + 1) : e[l] <= e[j + 1]
  <2> TAKE l \in 1..(j + 1)
  <2>1. CASE l \in {j, j + 1}
    BY <1>1, <1>2, <1>3, <2>1
  <2>2. CASE l \notin {j, j + 1}
    <3>1. l \in 1..j /\ l \in (1..n) \ {j, j + 1}
      BY <2>2
    <3>2. e[l] = t[l] /\ t[l] <= t[j]
      BY <1>2, <3>1
    <3>3. t[j] <= e[j + 1]
      BY <1>1, <1>2, <1>3
    <3> QED
      BY <1>1, <1>3, <3>1, <3>2, <3>3
  <2> QED
    BY <2>1, <2>2
<1>5. Settled(e, n, i - 1)
  <2> SUFFICES ASSUME NEW k \in 1..n, NEW l \in 1..k, k > n - (i - 1) PROVE e[l] <= e[k]
    BY DEF Settled
  <2>1. k \notin {j, j + 1} /\ k \in 1..n /\ l \in 1..n /\ j \in 1..k /\ j + 1 \in 1..k
    BY <1>1
  <2>2. e[k] = t[k]
    BY <1>2, <2>1
  <2>3. \A m \in 1..k : t[m] <= t[k]
    BY DEF Settled
  <2>4. CASE l \in {j, j + 1}
    BY <1>2, <2>1, <2>2, <2>3, <2>4
  <2>5. CASE l \notin {j, j + 1}
    <3>1. e[l] = t[l]
      BY <1>2, <2>1, <2>5
    <3> QED
      BY <2>2, <2>3, <3>1
  <2> QED
    BY <2>4, <2>5
<1> QED
  BY <1>4, <1>5

(* A pass settles one more.                                                *)
LEMMA BubbleSettles ==
    ASSUME NEW n \in Nat, NEW i \in 1..n, NEW s \in [1..n -> Int],
           Settled(s, n, i - 1)
    PROVE  Bubble(s, n - i) \in SameAs(s, n) /\ Settled(Bubble(s, n - i), n, i)
<1> DEFINE m == n - i
<1>1. m \in Nat /\ m < n
  OBVIOUS
<1>2. PICK f \in [0..m -> [1..n -> Int]] :
        /\ f[0] = s
        /\ \A j \in 1..m : f[j] = Exchange(j)[f[j - 1]]
        /\ Bubble(s, m) = f[m]
  <2> HIDE DEF m
  <2>1. PICK f : Exchanging(f, s, n, m)
    BY <1>1, BubbleIs, Zenon
  <2> QED
    BY <2>1 DEF Exchanging
<1> DEFINE H == {j \in 0..m : /\ \A v \in Int : Count(f[j], v) = Count(s, v)
                              /\ Settled(f[j], n, i - 1)
                              /\ \A l \in 1..(j + 1) : f[j][l] <= f[j][j + 1]}
<1>3. 0 \in H
  <2>1. 1 \in 1..n /\ s[1] \in Int
    OBVIOUS
  <2>2. \A l \in 1..(0 + 1) : f[0][l] <= f[0][0 + 1]
    BY <1>2, <2>1
  <2> QED
    BY <1>1, <1>2, <2>2
<1>4. ASSUME NEW j \in 1..m, j - 1 \in H PROVE j \in H
  <2> DEFINE t == f[j - 1]
             e == f[j]
  <2>1. t \in [1..n -> Int] /\ e = Exchange(j)[t] /\ j \in 1..(n - i) /\ j \in 1..(n - 1)
    <3>1. j - 1 \in 0..m /\ j \in 1..(n - 1)
      BY <1>1
    <3> QED
      BY <1>2, <3>1
  <2>2. /\ \A v \in Int : Count(t, v) = Count(s, v)
        /\ Settled(t, n, i - 1)
        /\ \A l \in 1..((j - 1) + 1) : t[l] <= t[(j - 1) + 1]
    BY <1>4
  <2>3. (j - 1) + 1 = j
    OBVIOUS
  <2>4. \A l \in 1..j : t[l] <= t[j]
    BY <2>2, <2>3
  <2> HIDE DEF t, e
  <2>5. Settled(e, n, i - 1) /\ \A l \in 1..(j + 1) : e[l] <= e[j + 1]
    BY <2>1, <2>2, <2>4, ExchangeSettles, Zenon
  <2>6. \A v \in Int : Count(e, v) = Count(s, v)
    <3>1. \A v \in Int : Count(e, v) = Count(t, v)
      <4>1. \A v \in Int : Count(Exchange(j)[t], v) = Count(t, v)
        BY <2>1, ExchangeCounts, Zenon
      <4> QED
        BY <2>1, <4>1, Zenon
    <3> QED
      BY <2>2, <3>1, Zenon
  <2> QED
    BY <2>5, <2>6 DEF e
<1>5. m \in H
  <2>1. 0 \in Nat /\ 0 + 1 = 1 /\ m \in 0..m
    BY <1>1
  <2> HIDE DEF H, m
  <2> QED
    BY <1>1, <1>3, <1>4, <2>1, Climb
<1> DEFINE b == Bubble(s, m)
<1>6. b = f[m] /\ b \in [1..n -> Int]
  BY <1>1, <1>2
<1>7. /\ \A v \in Int : Count(b, v) = Count(s, v)
      /\ Settled(b, n, i - 1)
      /\ \A l \in 1..(m + 1) : b[l] <= b[m + 1]
  BY <1>5, <1>6
<1> HIDE DEF b
<1>8. Settled(b, n, i)
  <2> SUFFICES ASSUME NEW k \in 1..n, NEW l \in 1..k, k > n - i PROVE b[l] <= b[k]
    BY DEF Settled
  <2>1. CASE k = m + 1
    BY <1>7, <2>1
  <2>2. CASE k # m + 1
    BY <1>7, <2>2 DEF Settled
  <2> QED
    BY <2>1, <2>2
<1> QED
  BY <1>6, <1>7, <1>8 DEF b, SameAs

(* The function that BubbleSort is defined with.                           *)
AfterPasses(f, s) ==
    f = [i \in 0..Len(s) |-> IF i = 0 THEN s ELSE Bubble(f[i - 1], Len(s) - i)]

(* f[i] is s after i passes.                                               *)
Bubbling(f, s, n) ==
    /\ f \in [0..n -> [1..n -> Int]]
    /\ f[0] = s
    /\ \A i \in 1..n : f[i] = Bubble(f[i - 1], n - i)
    /\ BubbleSort(s) = f[n]

LEMMA BubbleTyped ==
    ASSUME NEW n \in Nat, NEW s \in [1..n -> Int], NEW i \in 1..n
    PROVE  Bubble(s, n - i) \in [1..n -> Int]
<1>1. n - i \in Nat /\ n - i < n
  OBVIOUS
<1>2. PICK f : Exchanging(f, s, n, n - i)
  BY <1>1, BubbleIs, Zenon
<1> QED
  BY <1>1, <1>2 DEF Exchanging

LEMMA BubbleSortRuns ==
    ASSUME NEW n \in Nat, NEW s \in [1..n -> Int]
    PROVE  \E f : Bubbling(f, s, n)
<1> DEFINE T == [1..n -> Int]
           step == [i \in 1..n |-> [t \in T |-> Bubble(t, n - i)]]
<1>1. \A i \in 1..n, t \in T : Bubble(t, n - i) \in T
  BY BubbleTyped, Zenon
<1>2. s \in T /\ Len(s) = n
  BY NumbersAreSeq, Zenon
<1> HIDE DEF T
<1>3. step \in [1..n -> [T -> T]] /\ \A i \in 1..n, t \in T : step[i][t] = Bubble(t, n - i)
  BY <1>1
<1> HIDE DEF step
<1>4. PICK g \in [0..n -> T] : LoopOf(g, s, n, step)
  BY <1>2, <1>3, LoopExists
<1>5. AfterPasses(g, s)
  <2>1. \A i \in 0..n : g[i] = IF i = 0 THEN s ELSE step[i][g[i - 1]]
    BY <1>4 DEF LoopOf
  <2>2. \A i \in 0..n : g[i] = IF i = 0 THEN s ELSE Bubble(g[i - 1], n - i)
    <3> TAKE i \in 0..n
    <3>1. CASE i = 0
      BY <2>1, <3>1
    <3>2. CASE i # 0
      <4>1. i \in 1..n /\ g[i - 1] \in T
        BY <3>2
      <4> QED
        BY <1>3, <2>1, <3>2, <4>1
    <3> QED
      BY <3>1, <3>2
  <2>3. g = [i \in 0..n |-> g[i]]
    OBVIOUS
  <2> QED
    BY <1>2, <2>2, <2>3, Zenon DEF AfterPasses
<1> DEFINE f == CHOOSE h : AfterPasses(h, s)
<1>6. AfterPasses(f, s)
  BY <1>5, Zenon
<1>7. BubbleSort(s) = f[n]
  BY <1>2, Zenon DEF BubbleSort, AfterPasses
<1> HIDE DEF f
<1>8. f[0] = s /\ \A i \in 1..n : f[i] = Bubble(f[i - 1], n - i)
  <2>1. \A i \in 0..n : f[i] = IF i = 0 THEN s ELSE Bubble(f[i - 1], n - i)
    BY <1>2, <1>6, Zenon DEF AfterPasses
  <2>2. 0 \in 0..n /\ \A i \in 1..n : i \in 0..n /\ i # 0
    OBVIOUS
  <2> QED
    BY <2>1, <2>2
<1>9. \A i \in 0..n : f[i] \in T
  <2>1. \A i \in 1..n : f[i - 1] \in T => f[i] \in T
    BY <1>1, <1>8
  <2>2. 0 \in Nat /\ 0 + 1 = 1
    OBVIOUS
  <2> QED
    BY <1>2, <1>8, <2>1, <2>2, LoopKeeps
<1>10. f \in [0..n -> T]
  BY <1>2, <1>6, <1>9 DEF AfterPasses
<1> QED
  BY <1>7, <1>8, <1>10 DEF T, Bubbling

(* BubbleSort sorts: it loses and adds no number, and the order is right.  *)
LEMMA BubbleSorts ==
    ASSUME NEW s \in Seq(Int)
    PROVE  /\ BubbleSort(s) \in Seq(Int) /\ Len(BubbleSort(s)) = Len(s)
           /\ Ascending(BubbleSort(s))
           /\ \A v \in Int : Count(BubbleSort(s), v) = Count(s, v)
<1> DEFINE n == Len(s)
<1>1. n \in Nat /\ s \in [1..n -> Int]
  OBVIOUS
<1> HIDE DEF n
<1>2. PICK f : Bubbling(f, s, n)
  BY <1>1, BubbleSortRuns, Zenon
<1>3. /\ f \in [0..n -> [1..n -> Int]]
      /\ f[0] = s
      /\ \A i \in 1..n : f[i] = Bubble(f[i - 1], n - i)
      /\ BubbleSort(s) = f[n]
  BY <1>2 DEF Bubbling
<1> DEFINE H == {i \in 0..n : Settled(f[i], n, i) /\ \A v \in Int : Count(f[i], v) = Count(s, v)}
<1>4. 0 \in H
  <2>1. Settled(f[0], n, 0)
    BY <1>1 DEF Settled
  <2>2. 0 \in 0..n
    BY <1>1
  <2> QED
    BY <1>3, <2>1, <2>2
<1>5. ASSUME NEW i \in 1..n, i - 1 \in H PROVE i \in H
  <2> DEFINE t == f[i - 1]
             b == Bubble(t, n - i)
  <2>1. i - 1 \in 0..n /\ i \in 0..n /\ f[i] = b
    BY <1>1, <1>3
  <2>2. t \in [1..n -> Int] /\ Settled(t, n, i - 1) /\ \A v \in Int : Count(t, v) = Count(s, v)
    BY <1>3, <1>5, <2>1
  <2> HIDE DEF t
  <2>3. b \in SameAs(t, n) /\ Settled(b, n, i)
    BY <1>1, <2>2, BubbleSettles, Zenon
  <2>4. \A v \in Int : Count(b, v) = Count(s, v)
    BY <2>2, <2>3, Zenon DEF SameAs
  <2> QED
    BY <2>1, <2>3, <2>4 DEF t
<1>6. n \in H
  <2>1. 0 \in Nat /\ 0 + 1 = 1 /\ n \in 0..n
    BY <1>1
  <2> HIDE DEF H
  <2> QED
    BY <1>1, <1>4, <1>5, <2>1, Climb
<1> DEFINE b == BubbleSort(s)
<1>7. /\ b \in [1..n -> Int]
      /\ \A v \in Int : Count(b, v) = Count(s, v)
      /\ Settled(b, n, n)
  <2>1. n \in 0..n
    BY <1>1
  <2> QED
    BY <1>3, <1>6, <2>1
<1> HIDE DEF b
<1>8. b \in Seq(Int) /\ Len(b) = n
  BY <1>1, <1>7, NumbersAreSeq, Zenon
<1>9. Ascending(b)
  <2> SUFFICES ASSUME NEW k \in 1..(n - 1) PROVE b[k] <= b[k + 1]
    BY <1>8 DEF Ascending
  <2>1. k + 1 \in 1..n /\ k \in 1..(k + 1) /\ k + 1 > n - n
    BY <1>1
  <2> QED
    BY <1>7, <2>1 DEF Settled
<1> QED
  BY <1>7, <1>8, <1>9 DEF b, n

-----------------------------------------------------------------------------
(* How often v is among the first k numbers. *)
CountTo(s, v, k) == Cardinality({i \in 1..k : s[i] = v})

LEMMA CountToStep ==
    ASSUME NEW s, NEW v, NEW k \in Nat
    PROVE  /\ CountTo(s, v, 0) = 0
           /\ CountTo(s, v, k) \in Nat
           /\ CountTo(s, v, k + 1) = CountTo(s, v, k) + (IF s[k + 1] = v THEN 1 ELSE 0)
<1> DEFINE A == {i \in 1..k : s[i] = v}
           B == {i \in 1..(k + 1) : s[i] = v}
<1>1. IsFiniteSet(A)
  <2>1. 1 \in Int /\ k \in Int
    OBVIOUS
  <2>2. IsFiniteSet(1..k) /\ A \in SUBSET (1..k)
    BY <2>1, FS_Interval
  <2> QED
    BY <2>2, FS_Subset
<1>2. CountTo(s, v, 0) = 0
  <2>1. {i \in 1..0 : s[i] = v} = {}
    OBVIOUS
  <2> QED
    BY <2>1, FS_EmptySet DEF CountTo
<1>3. CountTo(s, v, k) = Cardinality(A) /\ CountTo(s, v, k + 1) = Cardinality(B)
  BY DEF CountTo
<1>4. Cardinality(A) \in Nat
  BY <1>1, FS_CardinalityType
<1>5. CASE s[k + 1] = v
  <2>1. B = A \cup {k + 1} /\ k + 1 \notin A
    BY <1>5
  <2> HIDE DEF A, B
  <2>2. Cardinality(A \cup {k + 1}) = Cardinality(A) + 1
    BY <1>1, <2>1, FS_AddElement
  <2> QED
    BY <1>2, <1>3, <1>4, <1>5, <2>1, <2>2
<1>6. CASE s[k + 1] # v
  <2>1. B = A
    BY <1>6
  <2> HIDE DEF A, B
  <2> QED
    BY <1>2, <1>3, <1>4, <1>6, <2>1
<1> QED
  BY <1>5, <1>6

CountsNext(s, v, k) ==
    CountTo(s, v, k + 1) = CountTo(s, v, k) + (IF s[k + 1] = v THEN 1 ELSE 0)

LEMMA CountToNext ==
    ASSUME NEW s, NEW v, NEW k \in Nat
    PROVE  CountsNext(s, v, k)
BY CountToStep DEF CountsNext

LEMMA CountIs == \A s, v : Count(s, v) = CountTo(s, v, Len(s))
BY Zenon DEF Count, CountTo

-----------------------------------------------------------------------------
(* The parts of Merge: whether the next number is the first sequence's, of *)
(* which i are taken, j of the second; the k-th step; and its function.    *)
FromFirst(a, b, i, j) == i < Len(a) /\ (j = Len(b) \/ a[i + 1] < b[j + 1])

Take(a, b, k) == [i \in Nat |-> IF FromFirst(a, b, i, k - 1 - i) THEN i + 1 ELSE i]

Taking(f, a, b) ==
    f = [k \in 0..(Len(a) + Len(b)) |-> IF k = 0 THEN 0 ELSE Take(a, b, k)[f[k - 1]]]

MergedBy(f, a, b) ==
    [k \in 1..(Len(a) + Len(b)) |-> IF f[k] > f[k - 1] THEN a[f[k]] ELSE b[k - f[k]]]

(* Of the first k numbers f[k] are from a.                                 *)
Merging(f, a, b) ==
    /\ f \in [0..(Len(a) + Len(b)) -> Nat]
    /\ f[0] = 0
    /\ \A k \in 1..(Len(a) + Len(b)) :
         f[k] = IF FromFirst(a, b, f[k - 1], k - 1 - f[k - 1]) THEN f[k - 1] + 1 ELSE f[k - 1]
    /\ Merge(a, b) = MergedBy(f, a, b)

LEMMA MergeRuns ==
    ASSUME NEW a \in Seq(Int), NEW b \in Seq(Int)
    PROVE  \E f : Merging(f, a, b)
<1> DEFINE L == Len(a) + Len(b)
           step == [k \in 1..L |-> Take(a, b, k)]
<1>1. L \in Nat
  OBVIOUS
<1>2. \A k \in 1..L, i \in Nat :
        Take(a, b, k)[i] = IF FromFirst(a, b, i, k - 1 - i) THEN i + 1 ELSE i
  BY Zenon DEF Take
<1>3. \A k \in 1..L : Take(a, b, k) \in [Nat -> Nat]
  BY DEF Take
<1>4. step \in [1..L -> [Nat -> Nat]] /\ \A k \in 1..L : step[k] = Take(a, b, k)
  BY <1>3
<1> HIDE DEF L, step
<1>5. PICK g \in [0..L -> Nat] : LoopOf(g, 0, L, step)
  <2>1. 0 \in Nat
    OBVIOUS
  <2> QED
    BY <1>1, <1>4, <2>1, LoopExists
<1>6. Taking(g, a, b)
  <2>1. \A k \in 0..L : g[k] = IF k = 0 THEN 0 ELSE step[k][g[k - 1]]
    BY <1>5 DEF LoopOf
  <2>2. \A k \in 0..L : g[k] = IF k = 0 THEN 0 ELSE Take(a, b, k)[g[k - 1]]
    <3> TAKE k \in 0..L
    <3>1. CASE k = 0
      BY <2>1, <3>1
    <3>2. CASE k # 0
      <4>1. k \in 1..L
        BY <1>1, <3>2
      <4> QED
        BY <1>4, <2>1, <3>2, <4>1
    <3> QED
      BY <3>1, <3>2
  <2>3. g = [k \in 0..L |-> g[k]]
    OBVIOUS
  <2> QED
    BY <2>2, <2>3, Zenon DEF Taking, L
<1> DEFINE f == CHOOSE h : Taking(h, a, b)
<1>7. Taking(f, a, b)
  BY <1>6, Zenon
<1>8. Merge(a, b) = MergedBy(f, a, b)
  BY Zenon DEF Merge, MergedBy, Taking, Take, FromFirst
<1> HIDE DEF f
<1>9. f[0] = 0 /\ \A k \in 1..L : f[k] = Take(a, b, k)[f[k - 1]]
  <2>1. \A k \in 0..L : f[k] = IF k = 0 THEN 0 ELSE Take(a, b, k)[f[k - 1]]
    BY <1>7, Zenon DEF Taking, L
  <2>2. 0 \in 0..L /\ \A k \in 1..L : k \in 0..L /\ k # 0
    BY <1>1
  <2> QED
    BY <2>1, <2>2
<1>10. \A k \in 0..L : f[k] \in Nat
  <2>1. \A k \in 1..L : f[k - 1] \in Nat => f[k] \in Nat
    BY <1>3, <1>9
  <2>2. 0 \in Nat /\ 0 + 1 = 1
    OBVIOUS
  <2> QED
    BY <1>1, <1>9, <2>1, <2>2, LoopKeeps
<1>11. f \in [0..L -> Nat]
  <2>1. f = [k \in 0..L |-> f[k]]
    BY <1>7, Zenon DEF Taking, L
  <2> QED
    BY <1>10, <2>1
<1>12. \A k \in 1..L :
         f[k] = IF FromFirst(a, b, f[k - 1], k - 1 - f[k - 1]) THEN f[k - 1] + 1 ELSE f[k - 1]
  <2> TAKE k \in 1..L
  <2>1. f[k - 1] \in Nat
    BY <1>1, <1>10
  <2> QED
    BY <1>2, <1>9, <2>1
<1> QED
  BY <1>8, <1>9, <1>11, <1>12 DEF L, Merging

(* The k-th number of the merged sequence is the next of the one or of the *)
(* other.                                                                  *)
Next1(f, a, b, k) ==
    /\ f[k - 1] \in 0..(Len(a) - 1) /\ f[k] = f[k - 1] + 1
    /\ k - 1 - f[k - 1] \in 0..Len(b)
    /\ Merge(a, b)[k] = a[f[k - 1] + 1]
    /\ k - 1 - f[k - 1] < Len(b) => a[f[k - 1] + 1] < b[k - 1 - f[k - 1] + 1]

Next2(f, a, b, k) ==
    /\ k - 1 - f[k - 1] \in 0..(Len(b) - 1) /\ f[k] = f[k - 1]
    /\ f[k - 1] \in 0..Len(a)
    /\ Merge(a, b)[k] = b[k - 1 - f[k - 1] + 1]
    /\ f[k - 1] < Len(a) => ~ (a[f[k - 1] + 1] < b[k - 1 - f[k - 1] + 1])

LEMMA MergeSteps ==
    ASSUME NEW a \in Seq(Int), NEW b \in Seq(Int), NEW f, Merging(f, a, b)
    PROVE  /\ \A k \in 0..(Len(a) + Len(b)) : f[k] \in 0..Len(a) /\ k - f[k] \in 0..Len(b)
           /\ \A k \in 1..(Len(a) + Len(b)) : Next1(f, a, b, k) \/ Next2(f, a, b, k)
<1> DEFINE L == Len(a) + Len(b)
           H == {k \in 0..L : f[k] \in 0..Len(a) /\ k - f[k] \in 0..Len(b)}
<1>1. L \in Nat /\ Len(a) \in Nat /\ Len(b) \in Nat
  OBVIOUS
<1>2. /\ f \in [0..L -> Nat] /\ f[0] = 0
      /\ \A k \in 1..L :
           f[k] = IF FromFirst(a, b, f[k - 1], k - 1 - f[k - 1]) THEN f[k - 1] + 1 ELSE f[k - 1]
      /\ \A k \in 1..L :
           Merge(a, b)[k] = IF f[k] > f[k - 1] THEN a[f[k]] ELSE b[k - f[k]]
  BY DEF Merging, MergedBy
<1>3. ASSUME NEW k \in 1..L, k - 1 \in H PROVE Next1(f, a, b, k) \/ Next2(f, a, b, k)
  <2> DEFINE i == f[k - 1]
             j == k - 1 - f[k - 1]
  <2>1. i \in 0..Len(a) /\ j \in 0..Len(b) /\ i + j = k - 1
    BY <1>3
  <2>2. CASE FromFirst(a, b, i, j)
    <3>1. f[k] = i + 1
      BY <1>2, <2>2
    <3>2. i < Len(a) /\ (j < Len(b) => a[i + 1] < b[j + 1])
      BY <2>1, <2>2 DEF FromFirst
    <3>3. Merge(a, b)[k] = a[i + 1]
      BY <1>2, <2>1, <3>1
    <3> QED
      BY <1>1, <2>1, <3>1, <3>2, <3>3 DEF Next1
  <2>3. CASE ~ FromFirst(a, b, i, j)
    <3>1. f[k] = i
      BY <1>2, <2>3
    <3>2. i < Len(a) => j # Len(b) /\ ~ (a[i + 1] < b[j + 1])
      BY <2>3 DEF FromFirst
    <3>3. j < Len(b)
      BY <1>1, <2>1, <3>2
    <3>4. Merge(a, b)[k] = b[j + 1]
      <4>1. k - f[k] = j + 1 /\ ~ (f[k] > f[k - 1])
        BY <2>1, <3>1
      <4> QED
        BY <1>2, <4>1
    <3> QED
      BY <1>1, <2>1, <3>1, <3>2, <3>3, <3>4 DEF Next2
  <2> QED
    BY <2>2, <2>3
<1>4. ASSUME NEW k \in 1..L, k - 1 \in H PROVE k \in H
  <2> DEFINE i == f[k - 1]
             j == k - 1 - f[k - 1]
  <2>1. i \in 0..Len(a) /\ j \in 0..Len(b) /\ k = i + j + 1 /\ k \in 0..L
    <3>1. i \in 0..Len(a) /\ j \in 0..Len(b)
      BY <1>4
    <3>2. i \in Int
      BY <1>1, <3>1
    <3>3. k \in 0..L
      BY <1>1
    <3> QED
      BY <1>1, <3>1, <3>2, <3>3
  <2>2. CASE Next1(f, a, b, k)
    <3>1. i \in 0..(Len(a) - 1) /\ f[k] = i + 1
      BY <2>2 DEF Next1
    <3> HIDE DEF i, j, L
    <3>2. f[k] \in 0..Len(a) /\ k - f[k] = j
      BY <1>1, <2>1, <3>1
    <3>3. k - f[k] \in 0..Len(b)
      BY <2>1, <3>2
    <3> QED
      BY <2>1, <3>2, <3>3
  <2>3. CASE Next2(f, a, b, k)
    <3>1. j \in 0..(Len(b) - 1) /\ f[k] = i
      BY <2>3 DEF Next2
    <3> HIDE DEF i, j
    <3>2. k - f[k] = j + 1 /\ j + 1 \in 0..Len(b)
      BY <1>1, <2>1, <3>1
    <3> QED
      BY <2>1, <3>1, <3>2
  <2> QED
    BY <1>3, <1>4, <2>2, <2>3
<1>5. \A k \in 0..L : k \in H
  <2>1. 0 \in Nat /\ 0 + 1 = 1 /\ 0 \in H
    BY <1>1, <1>2
  <2> HIDE DEF H, L
  <2> QED
    BY <1>1, <1>4, <2>1, Climb
<1>6. ASSUME NEW k \in 1..L PROVE Next1(f, a, b, k) \/ Next2(f, a, b, k)
  <2>1. k - 1 \in 0..L
    BY <1>1
  <2> QED
    BY <1>3, <1>5, <2>1
<1> QED
  BY <1>5, <1>6

(* Merge merges: two ascending sequences give one with all their numbers.  *)
LEMMA MergeMerges ==
    ASSUME NEW a \in Seq(Int), NEW b \in Seq(Int)
    PROVE  /\ Merge(a, b) \in Seq(Int) /\ Len(Merge(a, b)) = Len(a) + Len(b)
           /\ \A v \in Int : Count(Merge(a, b), v) = Count(a, v) + Count(b, v)
           /\ Ascending(a) /\ Ascending(b) => Ascending(Merge(a, b))
<1> DEFINE L == Len(a) + Len(b)
           m == Merge(a, b)
<1>1. PICK f : Merging(f, a, b)
  BY MergeRuns
<1>2. /\ \A k \in 0..L : f[k] \in 0..Len(a) /\ k - f[k] \in 0..Len(b)
      /\ \A k \in 1..L : Next1(f, a, b, k) \/ Next2(f, a, b, k)
  BY <1>1, MergeSteps
<1>3. L \in Nat /\ Len(a) \in Nat /\ Len(b) \in Nat
  OBVIOUS
<1>4. \A k \in 1..L : m[k] \in Int
  <2> TAKE k \in 1..L
  <2>1. CASE Next1(f, a, b, k)
    <3>1. f[k - 1] + 1 \in 1..Len(a) /\ m[k] = a[f[k - 1] + 1]
      BY <1>3, <2>1 DEF Next1
    <3> HIDE DEF m
    <3> QED
      BY <3>1
  <2>2. CASE Next2(f, a, b, k)
    <3> DEFINE j == k - 1 - f[k - 1]
    <3>1. j \in 0..(Len(b) - 1) /\ m[k] = b[j + 1]
      BY <2>2 DEF Next2
    <3> HIDE DEF j
    <3>2. j + 1 \in 1..Len(b)
      BY <1>3, <3>1
    <3> HIDE DEF m
    <3> QED
      BY <3>1, <3>2
  <2> QED
    BY <1>2, <2>1, <2>2
<1>5. m \in [1..L -> Int]
  <2>1. m = [k \in 1..L |-> m[k]]
    BY <1>1, Zenon DEF Merging, MergedBy
  <2> HIDE DEF m
  <2> QED
    BY <1>4, <2>1
<1> HIDE DEF m, L
<1>6. m \in Seq(Int) /\ Len(m) = L
  BY <1>3, <1>5, NumbersAreSeq, Zenon
<1>7. ASSUME NEW v \in Int PROVE Count(m, v) = Count(a, v) + Count(b, v)
  <2> DEFINE H == {k \in 0..L : CountTo(m, v, k) = CountTo(a, v, f[k]) + CountTo(b, v, k - f[k])}
  <2>1. 0 \in H
    <3>1. f[0] = 0 /\ 0 \in 0..L
      BY <1>1, <1>3 DEF Merging
    <3>2. CountTo(m, v, 0) = 0 /\ CountTo(a, v, 0) = 0 /\ CountTo(b, v, 0) = 0
      BY CountToStep
    <3> QED
      BY <3>1, <3>2
  <2>2. ASSUME NEW k \in 1..L, k - 1 \in H PROVE k \in H
    <3> DEFINE i == f[k - 1]
               j == k - 1 - f[k - 1]
    <3>1. /\ k - 1 \in 0..L /\ k \in 0..L /\ k - 1 \in Nat /\ (k - 1) + 1 = k
          /\ i \in Nat /\ j \in Nat /\ i \in 0..Len(a) /\ j \in 0..Len(b)
      BY <1>2, <1>3
    <3>2. CountTo(m, v, k - 1) = CountTo(a, v, i) + CountTo(b, v, j)
      BY <2>2
    <3> HIDE DEF i, j, H
    <3>3. CountTo(m, v, k) = CountTo(m, v, k - 1) + (IF m[k] = v THEN 1 ELSE 0)
      <4> DEFINE l == k - 1
      <4>1. l \in Nat /\ l + 1 = k
        BY <3>1
      <4> HIDE DEF l
      <4>2. CountTo(m, v, l + 1) = CountTo(m, v, l) + (IF m[l + 1] = v THEN 1 ELSE 0)
        <5>1. CountsNext(m, v, l)
          BY <4>1, CountToNext, Zenon
        <5> QED
          BY <5>1 DEF CountsNext
      <4>3. l = k - 1
        BY DEF l
      <4> QED
        BY <4>1, <4>2, <4>3
    <3>4. /\ CountTo(a, v, i + 1) = CountTo(a, v, i) + (IF a[i + 1] = v THEN 1 ELSE 0)
          /\ CountTo(b, v, j + 1) = CountTo(b, v, j) + (IF b[j + 1] = v THEN 1 ELSE 0)
          /\ CountTo(a, v, i) \in Nat /\ CountTo(b, v, j) \in Nat
      BY <3>1, CountToStep
    <3>5. CountTo(m, v, k) = CountTo(a, v, f[k]) + CountTo(b, v, k - f[k])
      <4>1. CASE Next1(f, a, b, k)
        <5>a. f[k] = i + 1 /\ m[k] = a[i + 1]
          BY <4>1, Zenon DEF Next1, i, m
        <5>b. k - 1 - i = j
          BY Zenon DEF i, j
        <5>1. f[k] = i + 1 /\ k - f[k] = j /\ m[k] = a[i + 1]
          BY <3>1, <5>a, <5>b
        <5>2. (IF m[k] = v THEN 1 ELSE 0) = (IF a[i + 1] = v THEN 1 ELSE 0)
          BY <5>1, Zenon
        <5>3. CountTo(m, v, k) = CountTo(a, v, i + 1) + CountTo(b, v, j)
          BY <3>2, <3>3, <3>4, <5>2
        <5> QED
          BY <5>1, <5>3, Zenon
      <4>2. CASE Next2(f, a, b, k)
        <5>1. f[k] = i /\ k - f[k] = j + 1 /\ m[k] = b[j + 1]
          BY <3>1, <4>2 DEF Next2, i, j, m
        <5>2. (IF m[k] = v THEN 1 ELSE 0) = (IF b[j + 1] = v THEN 1 ELSE 0)
          BY <5>1, Zenon
        <5>3. CountTo(m, v, k) = CountTo(a, v, i) + CountTo(b, v, j + 1)
          BY <3>2, <3>3, <3>4, <5>2
        <5> QED
          BY <5>1, <5>3, Zenon
      <4> QED
        BY <1>2, <4>1, <4>2
    <3> QED
      BY <3>1, <3>5 DEF H
  <2>3. L \in H
    <3>1. 0 \in Nat /\ 0 + 1 = 1 /\ L \in 0..L
      BY <1>3
    <3> HIDE DEF H
    <3> QED
      BY <1>3, <2>1, <2>2, <3>1, Climb
  <2>4. f[L] = Len(a) /\ L - f[L] = Len(b)
    <3>1. f[L] \in 0..Len(a) /\ L - f[L] \in 0..Len(b)
      BY <1>2, <1>3
    <3> QED
      BY <1>3, <3>1 DEF L
  <2>5. CountTo(m, v, L) = CountTo(a, v, Len(a)) + CountTo(b, v, Len(b))
    BY <2>3, <2>4
  <2> QED
    BY <1>6, <2>5, CountIs
<1>8. ASSUME Ascending(a), Ascending(b) PROVE Ascending(m)
  <2> SUFFICES ASSUME NEW k \in 1..(L - 1) PROVE m[k] <= m[k + 1]
    BY <1>6 DEF Ascending
  <2> DEFINE i == f[k - 1]
             j == k - 1 - f[k - 1]
  <2>1. /\ k \in 1..L /\ k + 1 \in 1..L /\ (k + 1) - 1 = k /\ k - 1 \in 0..L
        /\ m[k] \in Int /\ m[k + 1] \in Int
    BY <1>3, <1>4
  <2>2. i \in 0..Len(a) /\ j \in 0..Len(b) /\ k = i + j + 1
    BY <1>2, <2>1
  <2>3. \/ /\ f[k] \in 0..(Len(a) - 1) /\ m[k + 1] = a[f[k] + 1]
        \/ /\ k - f[k] \in 0..(Len(b) - 1) /\ m[k + 1] = b[k - f[k] + 1]
    BY <1>2, <2>1 DEF Next1, Next2, m
  <2> HIDE DEF i, j
  <2>4. CASE Next1(f, a, b, k)
    <3>1. /\ f[k] = i + 1 /\ k - f[k] = j /\ m[k] = a[i + 1] /\ i < Len(a)
          /\ j < Len(b) => a[i + 1] < b[j + 1]
      <4>1. /\ f[k] = i + 1 /\ i \in 0..(Len(a) - 1) /\ m[k] = a[i + 1]
            /\ j < Len(b) => a[i + 1] < b[j + 1]
        BY <2>4, Zenon DEF Next1, i, j, m
      <4>2. k - f[k] = j /\ i < Len(a)
        BY <1>3, <2>2, <4>1
      <4> QED
        BY <4>1, <4>2
    <3>2. i + 1 < Len(a) => a[i + 1] <= a[i + 2] /\ (i + 1) + 1 = i + 2
      BY <1>3, <1>8, <2>2 DEF Ascending
    <3>3. j < Len(b) => a[i + 1] \in Int /\ b[j + 1] \in Int
      BY <1>3, <2>2, <3>1
    <3>4. CASE f[k] \in 0..(Len(a) - 1) /\ m[k + 1] = a[f[k] + 1]
      <4>1. m[k + 1] = a[i + 2] /\ i + 1 < Len(a)
        BY <1>3, <2>2, <3>1, <3>4
      <4> QED
        BY <3>1, <3>2, <4>1
    <3>5. CASE k - f[k] \in 0..(Len(b) - 1) /\ m[k + 1] = b[k - f[k] + 1]
      <4>1. m[k + 1] = b[j + 1] /\ j < Len(b)
        BY <1>3, <2>2, <3>1, <3>5
      <4> QED
        BY <3>1, <3>3, <4>1
    <3> QED
      BY <2>3, <3>4, <3>5
  <2>5. CASE Next2(f, a, b, k)
    <3>1. /\ f[k] = i /\ k - f[k] = j + 1 /\ m[k] = b[j + 1] /\ j < Len(b)
          /\ i < Len(a) => ~ (a[i + 1] < b[j + 1])
      <4>1. /\ f[k] = i /\ j \in 0..(Len(b) - 1) /\ m[k] = b[j + 1]
            /\ i < Len(a) => ~ (a[i + 1] < b[j + 1])
        BY <2>5, Zenon DEF Next2, i, j, m
      <4>2. k - f[k] = j + 1 /\ j < Len(b)
        BY <1>3, <2>2, <4>1
      <4> QED
        BY <4>1, <4>2
    <3>2. j + 1 < Len(b) => b[j + 1] <= b[j + 2] /\ (j + 1) + 1 = j + 2
      BY <1>3, <1>8, <2>2 DEF Ascending
    <3>3. i < Len(a) => a[i + 1] \in Int /\ b[j + 1] \in Int
      BY <1>3, <2>2, <3>1
    <3>4. CASE f[k] \in 0..(Len(a) - 1) /\ m[k + 1] = a[f[k] + 1]
      <4>1. m[k + 1] = a[i + 1] /\ i < Len(a)
        BY <1>3, <2>2, <3>1, <3>4
      <4> QED
        BY <3>1, <3>3, <4>1
    <3>5. CASE k - f[k] \in 0..(Len(b) - 1) /\ m[k + 1] = b[k - f[k] + 1]
      <4>1. m[k + 1] = b[j + 2] /\ j + 1 < Len(b)
        BY <1>3, <2>2, <3>1, <3>5
      <4> QED
        BY <3>1, <3>2, <4>1
    <3> QED
      BY <2>3, <3>4, <3>5
  <2> QED
    BY <1>2, <2>1, <2>4, <2>5
<1> QED
  BY <1>6, <1>7, <1>8 DEF m, L


-----------------------------------------------------------------------------
(* The numbers at p + 1 .. q of s are as many as up to q less those up to p. *)
PartCounts(s, p, q, v) ==
    CountTo(s, v, q) = CountTo(s, v, p) + Count(SubSeq(s, p + 1, q), v)

LEMMA PartsCount ==
    ASSUME NEW s \in Seq(Int), NEW p \in Nat, NEW q \in Nat, p <= q, q <= Len(s), NEW v
    PROVE  PartCounts(s, p, q, v)
<1> DEFINE t == SubSeq(s, p + 1, q)
           H == {m \in 0..(q - p) : CountTo(s, v, p + m) = CountTo(s, v, p) + CountTo(t, v, m)}
<1>1. t \in Seq(Int) /\ Len(t) = q - p /\ \A k \in 1..(q - p) : t[k] = s[p + k]
  <2>1. t = [k \in 1..(q - p) |-> s[p + k]]
    OBVIOUS
  <2>2. \A k \in 1..(q - p) : s[p + k] \in Int
    OBVIOUS
  <2> QED
    BY <2>1, <2>2
<1> HIDE DEF t
<1>2. 0 \in H
  <2>1. CountTo(t, v, 0) = 0 /\ CountTo(s, v, p) \in Nat
    BY CountToStep
  <2> QED
    BY <2>1
<1>3. ASSUME NEW m \in 1..(q - p), m - 1 \in H PROVE m \in H
  <2> DEFINE l == m - 1
             n == p + l
  <2>1. l \in Nat /\ n \in Nat /\ l + 1 = m /\ n + 1 = p + m
    OBVIOUS
  <2>2. CountTo(s, v, n) = CountTo(s, v, p) + CountTo(t, v, l)
    BY <1>3
  <2> HIDE DEF l, n
  <2>3. CountsNext(t, v, l) /\ CountsNext(s, v, n)
    BY <2>1, CountToNext, Zenon
  <2>4. t[l + 1] = s[n + 1]
    <3>1. t[m] = s[p + m]
      BY <1>1
    <3> QED
      BY <2>1, <3>1
  <2>5. CountTo(s, v, p) \in Nat /\ CountTo(t, v, l) \in Nat
    BY <2>1, CountToStep
  <2> DEFINE d == IF s[n + 1] = v THEN 1 ELSE 0
  <2>6. CountTo(t, v, m) = CountTo(t, v, l) + d /\ CountTo(s, v, p + m) = CountTo(s, v, n) + d
    BY <2>1, <2>3, <2>4 DEF CountsNext
  <2>7. d \in Nat
    OBVIOUS
  <2> HIDE DEF d
  <2>8. CountTo(s, v, p + m) = CountTo(s, v, p) + CountTo(t, v, m)
    BY <2>2, <2>5, <2>6, <2>7
  <2> QED
    BY <2>8
<1>4. q - p \in H
  <2>1. 0 \in Nat /\ 0 + 1 = 1 /\ q - p \in Nat /\ q - p \in 0..(q - p)
    OBVIOUS
  <2> HIDE DEF H
  <2> QED
    BY <1>2, <1>3, <2>1, Climb
<1>5. CountTo(s, v, q) = CountTo(s, v, p) + CountTo(t, v, q - p)
  <2>1. p + (q - p) = q
    OBVIOUS
  <2> QED
    BY <1>4, <2>1
<1> QED
  BY <1>1, <1>5, CountIs DEF PartCounts, t

(* Where the group of a worker is in the input.                            *)
StartOf(i) == (i - 1) * size_avg
EndOf(i)   == IF i = num_process THEN Len(arr) ELSE i * size_avg

(* The groups are the input, cut.                                          *)
LEMMA GroupsCut ==
    ASSUME arr \in Seq(Int), NEW i \in Workers
    PROVE  /\ size_avg \in Nat
           /\ StartOf(i) \in Nat /\ EndOf(i) \in Nat
           /\ StartOf(i) <= EndOf(i) /\ EndOf(i) <= Len(arr)
           /\ Group(i) = SubSeq(arr, StartOf(i) + 1, EndOf(i))
           /\ EndOf(i) - StartOf(i) >= size_avg
           /\ i # num_process => StartOf(i + 1) = EndOf(i)
           /\ StartOf(1) = 0 /\ EndOf(num_process) = Len(arr)
<1>1. num_process \in Nat \ {0} /\ i \in 1..num_process /\ Len(arr) \in Nat
  BY SortAssumption DEF Workers
<1> DEFINE n == num_process
           L == Len(arr)
<1>2. size_avg \in Nat /\ n * size_avg <= L
  <2> HIDE DEF n, L
  <2>1. n \in Nat /\ n > 0 /\ L \in Nat
    BY <1>1 DEF n, L
  <2>2. L \div n \in Nat /\ n * (L \div n) <= L
    BY <2>1
  <2> QED
    BY <2>2 DEF size_avg, n, L
<1>3. /\ (i - 1) * size_avg \in Nat
      /\ i * size_avg = (i - 1) * size_avg + size_avg
      /\ (i - 1) * size_avg + size_avg <= L
  <2> HIDE DEF L
  <2>1. ASSUME NEW s \in Nat, NEW j \in 1..n, n * s <= L, NEW l \in Nat, l = L
        PROVE  /\ (j - 1) * s \in Nat /\ j * s = (j - 1) * s + s /\ (j - 1) * s + s <= L
    <3>1. n \in Nat /\ j \in Nat /\ j - 1 \in Nat /\ n - j \in Nat
      BY <1>1
    <3>2. (n - j) * s \in Nat /\ (j - 1) * s \in Nat /\ j * s \in Nat
      BY <3>1
    <3>3. n * s = j * s + (n - j) * s
      BY <3>1
    <3>4. j * s = (j - 1) * s + s
      BY <3>1
    <3>5. j * s <= n * s
      BY <3>1, <3>2, <3>3
    <3> QED
      BY <2>1, <3>1, <3>2, <3>4, <3>5
  <2>2. L \in Nat
    BY <1>1 DEF L
  <2> QED
    BY <1>1, <1>2, <2>1, <2>2
<1>4. Group(i) = SubSeq(arr, StartOf(i) + 1, EndOf(i))
  BY Zenon DEF Group, StartOf, EndOf
<1>5. StartOf(1) = 0
  BY <1>2 DEF StartOf
<1>6. i # num_process => StartOf(i + 1) = EndOf(i)
  <2>1. (i + 1) - 1 = i
    BY <1>1
  <2> QED
    BY <2>1 DEF StartOf, EndOf
<1> QED
  BY <1>1, <1>2, <1>3, <1>4, <1>5, <1>6 DEF StartOf, EndOf


(* s has the numbers of t in ascending order.                              *)
SortOf(s, t) == s \in Seq(Int) /\ Ascending(s) /\ \A v \in Int : Count(s, v) = Count(t, v)

(* The function that Merge_sorted_groups is defined with.                  *)
MergedGroups(f, gs) ==
    f = [g_id \in 0..(num_process - 1) |->
            IF g_id = 0 THEN gs[1] ELSE Merge(f[g_id - 1], gs[g_id + 1])]

(* f[g] is the first g + 1 groups merged.                                  *)
MergingGroups(f, gs) ==
    /\ f \in [0..(num_process - 1) -> Seq(Int)]
    /\ f[0] = gs[1]
    /\ \A g \in 1..(num_process - 1) : f[g] = Merge(f[g - 1], gs[g + 1])
    /\ Merge_sorted_groups(gs) = f[num_process - 1]

LEMMA MergeGroupsRuns ==
    ASSUME NEW gs, \A i \in Workers : gs[i] \in Seq(Int)
    PROVE  \E f : MergingGroups(f, gs)
<1> DEFINE n == num_process - 1
           S == Seq(Int)
           step == [g \in 1..n |-> [s \in S |-> Merge(s, gs[g + 1])]]
<1>1. /\ n \in Nat /\ gs[1] \in S /\ \A g \in 1..n : gs[g + 1] \in S
      /\ 0 \in Nat /\ 0 + 1 = 1
  BY SortAssumption DEF Workers
<1>2. \A g \in 1..n, s \in S : Merge(s, gs[g + 1]) \in S
  BY <1>1, MergeMerges, Zenon
<1> HIDE DEF S, n
<1>3. step \in [1..n -> [S -> S]] /\ \A g \in 1..n, s \in S : step[g][s] = Merge(s, gs[g + 1])
  BY <1>2
<1> HIDE DEF step
<1>4. PICK h \in [0..n -> S] : LoopOf(h, gs[1], n, step)
  BY <1>1, <1>3, LoopExists
<1>5. MergedGroups(h, gs)
  <2>1. \A g \in 0..n : h[g] = IF g = 0 THEN gs[1] ELSE step[g][h[g - 1]]
    BY <1>4 DEF LoopOf
  <2>2. \A g \in 0..n : h[g] = IF g = 0 THEN gs[1] ELSE Merge(h[g - 1], gs[g + 1])
    <3> TAKE g \in 0..n
    <3>1. CASE g = 0
      BY <2>1, <3>1
    <3>2. CASE g # 0
      <4>1. g \in 1..n /\ h[g - 1] \in S
        BY <1>1, <3>2
      <4> QED
        BY <1>3, <2>1, <3>2, <4>1
    <3> QED
      BY <3>1, <3>2
  <2>3. h = [g \in 0..n |-> h[g]]
    OBVIOUS
  <2> QED
    BY <2>2, <2>3, Zenon DEF MergedGroups, n
<1> DEFINE f == CHOOSE x : MergedGroups(x, gs)
<1>6. MergedGroups(f, gs)
  BY <1>5, Zenon
<1>7. Merge_sorted_groups(gs) = f[n]
  BY Zenon DEF Merge_sorted_groups, MergedGroups, n
<1> HIDE DEF f
<1>8. f[0] = gs[1] /\ \A g \in 1..n : f[g] = Merge(f[g - 1], gs[g + 1])
  <2>1. \A g \in 0..n : f[g] = IF g = 0 THEN gs[1] ELSE Merge(f[g - 1], gs[g + 1])
    BY <1>6, Zenon DEF MergedGroups, n
  <2>2. 0 \in 0..n /\ \A g \in 1..n : g \in 0..n /\ g # 0
    BY <1>1
  <2> QED
    BY <2>1, <2>2
<1>9. \A g \in 0..n : f[g] \in S
  <2>1. \A g \in 1..n : f[g - 1] \in S => f[g] \in S
    BY <1>2, <1>8
  <2> QED
    BY <1>1, <1>8, <2>1, LoopKeeps
<1>10. f \in [0..n -> S]
  <2>1. f = [g \in 0..n |-> f[g]]
    BY <1>6, Zenon DEF MergedGroups, n
  <2> QED
    BY <1>9, <2>1
<1> QED
  BY <1>7, <1>8, <1>10 DEF MergingGroups, n, S

(* The parent's last step: groups that are sorted are merged to the sorted *)
(* input.                                                                  *)
LEMMA GroupsMerge ==
    ASSUME arr \in Seq(Int), NEW gs, \A i \in Workers : SortOf(gs[i], Group(i))
    PROVE  SortOf(Merge_sorted_groups(gs), arr)
<1> DEFINE n == num_process - 1
<1>1. n \in Nat /\ 0 \in Nat /\ 0 + 1 = 1 /\ n + 1 = num_process /\ n \in 0..n
  BY SortAssumption
<1>2. PICK f : MergingGroups(f, gs)
  BY MergeGroupsRuns, Zenon DEF SortOf
<1>3. /\ f[0] = gs[1]
      /\ \A g \in 1..n : f[g] = Merge(f[g - 1], gs[g + 1])
      /\ Merge_sorted_groups(gs) = f[n]
  BY <1>2 DEF MergingGroups
<1>4. \A g \in 0..n : g + 1 \in Workers /\ f[g] \in Seq(Int) /\ gs[g + 1] \in Seq(Int)
  <2> TAKE g \in 0..n
  <2>1. g + 1 \in Workers
    BY <1>1 DEF Workers
  <2>2. gs[g + 1] \in Seq(Int)
    BY <2>1, Zenon DEF SortOf
  <2>3. f \in [0..n -> Seq(Int)]
    BY <1>2 DEF MergingGroups
  <2> QED
    BY <2>1, <2>2, <2>3
<1> DEFINE H == {g \in 0..n : /\ Ascending(f[g])
                              /\ \A v \in Int : Count(f[g], v) = CountTo(arr, v, EndOf(g + 1))}
<1>5. ASSUME NEW i \in Workers, NEW v \in Int
      PROVE  /\ CountTo(arr, v, EndOf(i)) = CountTo(arr, v, StartOf(i)) + Count(gs[i], v)
             /\ StartOf(1) = 0
             /\ i # num_process => StartOf(i + 1) = EndOf(i)
  <2>1. /\ StartOf(i) \in Nat /\ EndOf(i) \in Nat /\ StartOf(i) <= EndOf(i) /\ EndOf(i) <= Len(arr)
        /\ Group(i) = SubSeq(arr, StartOf(i) + 1, EndOf(i))
        /\ i # num_process => StartOf(i + 1) = EndOf(i)
        /\ StartOf(1) = 0
    BY GroupsCut, Zenon
  <2>2. PartCounts(arr, StartOf(i), EndOf(i), v)
    BY <2>1, PartsCount, Zenon
  <2>3. Count(gs[i], v) = Count(Group(i), v)
    BY Zenon DEF SortOf
  <2> QED
    BY <2>1, <2>2, <2>3 DEF PartCounts
<1> HIDE DEF n
<1>6. 0 \in H
  <2>1. 1 \in Workers /\ Ascending(gs[1]) /\ 0 \in 0..n
    <3>1. 1 \in Workers /\ 0 \in 0..n
      BY <1>1, SortAssumption DEF Workers
    <3> QED
      BY <3>1, Zenon DEF SortOf
  <2>2. ASSUME NEW v \in Int PROVE Count(f[0], v) = CountTo(arr, v, EndOf(1))
    <3>1. CountTo(arr, v, 0) = 0
      BY CountToStep
    <3>2. Count(gs[1], v) \in Nat
      BY <1>1, <1>4, CountIs, CountToStep
    <3>3. CountTo(arr, v, EndOf(1)) = CountTo(arr, v, 0) + Count(gs[1], v)
      BY <1>5, <2>1, Zenon
    <3> QED
      BY <1>3, <3>1, <3>2, <3>3
  <2> QED
    BY <1>1, <1>3, <2>1, <2>2
<1>7. ASSUME NEW g \in 1..n, g - 1 \in H PROVE g \in H
  <2> DEFINE p == f[g - 1]
             q == gs[g + 1]
  <2>1. /\ g \in 0..n /\ g + 1 \in Workers /\ g \in Workers /\ g # num_process /\ (g - 1) + 1 = g
        /\ f[g] = Merge(p, q) /\ p \in Seq(Int) /\ q \in Seq(Int)
    <3>1. g \in 0..n /\ g - 1 \in 0..n /\ (g - 1) + 1 = g /\ g # num_process
      BY <1>1
    <3> QED
      BY <1>3, <1>4, <3>1
  <2>2. Ascending(p) /\ Ascending(q)
    BY <1>7, <2>1 DEF SortOf
  <2>3. \A v \in Int : Count(p, v) = CountTo(arr, v, EndOf(g))
    BY <1>7, <2>1
  <2> HIDE DEF p, q
  <2>4. Ascending(f[g]) /\ \A v \in Int : Count(f[g], v) = Count(p, v) + Count(q, v)
    <3>1. /\ Ascending(Merge(p, q))
          /\ \A v \in Int : Count(Merge(p, q), v) = Count(p, v) + Count(q, v)
      BY <2>1, <2>2, MergeMerges, Zenon
    <3> QED
      BY <2>1, <3>1, Zenon
  <2>5. ASSUME NEW v \in Int PROVE Count(f[g], v) = CountTo(arr, v, EndOf(g + 1))
    <3>1. CountTo(arr, v, EndOf(g + 1)) = CountTo(arr, v, StartOf(g + 1)) + Count(q, v)
      BY <1>5, <2>1, Zenon DEF q
    <3>2. StartOf(g + 1) = EndOf(g)
      BY <1>5, <2>1, Zenon
    <3> QED
      BY <2>3, <2>4, <3>1, <3>2
  <2> QED
    BY <2>1, <2>4, <2>5
<1>8. n \in H
  <2> HIDE DEF H
  <2> QED
    BY <1>1, <1>6, <1>7, Climb
<1>9. EndOf(n + 1) = Len(arr)
  BY <1>1 DEF EndOf
<1>10. \A v \in Int : Count(f[n], v) = Count(arr, v)
  BY <1>8, <1>9, CountIs
<1> QED
  BY <1>1, <1>3, <1>4, <1>8, <1>10 DEF SortOf

-----------------------------------------------------------------------------
(* The parent sorts alone.                                                 *)
Few == num_process = 1 \/ size_avg < 2

Sorted(i) == BubbleSort(Group(i))

(* Some worker has not been started yet; it is not i's turn yet.           *)
Unborn(i) == \/ pc = "fork" /\ i >= child_id
             \/ pc = "clear" /\ i > child_id

(* The numbers the parent is at have been passed up to this one.           *)
Progress(i) == IF i < child_id THEN Len(Group(i)) ELSE IF i = child_id THEN passed ELSE 0

(* Processes: how many numbers the parent has written to a worker, and how *)
(* many it has read from it.                                               *)
Written(i) == CASE pc = "fork" -> 0 [] pc = "write" -> Progress(i) [] OTHER -> Len(Group(i))
Got(i)     == CASE pc \in {"fork", "write"} -> 0
                [] pc = "collect" -> Progress(i)
                [] OTHER -> Len(Group(i))

(* q is a part of s, from an index on.                                     *)
PartOf(q, s, from) == from + Len(q) <= Len(s) /\ \A k \in 1..Len(q) : q[k] = s[from + k]

(* A process at c that has the numbers o, with d and u in its pipes, of    *)
(* whose group g the parent has written w and read r.                      *)
Piped(c, o, d, u, w, r, g) ==
    \/ c = "none" /\ o = <<>> /\ d = <<>> /\ u = <<>> /\ w = 0 /\ r = 0
    \/ /\ c = "read"
       /\ u = <<>> /\ r = 0 /\ Len(o) < Len(g)
       /\ w = Len(o) + Len(d)
       /\ PartOf(o, g, 0) /\ PartOf(d, g, Len(o))
    \/ /\ c = "sort"
       /\ o = g /\ d = <<>> /\ u = <<>> /\ r = 0 /\ w = Len(g)
    \/ /\ c = IF o = <<>> THEN "ended" ELSE "answer"
       /\ d = <<>> /\ w = Len(g)
       /\ r + Len(u) + Len(o) = Len(g)
       /\ PartOf(u, BubbleSort(g), r) /\ PartOf(o, BubbleSort(g), r + Len(u))

(* The parent's group h, when it has read r of the sorted numbers.         *)
Held(h, r, g) ==
    /\ h \in Seq(Int) /\ Len(h) = Len(g)
    /\ \A k \in 1..Len(g) : h[k] = IF k <= r THEN BubbleSort(g)[k] ELSE g[k]

WorkerPiped(i) ==
    /\ child[i] = "none" <=> Unborn(i)
    /\ pc \in {"write", "collect"} /\ i = child_id => passed < Len(Group(i))
    /\ Piped(child[i], own_vector[i], down[i], up[i], Written(i), Got(i), Group(i))
    /\ Held(groups[i], Got(i), Group(i))

ProcessesInv ==
    /\ pc \in {"fork", "write", "collect", "merge", "finished"}
    /\ pc = "fork" => passed = 0
    /\ \A i \in Workers : WorkerPiped(i)

WorkerJoins(i) ==
    /\ child[i] \in {"none", "sort", "ended"}
    /\ child[i] = "none" <=> Unborn(i)
    /\ groups[i] = IF child[i] = "ended" THEN Sorted(i) ELSE Group(i)
    /\ pc = "join" /\ i < child_id => child[i] = "ended"
    /\ pc \in {"merge", "finished"} => child[i] = "ended"

ThreadsInv ==
    /\ pc \in {"fork", "join", "merge", "finished"}
    /\ \A i \in Workers : WorkerJoins(i)

(* Shared memory: a worker's part is filled; it has been told to go.       *)
Copied(i) == \/ pc = "copy" /\ i < child_id
             \/ pc = "raise" /\ i <= child_id
             \/ pc \in {"poll", "merge", "finished"}
Told(i)   == \/ pc \in {"copy", "raise"} /\ i < child_id
             \/ pc \in {"poll", "merge", "finished"}

(* A worker's numbers are its parent's.                                    *)
Collected(i) == child[i] = "ended" /\ shm.done[i] = 0

WorkerShares(i) ==
    /\ child[i] \in {"none", "wait", "sort", "store", "signal", "ended"}
    /\ child[i] = "none" <=> Unborn(i)
    /\ child[i] \notin {"none", "wait"} => Told(i)
    /\ shm.go[i] = IF Told(i) THEN 1 ELSE 0
    /\ child[i] # "ended" => shm.done[i] = 0
    /\ child[i] = "wait" /\ Copied(i) => shm.data[i] = Group(i)
    /\ child[i] = "sort" => own_vector[i] = Group(i)
    /\ child[i] = "store" => own_vector[i] = Sorted(i)
    /\ child[i] \in {"signal", "ended"} => shm.data[i] = Sorted(i)
    /\ groups[i] = IF Collected(i) THEN Sorted(i) ELSE Group(i)

SharedInv ==
    /\ pc \in {"fork", "clear", "copy", "raise", "poll", "merge", "finished"}
    /\ num_child_pending = Cardinality({i \in Workers : ~ Collected(i)})
    /\ pc \in {"merge", "finished"} => \A i \in Workers : Collected(i)
    /\ \A i \in Workers : WorkerShares(i)

SortTypes ==
    /\ mode \in {"processes", "threads", "shared"}
    /\ arr \in Seq(Int)
    /\ groups \in [Workers -> Seq(Int)]
    /\ child_id \in Workers
    /\ passed \in Nat
    /\ own_vector \in [Workers -> Seq(Int)]
    /\ down \in [Workers -> Seq(Int)] /\ up \in [Workers -> Seq(Int)]
    /\ DOMAIN child = Workers
    /\ shm \in [data : [Workers -> Seq(Int)], go : [Workers -> {0, 1}], done : [Workers -> {0, 1}]]

SortInv ==
    /\ SortTypes
    /\ IF Few THEN pc \in {"alone", "finished"} /\ \A i \in Workers : child[i] = "none"
       ELSE /\ mode = "processes" => ProcessesInv
            /\ mode = "threads" => ThreadsInv
            /\ mode = "shared" => SharedInv
    /\ pc = "finished" => SortOf(sorted_arr, arr)


-----------------------------------------------------------------------------
LEMMA SameNumbers ==
    ASSUME NEW s \in Seq(Int), NEW t \in Seq(Int), Len(s) = Len(t),
           \A k \in 1..Len(s) : s[k] = t[k]
    PROVE  s = t
<1>1. s \in [1..Len(s) -> Int] /\ t \in [1..Len(s) -> Int]
  OBVIOUS
<1>2. s = [k \in 1..Len(s) |-> s[k]] /\ t = [k \in 1..Len(s) |-> t[k]]
  BY <1>1, Zenon
<1> QED
  BY <1>2, Zenon

(* What the steps do to the numbers of one process: it is started, ...     *)
LEMMA PipedFork ==
    ASSUME NEW o, NEW d, NEW u, NEW w, NEW r, NEW g \in Seq(Int), Len(g) > 0,
           Piped("none", o, d, u, w, r, g)
    PROVE  Piped("read", o, d, u, w, r, g)
<1>1. o = <<>> /\ d = <<>> /\ u = <<>> /\ w = 0 /\ r = 0
  BY DEF Piped
<1>2. PartOf(<<>>, g, 0) /\ Len(<<>>) = 0
  BY DEF PartOf
<1> QED
  BY <1>1, <1>2 DEF Piped

(* ... the parent writes a number to it, ...                               *)
LEMMA PipedWrite ==
    ASSUME NEW c, NEW o \in Seq(Int), NEW d \in Seq(Int), NEW u \in Seq(Int),
           NEW w \in Nat, NEW r \in Nat, NEW g \in Seq(Int), NEW x, x = g[w + 1],
           Piped(c, o, d, u, w, r, g), c # "none", w < Len(g)
    PROVE  Piped(c, o, Append(d, x), u, w + 1, r, g)
<1>1. /\ c = "read" /\ u = <<>> /\ r = 0 /\ Len(o) < Len(g)
      /\ w = Len(o) + Len(d)
      /\ PartOf(o, g, 0) /\ PartOf(d, g, Len(o))
  BY DEF Piped
<1> DEFINE e == Append(d, x)
<1>2. /\ Len(o) \in Nat /\ Len(d) \in Nat /\ Len(g) \in Nat
      /\ x \in Int
  BY w + 1 \in 1..Len(g)
<1>3. /\ Len(e) = Len(d) + 1 /\ e[Len(d) + 1] = x
      /\ \A k \in 1..Len(d) : e[k] = d[k]
  BY <1>2
<1> HIDE DEF e
<1>4. PartOf(e, g, Len(o))
  <2>1. ASSUME NEW k \in 1..Len(e) PROVE e[k] = g[Len(o) + k]
    <3>1. CASE k \in 1..Len(d)
      BY <1>1, <1>3, <3>1 DEF PartOf
    <3>2. CASE k = Len(d) + 1
      BY <1>1, <1>2, <1>3, <3>2
    <3>3. k \in 1..Len(d) \/ k = Len(d) + 1
      <4>1. ASSUME NEW n \in Nat, NEW j \in 1..(n + 1) PROVE j \in 1..n \/ j = n + 1
        OBVIOUS
      <4> QED
        BY <4>1, <1>2, <1>3, Zenon
    <3> QED
      BY <3>1, <3>2, <3>3, Zenon
  <2>2. Len(o) + Len(e) <= Len(g)
    BY <1>1, <1>2, <1>3
  <2> QED
    BY <2>1, <2>2 DEF PartOf
<1>5. w + 1 = Len(o) + Len(e)
  BY <1>1, <1>2, <1>3
<1>6. Piped(c, o, e, u, w + 1, r, g)
  BY <1>1, <1>4, <1>5 DEF Piped
<1> QED
  BY <1>6 DEF e

(* ... it reads one, ...                                                   *)
LEMMA PipedReceive ==
    ASSUME NEW o \in Seq(Int), NEW d \in Seq(Int), NEW u, NEW w, NEW r, NEW g \in Seq(Int),
           Piped("read", o, d, u, w, r, g), d # <<>>,
           NEW c, c = IF Len(o) + 1 = Len(g) THEN "sort" ELSE "read"
    PROVE  Piped(c, Append(o, Head(d)), Tail(d), u, w, r, g)
<1> DEFINE p == Append(o, Head(d))
           e == Tail(d)
<1>1. /\ u = <<>> /\ r = 0 /\ Len(o) < Len(g) /\ w = Len(o) + Len(d)
      /\ PartOf(o, g, 0) /\ PartOf(d, g, Len(o))
  BY DEF Piped
<1>2. /\ Len(d) \in Nat /\ Len(d) > 0 /\ Head(d) \in Int /\ Head(d) = d[1]
      /\ p \in Seq(Int) /\ Len(p) = Len(o) + 1 /\ Len(o) \in Nat /\ Len(g) \in Nat
      /\ \A k \in 1..Len(o) : p[k] = o[k]
      /\ p[Len(o) + 1] = Head(d)
      /\ e \in Seq(Int) /\ Len(e) = Len(d) - 1 /\ \A k \in 1..Len(e) : e[k] = d[k + 1]
  OBVIOUS
<1> HIDE DEF p, e
<1>3. PartOf(p, g, 0)
  <2>a. 1 \in 1..Len(d)
    BY <1>2
  <2>b. \A k \in 1..Len(d) : d[k] = g[Len(o) + k]
    BY <1>1, Zenon DEF PartOf
  <2>1. 1 \in 1..Len(d) /\ Head(d) = g[Len(o) + 1]
    BY <1>2, <2>a, <2>b
  <2>2. ASSUME NEW k \in 1..Len(p) PROVE p[k] = g[0 + k]
    <3>1. CASE k \in 1..Len(o)
      BY <1>1, <1>2, <3>1 DEF PartOf
    <3>2. CASE k = Len(o) + 1
      BY <1>2, <2>1, <3>2
    <3> QED
      BY <1>2, <3>1, <3>2
  <2>3. 0 + Len(p) <= Len(g)
    BY <1>1, <1>2
  <2> QED
    BY <2>2, <2>3 DEF PartOf
<1>4. PartOf(e, g, Len(p))
  <2>1. Len(p) + Len(e) <= Len(g)
    BY <1>1, <1>2 DEF PartOf
  <2>2. ASSUME NEW k \in 1..Len(e) PROVE e[k] = g[Len(p) + k]
    <3>1. k + 1 \in 1..Len(d) /\ Len(o) + (k + 1) = Len(p) + k
      BY <1>2
    <3>2. d[k + 1] = g[Len(o) + (k + 1)]
      BY <1>1, <3>1 DEF PartOf
    <3> QED
      BY <1>2, <3>1, <3>2
  <2> QED
    BY <2>1, <2>2 DEF PartOf
<1>5. w = Len(p) + Len(e)
  BY <1>1, <1>2
<1>6. CASE Len(o) + 1 = Len(g)
  <2>1. p = g
    <3>1. \A k \in 1..Len(p) : p[k] = g[k]
      BY <1>2, <1>3 DEF PartOf
    <3> QED
      BY <1>2, <1>6, <3>1, SameNumbers
  <2>2. e = <<>>
    BY <1>2, <1>4, <1>6 DEF PartOf
  <2>3. c = "sort"
    BY <1>6
  <2>4. w = Len(g)
    <3>1. Len(e) = 0
      BY <2>2
    <3>2. Len(p) = Len(g) /\ Len(p) \in Nat
      BY <1>2, <1>6
    <3> QED
      BY <1>5, <3>1, <3>2
  <2>5. Piped(c, p, e, u, w, r, g)
    BY <1>1, <2>1, <2>2, <2>3, <2>4 DEF Piped
  <2> QED
    BY <2>5 DEF p, e
<1>7. CASE Len(o) + 1 # Len(g)
  BY <1>1, <1>2, <1>3, <1>4, <1>5, <1>7 DEF Piped, p, e
<1> QED
  BY <1>6, <1>7

(* ... sorts, ...                                                          *)
LEMMA PipedSort ==
    ASSUME NEW o, NEW d, NEW u, NEW w, NEW r, NEW g \in Seq(Int), Len(g) > 0,
           Piped("sort", o, d, u, w, r, g)
    PROVE  Piped("answer", BubbleSort(o), d, u, w, r, g)
<1> DEFINE s == BubbleSort(g)
<1>1. o = g /\ d = <<>> /\ u = <<>> /\ r = 0 /\ w = Len(g)
  BY DEF Piped
<1>2. s \in Seq(Int) /\ Len(s) = Len(g)
  BY BubbleSorts, Zenon
<1> HIDE DEF s
<1>3. /\ s # <<>> /\ PartOf(<<>>, s, 0)
      /\ PartOf(s, s, 0 + Len(<<>>)) /\ 0 + Len(<<>>) + Len(s) = Len(g)
  BY <1>2 DEF PartOf
<1> QED
  BY <1>1, <1>2, <1>3 DEF Piped, s

(* ... and answers a number.                                               *)
LEMMA PipedAnswer ==
    ASSUME NEW o \in Seq(Int), NEW d, NEW u \in Seq(Int), NEW w, NEW r \in Nat,
           NEW g \in Seq(Int), Piped("answer", o, d, u, w, r, g)
    PROVE  Piped(IF Tail(o) = <<>> THEN "ended" ELSE "answer",
                 Tail(o), d, Append(u, Head(o)), w, r, g)
<1> DEFINE s == BubbleSort(g)
           p == Tail(o)
           t == Append(u, Head(o))
<1>1. /\ o # <<>> /\ d = <<>> /\ w = Len(g) /\ r + Len(u) + Len(o) = Len(g)
      /\ PartOf(u, s, r) /\ PartOf(o, s, r + Len(u))
  BY DEF Piped
<1>2. /\ Len(o) \in Nat /\ Len(o) > 0 /\ Head(o) = o[1] /\ Len(u) \in Nat /\ Len(g) \in Nat
      /\ p \in Seq(Int) /\ Len(p) = Len(o) - 1 /\ \A k \in 1..Len(p) : p[k] = o[k + 1]
      /\ t \in Seq(Int) /\ Len(t) = Len(u) + 1 /\ t[Len(u) + 1] = Head(o)
      /\ \A k \in 1..Len(u) : t[k] = u[k]
  <2>1. o # <<>>
    BY <1>1
  <2>2. /\ Len(o) \in Nat /\ Len(o) > 0 /\ Head(o) = o[1] /\ Head(o) \in Int
        /\ Len(u) \in Nat /\ Len(g) \in Nat
    <3>1. Len(u) \in Nat /\ Len(g) \in Nat
      OBVIOUS
    <3> QED
      BY <2>1, <3>1
  <2>3. p \in Seq(Int) /\ Len(p) = Len(o) - 1 /\ \A k \in 1..Len(p) : p[k] = o[k + 1]
    BY <2>1
  <2>4. /\ t \in Seq(Int) /\ Len(t) = Len(u) + 1 /\ t[Len(u) + 1] = Head(o)
        /\ \A k \in 1..Len(u) : t[k] = u[k]
    BY <2>2
  <2> QED
    BY <2>2, <2>3, <2>4
<1> HIDE DEF s, p, t
<1>3. PartOf(t, s, r)
  <2>1. 1 \in 1..Len(o) /\ Head(o) = s[r + Len(u) + 1]
    <3>1. 1 \in 1..Len(o)
      BY <1>2
    <3>2. o[1] = s[r + Len(u) + 1]
      BY <1>1, <3>1 DEF PartOf
    <3> QED
      BY <1>2, <3>1, <3>2
  <2>2. ASSUME NEW k \in 1..Len(t) PROVE t[k] = s[r + k]
    <3>1. CASE k \in 1..Len(u)
      BY <1>1, <1>2, <3>1 DEF PartOf
    <3>2. CASE k = Len(u) + 1
      BY <1>2, <2>1, <3>2
    <3> QED
      BY <1>2, <3>1, <3>2
  <2>3. Len(s) \in Int /\ r + Len(t) <= Len(s)
    <3>1. s \in Seq(Int)
      BY BubbleSorts, Zenon DEF s
    <3> QED
      BY <1>1, <1>2, <3>1 DEF PartOf
  <2> QED
    BY <2>2, <2>3 DEF PartOf
<1>4. PartOf(p, s, r + Len(t))
  <2>1. r + Len(t) + Len(p) <= Len(s)
    BY <1>1, <1>2 DEF PartOf
  <2>2. ASSUME NEW k \in 1..Len(p) PROVE p[k] = s[r + Len(t) + k]
    <3>1. k + 1 \in 1..Len(o) /\ r + Len(u) + (k + 1) = r + Len(t) + k
      BY <1>2
    <3>2. o[k + 1] = s[r + Len(u) + (k + 1)]
      BY <1>1, <3>1 DEF PartOf
    <3> QED
      BY <1>2, <3>1, <3>2
  <2> QED
    BY <2>1, <2>2 DEF PartOf
<1>5. r + Len(t) + Len(p) = Len(g)
  <2>1. r + Len(u) + Len(o) = Len(g)
    BY <1>1, Zenon
  <2>2. r + (Len(u) + 1) + (Len(o) - 1) = Len(g)
    BY <2>1
  <2> QED
    BY <1>2, <2>2, Zenon
<1>6. Piped(IF p = <<>> THEN "ended" ELSE "answer", p, d, t, w, r, g)
  BY <1>1, <1>3, <1>4, <1>5, Zenon DEF Piped, s
<1> QED
  BY <1>6, Zenon DEF p, t

(* The parent reads the next of the sorted numbers.                        *)
NextRead(u, r, g) == r < Len(g) /\ Head(u) = BubbleSort(g)[r + 1]

LEMMA PipedCollect ==
    ASSUME NEW c, NEW o \in Seq(Int), NEW d, NEW u \in Seq(Int), NEW w, NEW r \in Nat,
           NEW g \in Seq(Int), Piped(c, o, d, u, w, r, g), u # <<>>
    PROVE  Piped(c, o, d, Tail(u), w, r + 1, g) /\ NextRead(u, r, g)
<1> DEFINE s == BubbleSort(g)
           t == Tail(u)
<1>1. /\ c = IF o = <<>> THEN "ended" ELSE "answer"
      /\ d = <<>> /\ w = Len(g) /\ r + Len(u) + Len(o) = Len(g)
      /\ PartOf(u, s, r) /\ PartOf(o, s, r + Len(u))
  BY DEF Piped
<1>2. /\ Len(u) \in Nat /\ Len(u) > 0 /\ Head(u) = u[1] /\ Len(o) \in Nat /\ Len(g) \in Nat
      /\ t \in Seq(Int) /\ Len(t) = Len(u) - 1 /\ \A k \in 1..Len(t) : t[k] = u[k + 1]
  OBVIOUS
<1> HIDE DEF s, t
<1>3. r < Len(g) /\ Head(u) = s[r + 1]
  <2>1. 1 \in 1..Len(u)
    BY <1>2
  <2>2. u[1] = s[r + 1]
    BY <1>1, <2>1 DEF PartOf
  <2> QED
    BY <1>1, <1>2, <2>2
<1>4. PartOf(t, s, r + 1)
  <2>1. r + 1 + Len(t) <= Len(s)
    BY <1>1, <1>2 DEF PartOf
  <2>2. ASSUME NEW k \in 1..Len(t) PROVE t[k] = s[r + 1 + k]
    <3>1. k + 1 \in 1..Len(u) /\ r + (k + 1) = r + 1 + k
      BY <1>2
    <3>2. u[k + 1] = s[r + (k + 1)]
      BY <1>1, <3>1 DEF PartOf
    <3> QED
      BY <1>2, <3>1, <3>2
  <2> QED
    BY <2>1, <2>2 DEF PartOf
<1>5. r + 1 + Len(t) = r + Len(u)
  BY <1>2
<1>6. Piped(c, o, d, t, w, r + 1, g)
  BY <1>1, <1>4, <1>5 DEF Piped, s
<1> QED
  BY <1>3, <1>6 DEF s, t, NextRead

(* It puts it in the place of the first that is not replaced yet.          *)
LEMMA HeldCollect ==
    ASSUME NEW g \in Seq(Int), NEW h, NEW r \in Nat, Held(h, r, g), r < Len(g)
    PROVE  Held([h EXCEPT ![r + 1] = BubbleSort(g)[r + 1]], r + 1, g)
<1> DEFINE s == BubbleSort(g)
           e == [h EXCEPT ![r + 1] = s[r + 1]]
           n == Len(g)
<1>1. s \in Seq(Int) /\ Len(s) = n /\ n \in Nat
  <2>1. s \in Seq(Int) /\ Len(s) = n
    BY BubbleSorts, Zenon
  <2> QED
    BY <2>1
<1>2. h \in Seq(Int) /\ Len(h) = n /\ \A k \in 1..n : h[k] = IF k <= r THEN s[k] ELSE g[k]
  BY DEF Held
<1> HIDE DEF s, n
<1>3. r + 1 \in 1..n /\ s[r + 1] \in Int
  BY <1>1 DEF n
<1>4. e \in Seq(Int) /\ Len(e) = n
  BY <1>2, <1>3
<1>5. \A k \in 1..n : e[k] = IF k <= r + 1 THEN s[k] ELSE g[k]
  BY <1>1, <1>2, <1>3
<1> QED
  BY <1>4, <1>5 DEF Held, s, n

LEMMA HeldEnds ==
    ASSUME NEW g \in Seq(Int), NEW h
    PROVE  /\ Held(h, Len(g), g) => h = BubbleSort(g)
           /\ Held(g, 0, g)
<1> DEFINE s == BubbleSort(g)
<1>1. s \in Seq(Int) /\ Len(s) = Len(g)
  BY BubbleSorts, Zenon
<1> HIDE DEF s
<1>2. ASSUME Held(h, Len(g), g) PROVE h = s
  <2>1. h \in Seq(Int) /\ Len(h) = Len(s) /\ \A k \in 1..Len(h) : h[k] = s[k]
    BY <1>1, <1>2 DEF Held, s
  <2> QED
    BY <1>1, <2>1, SameNumbers
<1>3. Held(g, 0, g)
  BY DEF Held
<1> QED
  BY <1>2, <1>3 DEF s


-----------------------------------------------------------------------------
LEMMA GroupFacts ==
    ASSUME arr \in Seq(Int), NEW i \in Workers
    PROVE  /\ Group(i) \in Seq(Int) /\ Sorted(i) \in Seq(Int)
           /\ Len(Group(i)) \in Nat /\ Len(Sorted(i)) = Len(Group(i))
           /\ SortOf(Sorted(i), Group(i))
           /\ ~ Few => Len(Group(i)) >= 2
<1>1. /\ size_avg \in Nat
      /\ StartOf(i) \in Nat /\ EndOf(i) \in Nat /\ StartOf(i) <= EndOf(i) /\ EndOf(i) <= Len(arr)
      /\ Group(i) = SubSeq(arr, StartOf(i) + 1, EndOf(i))
      /\ EndOf(i) - StartOf(i) >= size_avg
  BY GroupsCut, Zenon
<1>2. Group(i) \in Seq(Int) /\ Len(Group(i)) = EndOf(i) - StartOf(i)
  BY <1>1
<1>3. Len(Group(i)) \in Nat
  BY <1>2
<1>4. ~ Few => Len(Group(i)) >= 2
  BY <1>1, <1>2 DEF Few
<1>5. /\ Sorted(i) \in Seq(Int) /\ Len(Sorted(i)) = Len(Group(i))
      /\ Ascending(Sorted(i)) /\ \A v \in Int : Count(Sorted(i), v) = Count(Group(i), v)
  <2>1. Sorted(i) = BubbleSort(Group(i))
    BY DEF Sorted
  <2>2. Group(i) \in Seq(Int)
    BY <1>2
  <2> QED
    BY <2>1, <2>2, BubbleSorts, Zenon
<1> QED
  BY <1>2, <1>3, <1>4, <1>5, Zenon DEF SortOf

LEMMA SameInput ==
    ASSUME arr' = arr
    PROVE  /\ \A i : Group(i)' = Group(i) /\ Sorted(i)' = Sorted(i)
           /\ Few' <=> Few
<1>1. size_avg' = size_avg
  BY DEF size_avg
<1>2. \A i : Group(i)' = Group(i)
  BY <1>1 DEF Group
<1>3. \A i : Sorted(i)' = Sorted(i)
  BY <1>2 DEF Sorted
<1> QED
  BY <1>1, <1>2, <1>3 DEF Few

(* With the number at hand the parent goes one on; after the last of the   *)
(* last worker it has passed all.                                          *)
LEMMA OneOn ==
    ASSUME child_id \in Workers, passed \in Nat, arr \in Seq(Int), ~ Few, arr' = arr,
           NEW a, NEW b, a # b, pc = a, passed < Len(Group(child_id)),
           IF passed + 1 < Len(Group(child_id))
           THEN passed' = passed + 1 /\ UNCHANGED <<pc, child_id>>
           ELSE passed' = 0 /\ Turn(a, b)
    PROVE  LET on(i) == IF i = child_id THEN Progress(i) + 1 ELSE Progress(i)
           IN  /\ child_id' \in Workers /\ passed' \in Nat
               /\ \A i \in Workers : i = child_id' => passed' < Len(Group(i))
               /\ \/ pc' = a /\ \A i \in Workers : Progress(i)' = on(i)
                  \/ /\ pc' = b
                     /\ \A i \in Workers : Progress(i)' = 0 /\ on(i) = Len(Group(i))
<1>1. \A i \in Workers : Len(Group(i)) \in Nat /\ Len(Group(i)) >= 2 /\ Group(i)' = Group(i)
  BY GroupFacts, SameInput
<1>2. /\ num_process \in Nat /\ child_id \in 1..num_process /\ 1 \in Workers
      /\ \A i \in Workers : i \in 1..num_process
  BY SortAssumption DEF Workers
<1>3. CASE passed + 1 < Len(Group(child_id))
  <2>1. passed' = passed + 1 /\ pc' = pc /\ child_id' = child_id
    BY <1>3
  <2>2. \A i \in Workers : i = child_id' => passed' < Len(Group(i))
    BY <1>3, <2>1
  <2>3. \A i \in Workers : Progress(i)' = IF i = child_id THEN Progress(i) + 1 ELSE Progress(i)
    BY <1>1, <1>2, <2>1 DEF Progress
  <2> QED
    BY <2>1, <2>2, <2>3
<1>4. CASE ~ (passed + 1 < Len(Group(child_id)))
  <2>1. passed' = 0 /\ Turn(a, b) /\ Len(Group(child_id)) = passed + 1
    BY <1>1, <1>4
  <2>2. CASE child_id = num_process
    <3>1. pc' = b /\ child_id' = 1
      BY <2>1, <2>2 DEF Turn
    <3>2. \A i \in Workers : Progress(i)' = 0
      BY <1>2, <2>1, <3>1 DEF Progress
    <3>3. \A i \in Workers :
            (IF i = child_id THEN Progress(i) + 1 ELSE Progress(i)) = Len(Group(i))
      BY <1>2, <2>1, <2>2 DEF Progress
    <3> QED
      BY <1>1, <1>2, <2>1, <3>1, <3>2, <3>3
  <2>3. CASE child_id # num_process
    <3>1. pc' = a /\ child_id' = child_id + 1 /\ child_id' \in Workers
      BY <1>2, <2>1, <2>3 DEF Turn, Workers
    <3>2. \A i \in Workers : Progress(i)' = IF i = child_id THEN Progress(i) + 1 ELSE Progress(i)
      BY <1>1, <1>2, <2>1, <3>1 DEF Progress
    <3> QED
      BY <1>1, <2>1, <3>1, <3>2
  <2> QED
    BY <2>2, <2>3
<1> QED
  BY <1>3, <1>4


-----------------------------------------------------------------------------
(* What each worker has, with the types.                                   *)
LEMMA PipedFacts ==
    ASSUME SortTypes, ProcessesInv, ~ Few, NEW i \in Workers
    PROVE  /\ own_vector[i] \in Seq(Int) /\ down[i] \in Seq(Int) /\ up[i] \in Seq(Int)
           /\ groups[i] \in Seq(Int) /\ Len(groups[i]) = Len(Group(i))
           /\ Group(i) \in Seq(Int) /\ Len(Group(i)) \in Nat /\ Len(Group(i)) >= 2
           /\ Progress(i) \in Nat /\ Written(i) \in Nat /\ Got(i) \in Nat
           /\ child[i] = "none" <=> Unborn(i)
           /\ pc \in {"write", "collect"} /\ i = child_id => passed < Len(Group(i))
           /\ Piped(child[i], own_vector[i], down[i], up[i], Written(i), Got(i), Group(i))
           /\ Held(groups[i], Got(i), Group(i))
<1>1. own_vector[i] \in Seq(Int) /\ down[i] \in Seq(Int) /\ up[i] \in Seq(Int)
  BY DEF SortTypes
<1>2. Group(i) \in Seq(Int) /\ Len(Group(i)) \in Nat /\ Len(Group(i)) >= 2
  BY GroupFacts DEF SortTypes
<1>3. Progress(i) \in Nat
  BY <1>2 DEF Progress, SortTypes
<1>4. Written(i) \in Nat /\ Got(i) \in Nat
  <2>1. pc \in {"fork", "write", "collect", "merge", "finished"}
    BY DEF ProcessesInv
  <2> QED
    BY <1>2, <1>3, <2>1 DEF Written, Got
<1>5. WorkerPiped(i)
  BY DEF ProcessesInv
<1>6. groups[i] \in Seq(Int) /\ Len(groups[i]) = Len(Group(i))
  BY <1>5 DEF WorkerPiped, Held
<1> QED
  BY <1>1, <1>2, <1>3, <1>4, <1>5, <1>6 DEF WorkerPiped

(* A step that leaves the parent where it is.                              *)
LEMMA PlaceKept ==
    ASSUME arr' = arr, pc' = pc, child_id' = child_id, passed' = passed, NEW i
    PROVE  /\ Unborn(i)' <=> Unborn(i)
           /\ Progress(i)' = Progress(i) /\ Written(i)' = Written(i) /\ Got(i)' = Got(i)
           /\ Copied(i)' <=> Copied(i)
           /\ Told(i)' <=> Told(i)
<1>1. Group(i)' = Group(i)
  BY SameInput
<1>2. Progress(i)' = Progress(i)
  BY <1>1 DEF Progress
<1> QED
  BY <1>1, <1>2 DEF Unborn, Written, Got, Copied, Told

(* The rest of a step of the processes: what is to be shown of a worker.   *)
LEMMA PipedNext ==
    ASSUME arr' = arr, NEW i, NEW c, NEW o, NEW d, NEW u, NEW w, NEW r, NEW h,
           child'[i] = c, own_vector'[i] = o, down'[i] = d, up'[i] = u,
           Written(i)' = w, Got(i)' = r, groups'[i] = h,
           c = "none" <=> Unborn(i)',
           pc' \in {"write", "collect"} /\ i = child_id' => passed' < Len(Group(i)),
           Piped(c, o, d, u, w, r, Group(i)), Held(h, r, Group(i))
    PROVE  WorkerPiped(i)'
<1>1. Group(i)' = Group(i)
  BY SameInput
<1>2. Piped(child[i], own_vector[i], down[i], up[i], Written(i), Got(i), Group(i))'
  BY <1>1
<1>3. Held(groups[i], Got(i), Group(i))'
  BY <1>1
<1> QED
  BY <1>1, <1>2, <1>3 DEF WorkerPiped


LEMMA ProcessesFork ==
    ASSUME SortTypes, ProcessesInv, ~ Few, mode = "processes", Fork
    PROVE  SortTypes' /\ ProcessesInv' /\ pc' # "finished"
<1> DEFINE c == child_id
<1>1. /\ pc = "fork" /\ passed = 0 /\ c \in Workers
      /\ child' = [child EXCEPT ![c] = "read"]
      /\ Turn("fork", "write")
      /\ UNCHANGED <<mode, arr, groups, sorted_arr, passed, num_child_pending, own_vector, memory>>
  BY DEF Fork, ProcessesInv, SortTypes
<1>2. /\ num_process \in Nat /\ c \in 1..num_process /\ 1 \in Workers
      /\ \A i \in Workers : i \in 1..num_process
  BY <1>1, SortAssumption DEF Workers
<1>3. child_id' \in Workers /\ pc' \in {"fork", "write"}
  BY <1>1, <1>2 DEF Turn, Workers
<1>4. SortTypes'
  BY <1>1, <1>3 DEF SortTypes, memory
<1>5. ASSUME NEW i \in Workers PROVE WorkerPiped(i)'
  <2>1. /\ own_vector[i] \in Seq(Int) /\ down[i] \in Seq(Int) /\ up[i] \in Seq(Int)
        /\ Group(i) \in Seq(Int) /\ Len(Group(i)) \in Nat /\ Len(Group(i)) >= 2
        /\ child[i] = "none" <=> Unborn(i)
        /\ Piped(child[i], own_vector[i], down[i], up[i], Written(i), Got(i), Group(i))
        /\ Held(groups[i], Got(i), Group(i))
    BY PipedFacts, Zenon
  <2>2. Written(i) = 0 /\ Got(i) = 0 /\ Got(i)' = 0
    BY <1>1, <1>3 DEF Written, Got
  <2>3. Progress(i)' = 0 \/ pc' = "fork"
    BY <1>1, <1>2 DEF Progress, Turn
  <2>4. Written(i)' = 0
    BY <1>3, <2>3 DEF Written
  <2>5. i = c => Unborn(i) /\ ~ Unborn(i)'
    BY <1>1, <1>2 DEF Unborn, Turn
  <2>6. i # c => (Unborn(i)' <=> Unborn(i))
    BY <1>1, <1>2 DEF Unborn, Turn
  <2>7. own_vector' = own_vector /\ down' = down /\ up' = up /\ groups' = groups /\ arr' = arr
    BY <1>1 DEF memory
  <2>8. pc' \in {"write", "collect"} /\ i = child_id' => passed' < Len(Group(i))
    BY <1>1, <2>1
  <2>9. CASE i = c
    <3>1. child[i] = "none" /\ child'[i] = "read"
      BY <1>1, <2>1, <2>5, <2>9 DEF SortTypes
    <3>2. Piped("read", own_vector[i], down[i], up[i], 0, 0, Group(i))
      BY <2>1, <2>2, <3>1, PipedFork
    <3> QED
      BY <2>1, <2>2, <2>4, <2>5, <2>7, <2>8, <2>9, <3>1, <3>2, PipedNext
  <2>10. CASE i # c
    <3>1. child'[i] = child[i]
      BY <1>1, <2>10 DEF SortTypes
    <3> QED
      BY <2>1, <2>2, <2>4, <2>6, <2>7, <2>8, <2>10, <3>1, PipedNext
  <2> QED
    BY <2>9, <2>10
<1> QED
  BY <1>1, <1>3, <1>4, <1>5 DEF ProcessesInv

LEMMA ProcessesWrite ==
    ASSUME SortTypes, ProcessesInv, ~ Few, mode = "processes", Write
    PROVE  SortTypes' /\ ProcessesInv' /\ pc' # "finished"
<1> DEFINE c == child_id
           x == groups[c][passed + 1]
<1>1. /\ pc = "write" /\ c \in Workers /\ passed \in Nat /\ arr \in Seq(Int)
      /\ down' = [down EXCEPT ![c] = Append(@, x)]
      /\ UNCHANGED <<mode, arr, groups, sorted_arr, num_child_pending, workers, up, shm>>
  BY DEF Write, SortTypes
<1>2. /\ passed < Len(Group(c)) /\ Len(groups[c]) = Len(Group(c)) /\ Len(Group(c)) \in Nat
      /\ Group(c) \in Seq(Int) /\ Held(groups[c], Got(c), Group(c))
  BY <1>1, PipedFacts
<1>3. IF passed + 1 < Len(Group(c)) THEN passed' = passed + 1 /\ UNCHANGED <<pc, child_id>>
      ELSE passed' = 0 /\ Turn("write", "collect")
  BY <1>2 DEF Write
<1>4. /\ child_id' \in Workers /\ passed' \in Nat
      /\ \A i \in Workers : i = child_id' => passed' < Len(Group(i))
      /\ \/ /\ pc' = "write"
            /\ \A i \in Workers :
                 Progress(i)' = IF i = c THEN Progress(i) + 1 ELSE Progress(i)
         \/ /\ pc' = "collect"
            /\ \A i \in Workers :
                 /\ Progress(i)' = 0
                 /\ (IF i = c THEN Progress(i) + 1 ELSE Progress(i)) = Len(Group(i))
  <2>1. arr' = arr /\ "write" # "collect"
    BY <1>1
  <2> QED
    BY <1>1, <1>2, <1>3, <2>1, OneOn
<1>5. x = Group(c)[passed + 1] /\ x \in Int
  <2>1. Got(c) = 0 /\ passed + 1 \in 1..Len(Group(c))
    BY <1>1, <1>2 DEF Got
  <2>2. \A k \in 1..Len(Group(c)) : groups[c][k] = Group(c)[k]
    <3>1. \A k \in 1..Len(Group(c)) : ~ (k <= 0)
      BY <1>2
    <3> QED
      BY <1>2, <2>1, <3>1 DEF Held
  <2>3. Group(c)[passed + 1] \in Int
    BY <1>2, <2>1
  <2> QED
    BY <2>1, <2>2, <2>3
<1>6. SortTypes'
  <2>1. down' \in [Workers -> Seq(Int)]
    <3> HIDE DEF x
    <3> QED
      BY <1>1, <1>5 DEF SortTypes
  <2> QED
    BY <1>1, <1>4, <2>1 DEF SortTypes, workers
<1>7. ASSUME NEW i \in Workers PROVE WorkerPiped(i)'
  <2>1. /\ own_vector[i] \in Seq(Int) /\ down[i] \in Seq(Int) /\ up[i] \in Seq(Int)
        /\ Group(i) \in Seq(Int) /\ Len(Group(i)) \in Nat
        /\ Written(i) \in Nat /\ Got(i) \in Nat
        /\ child[i] = "none" <=> Unborn(i)
        /\ Piped(child[i], own_vector[i], down[i], up[i], Written(i), Got(i), Group(i))
        /\ Held(groups[i], Got(i), Group(i))
    BY PipedFacts, Zenon
  <2>2. Got(i) = 0 /\ Got(i)' = 0 /\ Written(i) = Progress(i)
    BY <1>1, <1>4 DEF Got, Written
  <2>3. Written(i)' = IF i = c THEN Written(i) + 1 ELSE Written(i)
    <3>1. Group(i)' = Group(i)
      BY <1>1, SameInput
    <3> QED
      BY <1>4, <2>2, <3>1 DEF Written
  <2>4. ~ Unborn(i) /\ ~ Unborn(i)'
    BY <1>1, <1>4 DEF Unborn
  <2>5. child' = child /\ own_vector' = own_vector /\ up' = up /\ groups' = groups /\ arr' = arr
    BY <1>1 DEF workers
  <2>6. pc' \in {"write", "collect"} /\ i = child_id' => passed' < Len(Group(i))
    BY <1>4
  <2>7. CASE i = c
    <3>1. down'[i] = Append(down[i], x) /\ Written(i)' = Written(i) + 1
      BY <1>1, <2>3, <2>7 DEF SortTypes
    <3>2. Written(i) < Len(Group(i)) /\ x = Group(i)[Written(i) + 1]
      <4>1. c \in Int
        BY <1>1, SortAssumption DEF Workers
      <4> HIDE DEF x
      <4> QED
        BY <1>1, <1>2, <1>5, <2>2, <2>7, <4>1 DEF Progress
    <3>3. Piped(child[i], own_vector[i], Append(down[i], x),
                up[i], Written(i) + 1, Got(i), Group(i))
      <4> HIDE DEF x
      <4> QED
        BY <2>1, <2>4, <3>2, PipedWrite
    <3> QED
      BY <2>1, <2>2, <2>4, <2>5, <2>6, <3>1, <3>3, PipedNext
  <2>8. CASE i # c
    <3>1. down'[i] = down[i] /\ Written(i)' = Written(i)
      BY <1>1, <2>3, <2>8 DEF SortTypes
    <3> QED
      BY <2>1, <2>2, <2>4, <2>5, <2>6, <3>1, PipedNext
  <2> QED
    BY <2>7, <2>8
<1> QED
  BY <1>1, <1>4, <1>6, <1>7 DEF ProcessesInv


LEMMA ProcessesCollect ==
    ASSUME SortTypes, ProcessesInv, ~ Few, mode = "processes", Collect
    PROVE  SortTypes' /\ ProcessesInv' /\ pc' # "finished"
<1> DEFINE c == child_id
           x == Head(up[c])
           h == [groups[c] EXCEPT ![passed + 1] = x]
<1>1. /\ pc = "collect" /\ c \in Workers /\ passed \in Nat /\ arr \in Seq(Int)
      /\ up[c] # <<>>
      /\ groups' = [groups EXCEPT ![c] = h]
      /\ up' = [up EXCEPT ![c] = Tail(@)]
      /\ UNCHANGED <<mode, arr, sorted_arr, num_child_pending, workers, down, shm>>
  BY DEF Collect, SortTypes
<1>2. /\ passed < Len(Group(c)) /\ Len(groups[c]) = Len(Group(c)) /\ Len(Group(c)) \in Nat
      /\ Group(c) \in Seq(Int) /\ Held(groups[c], Got(c), Group(c))
      /\ own_vector[c] \in Seq(Int) /\ up[c] \in Seq(Int) /\ Got(c) \in Nat
      /\ Piped(child[c], own_vector[c], down[c], up[c], Written(c), Got(c), Group(c))
  BY <1>1, PipedFacts
<1>3. IF passed + 1 < Len(Group(c)) THEN passed' = passed + 1 /\ UNCHANGED <<pc, child_id>>
      ELSE passed' = 0 /\ Turn("collect", "merge")
  BY <1>2 DEF Collect
<1>4. /\ child_id' \in Workers /\ passed' \in Nat
      /\ \A i \in Workers : i = child_id' => passed' < Len(Group(i))
      /\ \/ /\ pc' = "collect"
            /\ \A i \in Workers :
                 Progress(i)' = IF i = c THEN Progress(i) + 1 ELSE Progress(i)
         \/ /\ pc' = "merge"
            /\ \A i \in Workers :
                 /\ Progress(i)' = 0
                 /\ (IF i = c THEN Progress(i) + 1 ELSE Progress(i)) = Len(Group(i))
  <2>1. arr' = arr /\ "collect" # "merge"
    BY <1>1
  <2> QED
    BY <1>1, <1>2, <1>3, <2>1, OneOn
<1>5. Got(c) = passed
  <2>1. c \in Int
    BY <1>1, SortAssumption DEF Workers
  <2> QED
    BY <1>1, <2>1 DEF Got, Progress
<1>6. /\ Piped(child[c], own_vector[c], down[c], Tail(up[c]), Written(c), Got(c) + 1, Group(c))
      /\ x = BubbleSort(Group(c))[Got(c) + 1]
  <2>1. up[c] # <<>> /\ up[c] \in Seq(Int) /\ own_vector[c] \in Seq(Int)
    BY <1>1, <1>2
  <2>2. Piped(child[c], own_vector[c], down[c], Tail(up[c]), Written(c), Got(c) + 1, Group(c))
    BY <1>2, <2>1, PipedCollect, Zenon
  <2>3. NextRead(up[c], Got(c), Group(c))
    BY <1>2, <2>1, PipedCollect, Zenon
  <2> QED
    BY <2>2, <2>3 DEF NextRead
<1>7. Held(h, Got(c) + 1, Group(c))
  <2>1. h = [groups[c] EXCEPT ![Got(c) + 1] = BubbleSort(Group(c))[Got(c) + 1]]
    BY <1>5, <1>6
  <2>2. Got(c) < Len(Group(c))
    BY <1>2, <1>5
  <2> HIDE DEF h
  <2> QED
    BY <1>2, <2>1, <2>2, HeldCollect, Zenon
<1> HIDE DEF h
<1>8. SortTypes'
  <2>1. groups' \in [Workers -> Seq(Int)]
    BY <1>1, <1>7 DEF SortTypes, Held
  <2>2. up' \in [Workers -> Seq(Int)]
    BY <1>1 DEF SortTypes
  <2> QED
    BY <1>1, <1>4, <2>1, <2>2 DEF SortTypes, workers
<1>9. ASSUME NEW i \in Workers PROVE WorkerPiped(i)'
  <2>1. /\ own_vector[i] \in Seq(Int) /\ down[i] \in Seq(Int) /\ up[i] \in Seq(Int)
        /\ Group(i) \in Seq(Int) /\ Len(Group(i)) \in Nat
        /\ child[i] = "none" <=> Unborn(i)
        /\ Piped(child[i], own_vector[i], down[i], up[i], Written(i), Got(i), Group(i))
        /\ Held(groups[i], Got(i), Group(i))
    BY PipedFacts, Zenon
  <2>2. Group(i)' = Group(i)
    BY <1>1, SameInput
  <2>3. Written(i)' = Written(i)
    BY <1>1, <1>4, <2>2 DEF Written
  <2>4. Got(i)' = IF i = c THEN Got(i) + 1 ELSE Got(i)
    BY <1>1, <1>4, <2>2 DEF Got
  <2>5. ~ Unborn(i) /\ ~ Unborn(i)'
    BY <1>1, <1>4 DEF Unborn
  <2>6. child' = child /\ own_vector' = own_vector /\ down' = down /\ arr' = arr
    BY <1>1 DEF workers
  <2>7. pc' \in {"write", "collect"} /\ i = child_id' => passed' < Len(Group(i))
    BY <1>4
  <2>8. CASE i = c
    <3>1. up'[i] = Tail(up[i]) /\ groups'[i] = h /\ Got(i)' = Got(i) + 1
      BY <1>1, <2>4, <2>8 DEF SortTypes
    <3> QED
      BY <1>6, <1>7, <2>1, <2>3, <2>5, <2>6, <2>7, <2>8, <3>1, PipedNext
  <2>9. CASE i # c
    <3>1. up'[i] = up[i] /\ groups'[i] = groups[i] /\ Got(i)' = Got(i)
      BY <1>1, <2>4, <2>9 DEF SortTypes
    <3> QED
      BY <2>1, <2>3, <2>5, <2>6, <2>7, <3>1, PipedNext
  <2> QED
    BY <2>8, <2>9
<1> QED
  BY <1>1, <1>4, <1>8, <1>9 DEF ProcessesInv

LEMMA ProcessesMerge ==
    ASSUME SortTypes, ProcessesInv, ~ Few, mode = "processes", MergeAll
    PROVE  SortTypes' /\ ProcessesInv' /\ SortOf(sorted_arr, arr)'
<1>1. /\ pc = "merge" /\ pc' = "finished" /\ sorted_arr' = Merge_sorted_groups(groups)
      /\ UNCHANGED <<mode, arr, groups, child_id, passed, num_child_pending, workers, memory>>
      /\ arr \in Seq(Int)
  BY DEF MergeAll, SortTypes
<1>2. SortTypes'
  BY <1>1 DEF SortTypes, workers, memory
<1>3. ASSUME NEW i \in Workers PROVE WorkerPiped(i)' /\ SortOf(groups[i], Group(i))
  <2>1. /\ Group(i) \in Seq(Int) /\ SortOf(Sorted(i), Group(i))
        /\ child[i] = "none" <=> Unborn(i)
        /\ Piped(child[i], own_vector[i], down[i], up[i], Written(i), Got(i), Group(i))
        /\ Held(groups[i], Got(i), Group(i))
    BY <1>1, GroupFacts, PipedFacts, Zenon
  <2>2. Group(i)' = Group(i)
    BY <1>1, SameInput
  <2>3. /\ Written(i)' = Written(i) /\ Got(i)' = Got(i) /\ Got(i) = Len(Group(i))
        /\ ~ Unborn(i) /\ ~ Unborn(i)'
    BY <1>1, <2>2 DEF Written, Got, Unborn
  <2>4. WorkerPiped(i)'
    BY <1>1, <2>1, <2>3, PipedNext DEF workers, memory
  <2>5. groups[i] = Sorted(i)
    BY <2>1, <2>3, HeldEnds, Zenon DEF Sorted
  <2> QED
    BY <2>1, <2>4, <2>5
<1>4. SortOf(sorted_arr, arr)'
  <2>1. SortOf(Merge_sorted_groups(groups), arr)
    BY <1>1, <1>3, GroupsMerge, Zenon
  <2> QED
    BY <1>1, <2>1
<1> QED
  BY <1>1, <1>2, <1>3, <1>4 DEF ProcessesInv

(* A worker's step. *)
LEMMA ProcessesWorker ==
    ASSUME SortTypes, ProcessesInv, ~ Few, mode = "processes", NEW i \in Workers, Worker(i)
    PROVE  SortTypes' /\ ProcessesInv' /\ pc' = pc /\ sorted_arr' = sorted_arr /\ arr' = arr
<1>1. /\ own_vector[i] \in Seq(Int) /\ down[i] \in Seq(Int) /\ up[i] \in Seq(Int)
      /\ Group(i) \in Seq(Int) /\ Len(Group(i)) \in Nat /\ Len(Group(i)) > 0 /\ Got(i) \in Nat
      /\ child[i] = "none" <=> Unborn(i)
      /\ Piped(child[i], own_vector[i], down[i], up[i], Written(i), Got(i), Group(i))
  BY PipedFacts
<1>2. child[i] \in {"none", "read", "sort", "answer", "ended"}
  BY <1>1 DEF Piped
<1> DEFINE Step(c, o, d, u) ==
               /\ c # "none" /\ child[i] # "none"
               /\ o \in Seq(Int) /\ d \in Seq(Int) /\ u \in Seq(Int)
               /\ Piped(c, o, d, u, Written(i), Got(i), Group(i))
               /\ child' = [child EXCEPT ![i] = c]
               /\ own_vector' = [own_vector EXCEPT ![i] = o]
               /\ down' = [down EXCEPT ![i] = d]
               /\ up' = [up EXCEPT ![i] = u]
               /\ UNCHANGED <<mode, arr, parent, shm>>
<1>3. ASSUME NEW c, NEW o, NEW d, NEW u, Step(c, o, d, u)
      PROVE  SortTypes' /\ ProcessesInv' /\ pc' = pc /\ sorted_arr' = sorted_arr /\ arr' = arr
  <2>1. /\ pc' = pc /\ child_id' = child_id /\ passed' = passed /\ arr' = arr /\ groups' = groups
        /\ sorted_arr' = sorted_arr /\ shm' = shm /\ mode' = mode
    BY <1>3 DEF parent
  <2>2. SortTypes'
    <3>1. /\ own_vector' \in [Workers -> Seq(Int)] /\ down' \in [Workers -> Seq(Int)]
          /\ up' \in [Workers -> Seq(Int)] /\ DOMAIN child' = Workers
      BY <1>3 DEF SortTypes
    <3> QED
      BY <2>1, <3>1 DEF SortTypes
  <2>3. ASSUME NEW j \in Workers PROVE WorkerPiped(j)'
    <3>1. /\ child[j] = "none" <=> Unborn(j)
          /\ Piped(child[j], own_vector[j], down[j], up[j], Written(j), Got(j), Group(j))
          /\ Held(groups[j], Got(j), Group(j))
          /\ pc \in {"write", "collect"} /\ j = child_id => passed < Len(Group(j))
      BY PipedFacts, Zenon
    <3>2. /\ Unborn(j)' <=> Unborn(j)
          /\ Written(j)' = Written(j) /\ Got(j)' = Got(j)
      BY <2>1, PlaceKept
    <3>3. CASE j = i
      <4>1. child'[j] = c /\ own_vector'[j] = o /\ down'[j] = d /\ up'[j] = u
        BY <1>3, <3>3 DEF SortTypes
      <4>2. Piped(c, o, d, u, Written(j), Got(j), Group(j)) /\ (c = "none" <=> Unborn(j)')
        BY <1>3, <3>1, <3>2, <3>3
      <4> QED
        BY <2>1, <3>1, <3>2, <4>1, <4>2, PipedNext
    <3>4. CASE j # i
      <4>1. /\ child'[j] = child[j] /\ own_vector'[j] = own_vector[j] /\ down'[j] = down[j]
            /\ up'[j] = up[j]
        BY <1>3, <3>4 DEF SortTypes
      <4> QED
        BY <2>1, <3>1, <3>2, <4>1, PipedNext
    <3> QED
      BY <3>3, <3>4
  <2>4. pc \in {"fork", "write", "collect", "merge", "finished"} /\ (pc = "fork" => passed = 0)
    BY DEF ProcessesInv
  <2> QED
    BY <2>1, <2>2, <2>3, <2>4 DEF ProcessesInv
<1>4. DOMAIN child = Workers /\ own_vector = [own_vector EXCEPT ![i] = own_vector[i]]
      /\ down = [down EXCEPT ![i] = down[i]] /\ up = [up EXCEPT ![i] = up[i]]
  BY DEF SortTypes
<1>5. CASE Receive(i)
  <2> DEFINE c == IF Len(own_vector[i]) + 1 = Len(Group(i)) THEN "sort" ELSE "read"
             o == Append(own_vector[i], Head(down[i]))
             d == Tail(down[i])
  <2>1. child[i] = "read" /\ down[i] # <<>>
    BY <1>5 DEF Receive
  <2>2. Piped(c, o, d, up[i], Written(i), Got(i), Group(i))
    BY <1>1, <2>1, PipedReceive, Zenon
  <2>3. o \in Seq(Int) /\ d \in Seq(Int) /\ c # "none"
    BY <1>1, <2>1
  <2>4. Step(c, o, d, up[i])
    BY <1>1, <1>4, <1>5, <2>1, <2>2, <2>3 DEF Receive
  <2> HIDE DEF c, o, d, Step
  <2> QED
    BY <1>3, <2>4
<1>6. CASE Sort(i)
  <2> DEFINE o == BubbleSort(own_vector[i])
  <2>1. child[i] = "sort"
    BY <1>6 DEF Sort
  <2>2. Piped("answer", o, down[i], up[i], Written(i), Got(i), Group(i))
    BY <1>1, <2>1, PipedSort, Zenon
  <2>3. o \in Seq(Int)
    BY <1>1, BubbleSorts, Zenon
  <2>4. Step("answer", o, down[i], up[i])
    BY <1>1, <1>4, <1>6, <2>1, <2>2, <2>3 DEF Sort, memory, parent
  <2> HIDE DEF o, Step
  <2> QED
    BY <1>3, <2>4
<1>7. CASE Answer(i)
  <2> DEFINE o == Tail(own_vector[i])
             u == Append(up[i], Head(own_vector[i]))
             c == IF o = <<>> THEN "ended" ELSE "answer"
  <2>1. child[i] = "answer"
    BY <1>7 DEF Answer
  <2>2. Piped(c, o, down[i], u, Written(i), Got(i), Group(i))
    BY <1>1, <2>1, PipedAnswer, Zenon
  <2>3. own_vector[i] # <<>>
    BY <1>1, <2>1 DEF Piped
  <2>4. o \in Seq(Int) /\ u \in Seq(Int) /\ c # "none"
    BY <1>1, <2>3
  <2>5. own_vector'[i] = o
    BY <1>7 DEF Answer, SortTypes
  <2>6. Step(c, o, down[i], u)
    BY <1>1, <1>4, <1>7, <2>1, <2>2, <2>4, <2>5 DEF Answer
  <2> HIDE DEF c, o, u, Step
  <2> QED
    BY <1>3, <2>6
<1>8. ~ Load(i) /\ ~ Store(i) /\ ~ Signal(i)
  BY <1>2 DEF Load, Store, Signal
<1> QED
  BY <1>5, <1>6, <1>7, <1>8 DEF Worker

(* What the processes do.                                                  *)
LEMMA ProcessesStep ==
    ASSUME SortTypes, ProcessesInv, ~ Few, mode = "processes", SortNext,
           pc = "finished" => SortOf(sorted_arr, arr)
    PROVE  SortTypes' /\ ProcessesInv' /\ (pc = "finished" => SortOf(sorted_arr, arr))'
<1>1. pc \in {"fork", "write", "collect", "merge", "finished"}
  BY DEF ProcessesInv
<1>2. ~ Alone /\ ~ Join /\ ~ Clear /\ ~ Copy /\ ~ Raise /\ ~ Poll
  BY <1>1 DEF Alone, Join, Clear, Copy, Raise, Poll
<1>3. CASE \E i \in Workers : Worker(i)
  <2>1. PICK i \in Workers : Worker(i)
    BY <1>3
  <2>2. SortTypes' /\ ProcessesInv' /\ pc' = pc /\ sorted_arr' = sorted_arr /\ arr' = arr
    BY <2>1, ProcessesWorker
  <2> QED
    BY <2>2
<1> QED
  BY <1>2, <1>3, ProcessesFork, ProcessesWrite, ProcessesCollect, ProcessesMerge
     DEF SortNext, Parent


-----------------------------------------------------------------------------
(* The parent's last step once all groups are sorted, threads or shared    *)
(* memory.                                                                 *)
LEMMA SortedMerge ==
    ASSUME SortTypes, MergeAll, \A i \in Workers : groups[i] = Sorted(i)
    PROVE  SortTypes' /\ SortOf(sorted_arr, arr)'
<1>1. /\ sorted_arr' = Merge_sorted_groups(groups) /\ arr \in Seq(Int)
      /\ UNCHANGED <<mode, arr, groups, child_id, passed, num_child_pending, workers, memory>>
  BY DEF MergeAll, SortTypes
<1>2. \A i \in Workers : SortOf(groups[i], Group(i))
  BY <1>1, GroupFacts, Zenon
<1>3. SortOf(Merge_sorted_groups(groups), arr)
  BY <1>1, <1>2, GroupsMerge, Zenon
<1>4. SortOf(sorted_arr, arr)'
  BY <1>1, <1>3
<1> QED
  BY <1>1, <1>4 DEF SortTypes, workers, memory

LEMMA ThreadsParent ==
    ASSUME SortTypes, ThreadsInv, mode = "threads", Fork \/ Join
    PROVE  SortTypes' /\ ThreadsInv' /\ pc' # "finished"
<1>1. /\ num_process \in Nat /\ child_id \in 1..num_process /\ child_id \in Workers
      /\ 1 \in Workers /\ \A i \in Workers : i \in 1..num_process
  BY SortAssumption DEF Workers, SortTypes
<1>2. CASE Fork
  <2>1. /\ pc = "fork" /\ child' = [child EXCEPT ![child_id] = "sort"] /\ Turn("fork", "join")
        /\ UNCHANGED <<mode, arr, groups, sorted_arr, passed,
                       num_child_pending, own_vector, memory>>
    BY <1>2 DEF Fork
  <2>2. child_id' \in Workers /\ pc' \in {"fork", "join"}
    BY <1>1, <2>1 DEF Turn, Workers
  <2>3. SortTypes'
    BY <2>1, <2>2 DEF SortTypes, memory
  <2>4. ASSUME NEW i \in Workers PROVE WorkerJoins(i)'
    <3>1. WorkerJoins(i) /\ Group(i)' = Group(i) /\ Sorted(i)' = Sorted(i)
      BY <2>1, SameInput DEF ThreadsInv
    <3>2. groups' = groups
      BY <2>1
    <3>3. pc' = "join" => ~ (i < child_id')
      BY <1>1, <2>1 DEF Turn
    <3>4. CASE i = child_id
      <4>1. child[i] = "none" /\ child'[i] = "sort"
        BY <1>1, <2>1, <3>1, <3>4 DEF SortTypes, WorkerJoins, Unborn
      <4>2. ~ Unborn(i)'
        BY <1>1, <2>1, <3>4 DEF Unborn, Turn
      <4> QED
        BY <2>2, <3>1, <3>2, <3>3, <4>1, <4>2 DEF WorkerJoins
    <3>5. CASE i # child_id
      <4>1. child'[i] = child[i]
        BY <2>1, <3>5 DEF SortTypes
      <4>2. Unborn(i)' <=> Unborn(i)
        BY <1>1, <2>1, <3>5 DEF Unborn, Turn
      <4> QED
        BY <2>2, <3>1, <3>2, <3>3, <4>1, <4>2 DEF WorkerJoins
    <3> QED
      BY <3>4, <3>5
  <2> QED
    BY <2>2, <2>3, <2>4 DEF ThreadsInv
<1>3. CASE Join
  <2>1. /\ pc = "join" /\ child[child_id] = "ended" /\ Turn("join", "merge")
        /\ UNCHANGED <<mode, arr, groups, sorted_arr, passed, num_child_pending, workers, memory>>
    BY <1>3 DEF Join
  <2>2. child_id' \in Workers /\ pc' \in {"join", "merge"}
    BY <1>1, <2>1 DEF Turn, Workers
  <2>3. SortTypes'
    BY <2>1, <2>2 DEF SortTypes, memory, workers
  <2>4. ASSUME NEW i \in Workers PROVE WorkerJoins(i)'
    <3>1. WorkerJoins(i) /\ Group(i)' = Group(i) /\ Sorted(i)' = Sorted(i)
      BY <2>1, SameInput DEF ThreadsInv
    <3>2. groups' = groups /\ child' = child
      BY <2>1 DEF workers
    <3>3. ~ Unborn(i) /\ ~ Unborn(i)'
      BY <2>1, <2>2 DEF Unborn
    <3>4. pc' = "join" /\ i < child_id' => i = child_id \/ i < child_id
      BY <1>1, <2>1 DEF Turn
    <3>5. pc' = "merge" => i = child_id \/ i < child_id
      BY <1>1, <2>1 DEF Turn
    <3>6. i = child_id \/ i < child_id => child[i] = "ended"
      BY <2>1, <3>1 DEF WorkerJoins
    <3> QED
      BY <2>2, <3>1, <3>2, <3>3, <3>4, <3>5, <3>6 DEF WorkerJoins
  <2> QED
    BY <2>2, <2>3, <2>4 DEF ThreadsInv
<1> QED
  BY <1>2, <1>3

LEMMA ThreadsWorker ==
    ASSUME SortTypes, ThreadsInv, mode = "threads", NEW j \in Workers, Worker(j)
    PROVE  SortTypes' /\ ThreadsInv' /\ pc' = pc /\ sorted_arr' = sorted_arr /\ arr' = arr
<1>1. WorkerJoins(j)
  BY DEF ThreadsInv
<1>2. Sort(j)
  BY <1>1 DEF WorkerJoins, Worker, Receive, Load, Answer, Store, Signal
<1>3. /\ child[j] = "sort"
      /\ groups' = [groups EXCEPT ![j] = BubbleSort(@)]
      /\ child' = [child EXCEPT ![j] = "ended"]
      /\ UNCHANGED <<mode, arr, sorted_arr, pc, child_id, passed, num_child_pending, own_vector,
                     memory>>
  BY <1>2 DEF Sort
<1>4. SortTypes'
  <2>1. groups[j] \in Seq(Int)
    BY DEF SortTypes
  <2>2. BubbleSort(groups[j]) \in Seq(Int)
    BY <2>1, BubbleSorts, Zenon
  <2>3. groups' \in [Workers -> Seq(Int)] /\ DOMAIN child' = Workers
    BY <1>3, <2>2 DEF SortTypes
  <2> QED
    BY <1>3, <2>3 DEF SortTypes, memory
<1>5. ASSUME NEW i \in Workers PROVE WorkerJoins(i)'
  <2>1. WorkerJoins(i) /\ Group(i)' = Group(i) /\ Sorted(i)' = Sorted(i)
    BY <1>3, SameInput DEF ThreadsInv
  <2>2. Unborn(i)' <=> Unborn(i)
    BY <1>3, PlaceKept
  <2>3. CASE i = j
    <3>1. child'[i] = "ended" /\ child[i] = "sort" /\ groups'[i] = BubbleSort(groups[i])
      BY <1>3, <2>3 DEF SortTypes
    <3>2. groups'[i] = Sorted(i)
      BY <2>1, <3>1 DEF WorkerJoins, Sorted
    <3> QED
      BY <2>1, <2>2, <3>1, <3>2 DEF WorkerJoins
  <2>4. CASE i # j
    <3>1. child'[i] = child[i] /\ groups'[i] = groups[i]
      BY <1>3, <2>4 DEF SortTypes
    <3> QED
      BY <1>3, <2>1, <2>2, <3>1 DEF WorkerJoins
  <2> QED
    BY <2>3, <2>4
<1> QED
  BY <1>3, <1>4, <1>5 DEF ThreadsInv

(* What the threads do.                                                    *)
LEMMA ThreadsStep ==
    ASSUME SortTypes, ThreadsInv, mode = "threads", SortNext,
           pc = "finished" => SortOf(sorted_arr, arr)
    PROVE  SortTypes' /\ ThreadsInv' /\ (pc = "finished" => SortOf(sorted_arr, arr))'
<1>1. pc \in {"fork", "join", "merge", "finished"}
  BY DEF ThreadsInv
<1>2. ~ Alone /\ ~ Write /\ ~ Collect /\ ~ Clear /\ ~ Copy /\ ~ Raise /\ ~ Poll
  BY <1>1 DEF Alone, Write, Collect, Clear, Copy, Raise, Poll
<1>3. CASE MergeAll
  <2>1. pc = "merge" /\ pc' = "finished" /\ child' = child /\ groups' = groups /\ arr' = arr
    BY <1>3 DEF MergeAll, workers
  <2>2. \A i \in Workers : WorkerJoins(i) /\ child[i] = "ended" /\ groups[i] = Sorted(i)
    BY <2>1 DEF ThreadsInv, WorkerJoins
  <2>3. SortTypes' /\ SortOf(sorted_arr, arr)'
    BY <1>3, <2>2, SortedMerge
  <2>4. ASSUME NEW i \in Workers PROVE WorkerJoins(i)'
    <3>1. Group(i)' = Group(i) /\ Sorted(i)' = Sorted(i)
      BY <2>1, SameInput
    <3>2. child[i] = "ended" /\ groups[i] = Sorted(i)
      BY <2>2
    <3>3. ~ Unborn(i)'
      BY <2>1 DEF Unborn
    <3> QED
      BY <2>1, <3>1, <3>2, <3>3 DEF WorkerJoins
  <2> QED
    BY <2>1, <2>3, <2>4 DEF ThreadsInv
<1>4. CASE Fork \/ Join
  BY <1>4, ThreadsParent
<1>5. CASE \E i \in Workers : Worker(i)
  <2>1. PICK i \in Workers : Worker(i)
    BY <1>5
  <2>2. SortTypes' /\ ThreadsInv' /\ pc' = pc /\ sorted_arr' = sorted_arr /\ arr' = arr
    BY <2>1, ThreadsWorker
  <2> QED
    BY <2>2
<1> QED
  BY <1>2, <1>3, <1>4, <1>5 DEF SortNext, Parent


-----------------------------------------------------------------------------
(* A step that takes no worker's sorted part leaves as many to be taken.   *)
LEMMA PendingKept ==
    ASSUME SharedInv, num_child_pending' = num_child_pending,
           \A i \in Workers : Collected(i)' <=> Collected(i)
    PROVE  num_child_pending' = Cardinality({i \in Workers : ~ Collected(i)})'
<1>1. {i \in Workers : ~ Collected(i)}' = {i \in Workers : ~ Collected(i)}
  OBVIOUS
<1> QED
  BY <1>1 DEF SharedInv

(* What is to be shown of a worker that a step leaves alone.               *)
LEMMA SharesKept ==
    ASSUME arr' = arr, NEW i, WorkerShares(i),
           child'[i] = child[i], own_vector'[i] = own_vector[i], groups'[i] = groups[i],
           shm'.data[i] = shm.data[i], shm'.go[i] = shm.go[i], shm'.done[i] = shm.done[i],
           Unborn(i)' <=> Unborn(i), Told(i)' <=> Told(i), Copied(i)' <=> Copied(i)
    PROVE  WorkerShares(i)' /\ (Collected(i)' <=> Collected(i))
<1>1. Group(i)' = Group(i) /\ Sorted(i)' = Sorted(i)
  BY SameInput
<1>2. Collected(i)' <=> Collected(i)
  BY DEF Collected
<1> QED
  BY <1>1, <1>2 DEF WorkerShares

(* The parent's places, and that its turns keep to them.                   *)
LEMMA Turned ==
    ASSUME child_id \in Workers, NEW a, NEW b, Turn(a, b)
    PROVE  /\ num_process \in Nat /\ child_id \in 1..num_process /\ child_id' \in Workers
           /\ \A i \in Workers : i \in 1..num_process
           /\ \/ pc' = a /\ child_id' = child_id + 1 /\ child_id # num_process
              \/ pc' = b /\ child_id' = 1 /\ child_id = num_process
BY SortAssumption DEF Turn, Workers

LEMMA SharedStart ==
    ASSUME SortTypes, SharedInv, mode = "shared", Fork \/ Clear
    PROVE  SortTypes' /\ SharedInv' /\ pc' # "finished"
<1> DEFINE c == child_id
<1>1. c \in Workers /\ \A i \in Workers : WorkerShares(i)
  BY DEF SortTypes, SharedInv
<1>2. CASE Fork
  <2>1. /\ pc = "fork" /\ pc' = "clear" /\ child_id' = c
        /\ child' = [child EXCEPT ![c] = "wait"]
        /\ UNCHANGED <<mode, arr, groups, sorted_arr, passed,
                       num_child_pending, own_vector, memory>>
    BY <1>2 DEF Fork
  <2>2. SortTypes'
    BY <2>1 DEF SortTypes, memory
  <2>3. ASSUME NEW i \in Workers PROVE WorkerShares(i)' /\ (Collected(i)' <=> Collected(i))
    <3>1. ~ Told(i) /\ ~ Told(i)' /\ ~ Copied(i) /\ ~ Copied(i)'
      BY <2>1 DEF Told, Copied
    <3>2. /\ own_vector' = own_vector /\ groups' = groups /\ shm' = shm /\ arr' = arr
          /\ Group(i)' = Group(i) /\ Sorted(i)' = Sorted(i)
      BY <2>1, SameInput DEF memory
    <3>3. /\ num_process \in Nat /\ c \in 1..num_process /\ i \in 1..num_process
      BY <1>1, SortAssumption DEF Workers
    <3>4. CASE i = c
      <4>1. child'[i] = "wait" /\ Unborn(i) /\ ~ Unborn(i)'
        BY <2>1, <3>3, <3>4 DEF SortTypes, Unborn
      <4>2. child[i] = "none"
        BY <1>1, <4>1 DEF WorkerShares
      <4> QED
        BY <1>1, <3>1, <3>2, <4>1, <4>2 DEF WorkerShares, Collected
    <3>5. CASE i # c
      <4>1. child'[i] = child[i] /\ (Unborn(i)' <=> Unborn(i))
        BY <2>1, <3>3, <3>5 DEF SortTypes, Unborn
      <4> QED
        BY <1>1, <3>1, <3>2, <4>1, SharesKept
    <3> QED
      BY <3>4, <3>5
  <2>4. num_child_pending' = Cardinality({i \in Workers : ~ Collected(i)})'
    BY <2>1, <2>3, PendingKept
  <2> QED
    BY <2>1, <2>2, <2>3, <2>4 DEF SharedInv
<1>3. CASE Clear
  <2>1. /\ pc = "clear" /\ Turn("fork", "copy")
        /\ shm' = [shm EXCEPT !.go[c] = 0, !.done[c] = 0]
        /\ UNCHANGED <<mode, arr, groups, sorted_arr, passed, num_child_pending, workers, down, up>>
    BY <1>3 DEF Clear
  <2>2. /\ num_process \in Nat /\ c \in 1..num_process /\ child_id' \in Workers
        /\ \A i \in Workers : i \in 1..num_process
        /\ \/ pc' = "fork" /\ child_id' = c + 1 /\ c # num_process
           \/ pc' = "copy" /\ child_id' = 1 /\ c = num_process
    BY <1>1, <2>1, Turned
  <2>3. shm.go[c] = 0 /\ shm.done[c] = 0
    <3>1. ~ Told(c) /\ ~ Unborn(c)
      BY <2>1, <2>2 DEF Told, Unborn
    <3> QED
      BY <1>1, <3>1 DEF WorkerShares
  <2>4. shm' = shm
    BY <2>1, <2>3 DEF SortTypes
  <2>5. SortTypes'
    BY <2>1, <2>2, <2>4 DEF SortTypes, workers
  <2>6. ASSUME NEW i \in Workers PROVE WorkerShares(i)' /\ (Collected(i)' <=> Collected(i))
    <3>1. ~ Told(i) /\ ~ Told(i)' /\ ~ Copied(i) /\ ~ Copied(i)'
      BY <2>1, <2>2 DEF Told, Copied
    <3>2. Unborn(i)' <=> Unborn(i)
      BY <2>1, <2>2 DEF Unborn
    <3>3. own_vector' = own_vector /\ groups' = groups /\ child' = child /\ arr' = arr
      BY <2>1 DEF workers
    <3> QED
      BY <1>1, <2>4, <3>1, <3>2, <3>3, SharesKept
  <2>7. num_child_pending' = Cardinality({i \in Workers : ~ Collected(i)})'
    BY <2>1, <2>6, PendingKept
  <2> QED
    BY <2>2, <2>5, <2>6, <2>7 DEF SharedInv
<1> QED
  BY <1>2, <1>3

LEMMA SharedGo ==
    ASSUME SortTypes, SharedInv, mode = "shared", Copy \/ Raise
    PROVE  SortTypes' /\ SharedInv' /\ pc' # "finished"
<1> DEFINE c == child_id
<1>1. c \in Workers /\ \A i \in Workers : WorkerShares(i)
  BY DEF SortTypes, SharedInv
<1>2. \A i \in Workers : shm.go[i] \in {0, 1} /\ shm.done[i] \in {0, 1}
  BY DEF SortTypes
<1>3. CASE Copy
  <2>1. /\ pc = "copy" /\ pc' = "raise" /\ child_id' = c
        /\ shm' = [shm EXCEPT !.data[c] = groups[c]]
        /\ UNCHANGED <<mode, arr, groups, sorted_arr, passed, num_child_pending, workers, down, up>>
    BY <1>3 DEF Copy
  <2>2. /\ shm'.data = [shm.data EXCEPT ![c] = groups[c]]
        /\ shm'.go = shm.go /\ shm'.done = shm.done
    BY <2>1 DEF SortTypes
  <2>3. SortTypes'
    BY <1>1, <2>1 DEF SortTypes, workers
  <2>4. ASSUME NEW i \in Workers PROVE WorkerShares(i)' /\ (Collected(i)' <=> Collected(i))
    <3>1. /\ own_vector' = own_vector /\ groups' = groups /\ child' = child /\ arr' = arr
          /\ Group(i)' = Group(i) /\ Sorted(i)' = Sorted(i)
      BY <2>1, SameInput DEF workers
    <3>2. /\ num_process \in Nat /\ c \in 1..num_process /\ i \in 1..num_process
      BY <1>1, SortAssumption DEF Workers
    <3>3. /\ Told(i)' <=> Told(i)
          /\ ~ Unborn(i) /\ ~ Unborn(i)'
      BY <2>1 DEF Told, Unborn
    <3>4. CASE i = c
      <4>1. ~ Told(i) /\ child[i] = "wait"
        <5>1. ~ Told(i)
          BY <2>1, <3>2, <3>4 DEF Told
        <5> QED
          BY <1>1, <3>3, <5>1 DEF WorkerShares
      <4>2. groups[i] = Group(i) /\ shm'.data[i] = Group(i)
        <5>1. groups[i] = Group(i)
          BY <1>1, <4>1 DEF WorkerShares, Collected
        <5> QED
          BY <2>2, <3>4, <5>1 DEF SortTypes
      <4> QED
        BY <1>1, <2>2, <3>1, <3>3, <4>1, <4>2 DEF WorkerShares, Collected
    <3>5. CASE i # c
      <4>1. shm'.data[i] = shm.data[i] /\ (Copied(i)' <=> Copied(i))
        BY <2>1, <2>2, <3>2, <3>5 DEF SortTypes, Copied
      <4> QED
        BY <1>1, <2>2, <3>1, <3>3, <4>1, SharesKept
    <3> QED
      BY <3>4, <3>5
  <2>5. num_child_pending' = Cardinality({i \in Workers : ~ Collected(i)})'
    BY <2>1, <2>4, PendingKept
  <2> QED
    BY <2>1, <2>3, <2>4, <2>5 DEF SharedInv
<1>4. CASE Raise
  <2>1. /\ pc = "raise" /\ Turn("copy", "poll")
        /\ shm' = [shm EXCEPT !.go[c] = 1]
        /\ UNCHANGED <<mode, arr, groups, sorted_arr, passed, num_child_pending, workers, down, up>>
    BY <1>4 DEF Raise
  <2>2. /\ num_process \in Nat /\ c \in 1..num_process /\ child_id' \in Workers
        /\ \A i \in Workers : i \in 1..num_process
        /\ \/ pc' = "copy" /\ child_id' = c + 1 /\ c # num_process
           \/ pc' = "poll" /\ child_id' = 1 /\ c = num_process
    BY <1>1, <2>1, Turned
  <2>3. /\ shm'.data = shm.data /\ shm'.go = [shm.go EXCEPT ![c] = 1] /\ shm'.done = shm.done
    BY <2>1 DEF SortTypes
  <2>4. SortTypes'
    BY <1>1, <2>1, <2>2 DEF SortTypes, workers
  <2>5. ASSUME NEW i \in Workers PROVE WorkerShares(i)' /\ (Collected(i)' <=> Collected(i))
    <3>1. /\ own_vector' = own_vector /\ groups' = groups /\ child' = child /\ arr' = arr
          /\ Group(i)' = Group(i) /\ Sorted(i)' = Sorted(i)
      BY <2>1, SameInput DEF workers
    <3>2. ~ Unborn(i) /\ ~ Unborn(i)' /\ (Copied(i)' <=> Copied(i))
      BY <2>1, <2>2 DEF Unborn, Copied
    <3>3. CASE i = c
      <4>1. ~ Told(i) /\ Told(i)' /\ Copied(i)
        BY <2>1, <2>2, <3>3 DEF Told, Copied
      <4>2. child[i] = "wait"
        BY <1>1, <3>2, <4>1 DEF WorkerShares
      <4>3. shm'.go[i] = 1
        BY <2>3, <3>3 DEF SortTypes
      <4> QED
        BY <1>1, <2>3, <3>1, <3>2, <4>1, <4>2, <4>3 DEF WorkerShares, Collected
    <3>4. CASE i # c
      <4>1. shm'.go[i] = shm.go[i] /\ (Told(i)' <=> Told(i))
        <5>1. shm'.go[i] = shm.go[i]
          BY <2>3, <3>4 DEF SortTypes
        <5>2. i \in 1..num_process
          BY <2>2
        <5>3. Told(i)' <=> Told(i)
          BY <2>1, <2>2, <3>4, <5>2 DEF Told
        <5> QED
          BY <5>1, <5>3
      <4> QED
        BY <1>1, <2>3, <3>1, <3>2, <4>1, SharesKept
    <3> QED
      BY <3>3, <3>4
  <2>6. num_child_pending' = Cardinality({i \in Workers : ~ Collected(i)})'
    BY <2>1, <2>5, PendingKept
  <2> QED
    BY <2>2, <2>4, <2>5, <2>6 DEF SharedInv
<1> QED
  BY <1>3, <1>4


LEMMA SharedPoll ==
    ASSUME SortTypes, SharedInv, mode = "shared", Poll
    PROVE  SortTypes' /\ SharedInv' /\ pc' # "finished"
<1> DEFINE c == child_id
           P == {i \in Workers : ~ Collected(i)}
<1>1. /\ pc = "poll" /\ c \in Workers
      /\ \A i \in Workers : WorkerShares(i) /\ ~ Unborn(i) /\ Told(i) /\ Copied(i)
      /\ UNCHANGED <<mode, arr, sorted_arr, passed, workers, down, up>>
  BY DEF Poll, SortTypes, SharedInv, Unborn, Told, Copied
<1>2. num_child_pending = Cardinality(P) /\ IsFiniteSet(P) /\ Cardinality(P) \in Nat
  <2>1. IsFiniteSet(Workers)
    <3>1. 1 \in Int /\ num_process \in Int
      BY SortAssumption
    <3> QED
      BY <3>1, FS_Interval DEF Workers
  <2>2. P \in SUBSET Workers
    OBVIOUS
  <2>3. IsFiniteSet(P)
    BY <2>1, <2>2, FS_Subset
  <2> QED
    BY <2>3, FS_CardinalityType DEF SharedInv
<1>3. /\ child_id' \in Workers
      /\ \/ num_child_pending' = 0 /\ pc' = "merge"
         \/ num_child_pending' # 0 /\ pc' = "poll"
  <2>1. CASE num_child_pending' = 0
    <3>1. 1 \in Workers
      BY SortAssumption DEF Workers
    <3> QED
      BY <2>1, <3>1 DEF Poll
  <2>2. CASE num_child_pending' # 0
    <3>1. Turn("poll", "poll")
      BY <2>2 DEF Poll
    <3> QED
      BY <1>1, <2>2, <3>1, Turned
  <2> QED
    BY <2>1, <2>2
<1>4. /\ own_vector' = own_vector /\ child' = child /\ arr' = arr
      /\ \A i \in Workers : /\ ~ Unborn(i)' /\ Told(i)' /\ Copied(i)'
                            /\ Group(i)' = Group(i) /\ Sorted(i)' = Sorted(i)
  BY <1>1, <1>3, SameInput DEF workers, Unborn, Told, Copied
<1>5. ASSUME /\ \A i \in Workers : WorkerShares(i)'
             /\ num_child_pending' = Cardinality({i \in Workers : ~ Collected(i)})'
      PROVE  SharedInv' /\ pc' # "finished"
  <2>1. CASE pc' = "merge"
    <3> DEFINE Q == {i \in Workers : ~ Collected(i)}
    <3>1. Q' = {}
      <4>1. Cardinality(Q)' = 0
        BY <1>3, <1>5, <2>1
      <4>2. Cardinality(Q') = 0
        BY <4>1
      <4>3. IsFiniteSet(Q')
        <5>1. Q' \in SUBSET Workers
          OBVIOUS
        <5>2. IsFiniteSet(Workers)
          BY SortAssumption, FS_Interval DEF Workers
        <5> HIDE DEF Q
        <5> QED
          BY <5>1, <5>2, FS_Subset
      <4> HIDE DEF Q
      <4> QED
        BY <4>2, <4>3, FS_EmptySet
    <3>2. \A i \in Workers : Collected(i)'
      BY <3>1
    <3> QED
      BY <1>5, <2>1, <3>2 DEF SharedInv
  <2>2. CASE pc' = "poll"
    BY <1>5, <2>2 DEF SharedInv
  <2> QED
    BY <1>3, <2>1, <2>2
<1>6. CASE shm.done[c] = 1
  <2>1. /\ shm' = [shm EXCEPT !.done[c] = 0]
        /\ num_child_pending' = num_child_pending - 1
        /\ groups' = [groups EXCEPT ![c] = shm.data[c]]
    BY <1>6 DEF Poll
  <2>2. /\ shm'.data = shm.data /\ shm'.go = shm.go /\ shm'.done = [shm.done EXCEPT ![c] = 0]
    BY <2>1 DEF SortTypes
  <2>3. SortTypes'
    BY <1>1, <1>3, <2>1 DEF SortTypes, workers
  <2>4. ASSUME NEW i \in Workers, i = c
        PROVE  WorkerShares(i)' /\ ~ Collected(i) /\ Collected(i)'
    <3>1. child[i] = "ended" /\ shm.data[i] = Sorted(i) /\ ~ Collected(i)
      BY <1>1, <1>6, <2>4 DEF WorkerShares, Collected
    <3>2. /\ child'[i] = "ended" /\ shm'.data[i] = Sorted(i) /\ groups'[i] = Sorted(i)
          /\ shm'.go[i] = shm.go[i] /\ shm'.done[i] = 0
      BY <1>4, <2>1, <2>2, <2>4, <3>1 DEF SortTypes
    <3>3. Collected(i)'
      BY <3>2 DEF Collected
    <3> QED
      BY <1>1, <1>4, <3>1, <3>2, <3>3 DEF WorkerShares
  <2>5. ASSUME NEW i \in Workers, i # c PROVE WorkerShares(i)' /\ (Collected(i)' <=> Collected(i))
    <3>1. shm'.done[i] = shm.done[i] /\ groups'[i] = groups[i]
      BY <1>1, <2>1, <2>2, <2>5 DEF SortTypes
    <3> QED
      BY <1>1, <1>4, <2>2, <3>1, SharesKept
  <2>6. num_child_pending' = Cardinality({i \in Workers : ~ Collected(i)})'
    <3>1. {i \in Workers : ~ Collected(i)}' = P \ {c}
      <4>1. \A i \in Workers : Collected(i)' <=> Collected(i) \/ i = c
        BY <2>4, <2>5
      <4> QED
        BY <4>1
    <3>2. c \in P
      BY <1>1, <2>4
    <3>3. Cardinality({i \in Workers : ~ Collected(i)})' = Cardinality(P \ {c})
      BY <3>1
    <3> HIDE DEF P
    <3>4. Cardinality(P \ {c}) = Cardinality(P) - 1
      BY <1>2, <3>2, FS_RemoveElement
    <3> QED
      BY <1>2, <2>1, <3>4, <3>3
  <2>7. \A i \in Workers : WorkerShares(i)'
    BY <2>4, <2>5
  <2> QED
    BY <1>5, <2>3, <2>6, <2>7
<1>7. CASE shm.done[c] # 1
  <2>1. shm' = shm /\ num_child_pending' = num_child_pending /\ groups' = groups
    BY <1>7 DEF Poll
  <2>2. SortTypes'
    BY <1>1, <1>3, <2>1 DEF SortTypes, workers
  <2>3. ASSUME NEW i \in Workers PROVE WorkerShares(i)' /\ (Collected(i)' <=> Collected(i))
    BY <1>1, <1>4, <2>1, SharesKept
  <2>4. num_child_pending' = Cardinality({i \in Workers : ~ Collected(i)})'
    BY <2>1, <2>3, PendingKept
  <2> QED
    BY <1>5, <2>2, <2>3, <2>4
<1> QED
  BY <1>6, <1>7

(* What is to be shown of a worker's own step.                             *)
LEMMA SharedNext ==
    ASSUME SortTypes, SharedInv, NEW j \in Workers,
           UNCHANGED <<mode, arr, sorted_arr, pc, child_id, passed, num_child_pending, groups>>,
           DOMAIN child' = Workers, own_vector' \in [Workers -> Seq(Int)],
           shm' \in [data : [Workers -> Seq(Int)], go : [Workers -> {0, 1}],
                     done : [Workers -> {0, 1}]],
           down' = down, up' = up,
           \A i \in Workers \ {j} :
             /\ child'[i] = child[i] /\ own_vector'[i] = own_vector[i]
             /\ shm'.data[i] = shm.data[i] /\ shm'.go[i] = shm.go[i] /\ shm'.done[i] = shm.done[i],
           shm'.go[j] = shm.go[j], ~ Collected(j), ~ Collected(j)',
           child[j] # "none" /\ child'[j] # "none",
           child'[j] \in {"none", "wait", "sort", "store", "signal", "ended"},
           Told(j),
           child'[j] # "ended" => shm'.done[j] = 0,
           child'[j] # "wait",
           child'[j] = "sort" => own_vector'[j] = Group(j),
           child'[j] = "store" => own_vector'[j] = Sorted(j),
           child'[j] \in {"signal", "ended"} => shm'.data[j] = Sorted(j)
    PROVE  SortTypes' /\ SharedInv'
<1>1. SortTypes'
  BY DEF SortTypes
<1>2. ASSUME NEW i \in Workers PROVE WorkerShares(i)' /\ (Collected(i)' <=> Collected(i))
  <2>1. WorkerShares(i)
    BY DEF SharedInv
  <2>2. /\ Unborn(i)' <=> Unborn(i)
        /\ Told(i)' <=> Told(i)
        /\ Copied(i)' <=> Copied(i)
        /\ Group(i)' = Group(i) /\ Sorted(i)' = Sorted(i)
    BY PlaceKept, SameInput
  <2>3. CASE i = j
    <3>1. ~ Collected(i) /\ ~ Collected(i)'
      BY <2>3
    <3> QED
      BY <2>1, <2>2, <2>3, <3>1 DEF WorkerShares
  <2>4. CASE i # j
    BY <2>1, <2>2, <2>4, SharesKept
  <2> QED
    BY <2>3, <2>4
<1>3. num_child_pending' = Cardinality({i \in Workers : ~ Collected(i)})'
  BY <1>2, PendingKept
<1>4. /\ pc \in {"fork", "clear", "copy", "raise", "poll", "merge", "finished"}
      /\ pc \in {"merge", "finished"} => \A i \in Workers : Collected(i)
  BY DEF SharedInv
<1> QED
  BY <1>1, <1>2, <1>3, <1>4 DEF SharedInv

LEMMA SharedWorker ==
    ASSUME SortTypes, SharedInv, mode = "shared", NEW j \in Workers, Worker(j)
    PROVE  SortTypes' /\ SharedInv' /\ pc' = pc /\ sorted_arr' = sorted_arr /\ arr' = arr
<1>1. /\ WorkerShares(j)
      /\ child[j] \in {"none", "wait", "sort", "store", "signal", "ended"}
      /\ DOMAIN child = Workers /\ own_vector[j] \in Seq(Int) /\ shm.data[j] \in Seq(Int)
      /\ own_vector \in [Workers -> Seq(Int)]
      /\ shm \in [data : [Workers -> Seq(Int)], go : [Workers -> {0, 1}],
                  done : [Workers -> {0, 1}]]
  BY DEF SharedInv, WorkerShares, SortTypes
<1>2. ~ Receive(j) /\ ~ Answer(j)
  BY <1>1 DEF Receive, Answer
<1>3. CASE Load(j)
  <2>1. /\ child[j] = "wait" /\ shm.go[j] # 0
        /\ own_vector' = [own_vector EXCEPT ![j] = shm.data[j]]
        /\ child' = [child EXCEPT ![j] = "sort"]
        /\ UNCHANGED <<mode, arr, sorted_arr, pc, child_id, passed, num_child_pending, groups>>
        /\ down' = down /\ up' = up /\ shm' = shm
    BY <1>3 DEF Load, parent, memory
  <2>2. Told(j) /\ Copied(j)
    <3>1. Told(j)
      BY <1>1, <2>1 DEF WorkerShares
    <3>2. j \in Int /\ child_id \in Int
      BY SortAssumption DEF SortTypes, Workers
    <3> QED
      BY <3>1, <3>2 DEF Told, Copied
  <2>3. shm.data[j] = Group(j) /\ shm.done[j] = 0
    BY <1>1, <2>1, <2>2 DEF WorkerShares
  <2>4. child'[j] = "sort" /\ own_vector'[j] = Group(j)
    BY <1>1, <2>1, <2>3
  <2>5. ~ Collected(j) /\ ~ Collected(j)'
    BY <2>1, <2>4 DEF Collected
  <2>6. /\ DOMAIN child' = Workers /\ own_vector' \in [Workers -> Seq(Int)]
        /\ \A i \in Workers \ {j} : child'[i] = child[i] /\ own_vector'[i] = own_vector[i]
    BY <1>1, <2>1
  <2> QED
    BY <1>1, <2>1, <2>2, <2>3, <2>4, <2>5, <2>6, SharedNext
<1>4. CASE Sort(j)
  <2>1. /\ child[j] = "sort"
        /\ own_vector' = [own_vector EXCEPT ![j] = BubbleSort(own_vector[j])]
        /\ child' = [child EXCEPT ![j] = "store"]
        /\ UNCHANGED <<mode, arr, sorted_arr, pc, child_id, passed, num_child_pending, groups>>
        /\ down' = down /\ up' = up /\ shm' = shm
    BY <1>4 DEF Sort, memory
  <2>2. Told(j) /\ own_vector[j] = Group(j) /\ shm.done[j] = 0
    BY <1>1, <2>1 DEF WorkerShares
  <2>3. BubbleSort(own_vector[j]) \in Seq(Int) /\ BubbleSort(own_vector[j]) = Sorted(j)
    BY <1>1, <2>2, BubbleSorts DEF Sorted
  <2>4. child'[j] = "store" /\ own_vector'[j] = Sorted(j)
    BY <1>1, <2>1, <2>3
  <2>5. ~ Collected(j) /\ ~ Collected(j)'
    BY <2>1, <2>4 DEF Collected
  <2>6. /\ DOMAIN child' = Workers /\ own_vector' \in [Workers -> Seq(Int)]
        /\ \A i \in Workers \ {j} : child'[i] = child[i] /\ own_vector'[i] = own_vector[i]
    BY <1>1, <2>1, <2>3
  <2> QED
    BY <1>1, <2>1, <2>2, <2>4, <2>5, <2>6, SharedNext
<1>5. CASE Store(j)
  <2>1. /\ child[j] = "store"
        /\ shm' = [shm EXCEPT !.data[j] = own_vector[j]]
        /\ child' = [child EXCEPT ![j] = "signal"]
        /\ UNCHANGED <<mode, arr, sorted_arr, pc, child_id, passed, num_child_pending, groups>>
        /\ down' = down /\ up' = up /\ own_vector' = own_vector
    BY <1>5 DEF Store, parent
  <2>2. Told(j) /\ own_vector[j] = Sorted(j) /\ shm.done[j] = 0
    BY <1>1, <2>1 DEF WorkerShares
  <2>3. /\ shm'.data = [shm.data EXCEPT ![j] = own_vector[j]]
        /\ shm'.go = shm.go /\ shm'.done = shm.done
        /\ shm' \in [data : [Workers -> Seq(Int)], go : [Workers -> {0, 1}],
                     done : [Workers -> {0, 1}]]
    BY <1>1, <2>1
  <2>4. child'[j] = "signal" /\ shm'.data[j] = Sorted(j)
    BY <1>1, <2>1, <2>2, <2>3
  <2>5. ~ Collected(j) /\ ~ Collected(j)'
    BY <2>1, <2>4 DEF Collected
  <2>6. /\ DOMAIN child' = Workers
        /\ \A i \in Workers \ {j} : child'[i] = child[i] /\ shm'.data[i] = shm.data[i]
    BY <1>1, <2>1, <2>3
  <2> QED
    BY <1>1, <2>1, <2>2, <2>3, <2>4, <2>5, <2>6, SharedNext
<1>6. CASE Signal(j)
  <2>1. /\ child[j] = "signal"
        /\ shm' = [shm EXCEPT !.done[j] = 1]
        /\ child' = [child EXCEPT ![j] = "ended"]
        /\ UNCHANGED <<mode, arr, sorted_arr, pc, child_id, passed, num_child_pending, groups>>
        /\ down' = down /\ up' = up /\ own_vector' = own_vector
    BY <1>6 DEF Signal, parent
  <2>2. Told(j) /\ shm.data[j] = Sorted(j)
    BY <1>1, <2>1 DEF WorkerShares
  <2>3. /\ shm'.done = [shm.done EXCEPT ![j] = 1]
        /\ shm'.go = shm.go /\ shm'.data = shm.data
        /\ shm' \in [data : [Workers -> Seq(Int)], go : [Workers -> {0, 1}],
                     done : [Workers -> {0, 1}]]
    BY <1>1, <2>1
  <2>4. child'[j] = "ended" /\ shm'.done[j] = 1
    BY <1>1, <2>1, <2>3
  <2>5. ~ Collected(j) /\ ~ Collected(j)'
    BY <2>1, <2>4 DEF Collected
  <2>6. /\ DOMAIN child' = Workers
        /\ \A i \in Workers \ {j} : child'[i] = child[i] /\ shm'.done[i] = shm.done[i]
    BY <1>1, <2>1, <2>3
  <2> QED
    BY <1>1, <2>1, <2>2, <2>3, <2>4, <2>5, <2>6, SharedNext
<1> QED
  BY <1>2, <1>3, <1>4, <1>5, <1>6 DEF Worker

(* What happens with shared memory.                                        *)
LEMMA SharedStep ==
    ASSUME SortTypes, SharedInv, mode = "shared", SortNext,
           pc = "finished" => SortOf(sorted_arr, arr)
    PROVE  SortTypes' /\ SharedInv' /\ (pc = "finished" => SortOf(sorted_arr, arr))'
<1>1. pc \in {"fork", "clear", "copy", "raise", "poll", "merge", "finished"}
  BY DEF SharedInv
<1>2. ~ Alone /\ ~ Write /\ ~ Collect /\ ~ Join
  BY <1>1 DEF Alone, Write, Collect, Join
<1>3. CASE MergeAll
  <2>1. /\ pc = "merge" /\ pc' = "finished"
        /\ UNCHANGED <<mode, arr, groups, child_id, passed, num_child_pending, workers, memory>>
    BY <1>3 DEF MergeAll
  <2>2. child' = child /\ groups' = groups /\ arr' = arr /\ own_vector' = own_vector /\ shm' = shm
    BY <2>1 DEF workers, memory
  <2>3. \A i \in Workers : WorkerShares(i) /\ Collected(i) /\ groups[i] = Sorted(i)
    BY <2>1 DEF SharedInv, WorkerShares
  <2>4. SortTypes' /\ SortOf(sorted_arr, arr)'
    BY <1>3, <2>3, SortedMerge
  <2>5. ASSUME NEW i \in Workers PROVE WorkerShares(i)' /\ (Collected(i)' <=> Collected(i))
    <3>1. /\ Unborn(i)' <=> Unborn(i)
          /\ Told(i)' <=> Told(i)
          /\ Copied(i)' <=> Copied(i)
      BY <2>1 DEF Unborn, Told, Copied
    <3> QED
      BY <2>2, <2>3, <3>1, SharesKept
  <2>6. num_child_pending' = Cardinality({i \in Workers : ~ Collected(i)})'
    BY <2>1, <2>5, PendingKept
  <2> QED
    BY <2>1, <2>3, <2>4, <2>5, <2>6 DEF SharedInv
<1>4. CASE \E i \in Workers : Worker(i)
  <2>1. PICK i \in Workers : Worker(i)
    BY <1>4
  <2>2. SortTypes' /\ SharedInv' /\ pc' = pc /\ sorted_arr' = sorted_arr /\ arr' = arr
    BY <2>1, SharedWorker
  <2> QED
    BY <2>2
<1>5. CASE Fork \/ Clear
  BY <1>5, SharedStart
<1>6. CASE Copy \/ Raise
  BY <1>6, SharedGo
<1>7. CASE Poll
  BY <1>7, SharedPoll
<1> QED
  BY <1>2, <1>3, <1>4, <1>5, <1>6, <1>7 DEF SortNext, Parent


-----------------------------------------------------------------------------
(* The parent alone sorts few numbers.                                     *)
LEMMA FewStep ==
    ASSUME SortTypes, Few, pc \in {"alone", "finished"}, \A i \in Workers : child[i] = "none",
           SortNext
    PROVE  /\ SortTypes' /\ pc' = "finished" /\ SortOf(sorted_arr, arr)'
           /\ \A i \in Workers : child'[i] = "none"
<1>1. \A i \in Workers : ~ Worker(i)
  BY DEF Worker, Receive, Load, Sort, Answer, Store, Signal
<1>2. Alone
  BY <1>1 DEF SortNext, Parent, Fork, Write, Collect, Join, Clear, Copy, Raise, Poll, MergeAll
<1>3. /\ sorted_arr' = BubbleSort(arr) /\ pc' = "finished" /\ arr \in Seq(Int)
      /\ UNCHANGED <<mode, arr, groups, child_id, passed, num_child_pending, workers, memory>>
  BY <1>2 DEF Alone, SortTypes
<1>4. SortOf(BubbleSort(arr), arr)
  BY <1>3, BubbleSorts, Zenon DEF SortOf
<1>5. SortOf(sorted_arr, arr)'
  BY <1>3, <1>4
<1> QED
  BY <1>3, <1>5 DEF SortTypes, workers, memory

LEMMA SortInvStep ==
    ASSUME SortInv, [SortNext]_sortVars
    PROVE  SortInv' /\ mode' = mode
<1>1. arr' = arr /\ mode' = mode
  BY DEF SortNext, Parent, Worker, sortVars, Alone, Fork, Write, Collect, Join, Clear, Copy, Raise,
         Poll, MergeAll, Receive, Load, Sort, Answer, Store, Signal
<1>2. Few' <=> Few
  BY <1>1, SameInput
<1>3. CASE UNCHANGED sortVars
  <2>1. /\ mode' = mode /\ arr' = arr /\ groups' = groups /\ sorted_arr' = sorted_arr /\ pc' = pc
        /\ child_id' = child_id /\ passed' = passed /\ num_child_pending' = num_child_pending
        /\ child' = child /\ own_vector' = own_vector /\ down' = down /\ up' = up /\ shm' = shm
    BY <1>3 DEF sortVars, parent, workers, memory
  <2>2. SortTypes'
    BY <2>1 DEF SortInv, SortTypes
  <2>3. ASSUME NEW i \in Workers
        PROVE  /\ WorkerPiped(i) => WorkerPiped(i)'
               /\ WorkerJoins(i) => WorkerJoins(i)'
               /\ WorkerShares(i) => WorkerShares(i)'
               /\ Collected(i)' <=> Collected(i)
    <3>1. /\ Unborn(i)' <=> Unborn(i)
          /\ Progress(i)' = Progress(i) /\ Written(i)' = Written(i) /\ Got(i)' = Got(i)
          /\ Copied(i)' <=> Copied(i)
          /\ Told(i)' <=> Told(i)
          /\ Group(i)' = Group(i) /\ Sorted(i)' = Sorted(i)
      BY <2>1, PlaceKept, SameInput
    <3>2. WorkerPiped(i) => WorkerPiped(i)'
      BY <2>1, <3>1, PipedNext DEF WorkerPiped
    <3>3. WorkerJoins(i) => WorkerJoins(i)'
      BY <2>1, <3>1 DEF WorkerJoins
    <3>4. Collected(i)' <=> Collected(i)
      BY <2>1 DEF Collected
    <3>5. WorkerShares(i) => WorkerShares(i)'
      BY <2>1, <3>1, <3>4, SharesKept
    <3> QED
      BY <3>2, <3>3, <3>4, <3>5
  <2>4. ProcessesInv => ProcessesInv'
    BY <2>1, <2>3 DEF ProcessesInv
  <2>5. ThreadsInv => ThreadsInv'
    BY <2>1, <2>3 DEF ThreadsInv
  <2>6. SharedInv => SharedInv'
    <3>1. {i \in Workers : ~ Collected(i)}' = {i \in Workers : ~ Collected(i)}
      BY <2>3
    <3> QED
      BY <2>1, <2>3, <3>1 DEF SharedInv
  <2> QED
    BY <1>2, <2>1, <2>2, <2>4, <2>5, <2>6 DEF SortInv
<1>4. CASE SortNext
  <2>1. CASE Few
    <3>1. SortTypes /\ pc \in {"alone", "finished"} /\ \A i \in Workers : child[i] = "none"
      BY <2>1 DEF SortInv
    <3> QED
      BY <1>1, <1>2, <1>4, <2>1, <3>1, FewStep DEF SortInv
  <2>2. CASE ~ Few
    <3>1. /\ SortTypes /\ mode \in {"processes", "threads", "shared"}
          /\ pc = "finished" => SortOf(sorted_arr, arr)
          /\ mode = "processes" => ProcessesInv
          /\ mode = "threads" => ThreadsInv
          /\ mode = "shared" => SharedInv
      BY <2>2 DEF SortInv, SortTypes
    <3>2. /\ SortTypes' /\ (pc = "finished" => SortOf(sorted_arr, arr))'
          /\ mode = "processes" => ProcessesInv'
          /\ mode = "threads" => ThreadsInv'
          /\ mode = "shared" => SharedInv'
      BY <1>4, <2>2, <3>1, ProcessesStep, ThreadsStep, SharedStep
    <3> QED
      BY <1>1, <1>2, <2>2, <3>2 DEF SortInv
  <2> QED
    BY <2>1, <2>2
<1> QED
  BY <1>1, <1>3, <1>4

LEMMA SortInitTypes ==
    ASSUME SortInit
    PROVE  SortTypes
<1>1. arr \in Seq(Int)
  <2>1. PICK n \in Lengths : arr \in [1..n -> Values]
    BY DEF SortInit
  <2>2. n \in Nat /\ arr \in [1..n -> Int]
    BY <2>1, SortAssumption
  <2> QED
    BY <2>2, NumbersAreSeq
<1>2. \A i \in Workers : Group(i) \in Seq(Int) /\ Len(Group(i)) \in Nat
  BY <1>1, GroupFacts
<1>3. groups \in [Workers -> Seq(Int)]
  BY <1>2 DEF SortInit
<1>4. NoNumbers \in [Workers -> Seq(Int)] /\ 1 \in Workers
  BY SortAssumption DEF NoNumbers, Workers
<1>5. shm \in [data : [Workers -> Seq(Int)], go : [Workers -> {0, 1}], done : [Workers -> {0, 1}]]
  <2> DEFINE zeros == [i \in Workers |-> [k \in 1..Len(Group(i)) |-> 0]]
             flags == IF Fresh THEN {AllDown} ELSE [Workers -> {0, 1}]
  <2>1. zeros \in [Workers -> Seq(Int)]
    <3>1. \A i \in Workers : [k \in 1..Len(Group(i)) |-> 0] \in Seq(Int)
      BY <1>2
    <3> QED
      BY <3>1
  <2>2. flags \subseteq [Workers -> {0, 1}]
    BY DEF AllDown
  <2>3. shm \in [data : {zeros}, go : flags, done : flags]
    BY Zenon DEF SortInit, Segments
  <2> HIDE DEF zeros, flags
  <2> QED
    BY <2>1, <2>2, <2>3
<1> QED
  BY <1>1, <1>3, <1>4, <1>5 DEF SortInit, SortTypes

LEMMA SortInvInit ==
    ASSUME SortInit, Fresh \/ mode # "shared"
    PROVE  SortInv
<1>1. SortTypes
  BY SortInitTypes
<1>2. /\ pc = (IF Few THEN "alone" ELSE "fork") /\ child_id = 1 /\ passed = 0
      /\ num_child_pending = num_process
      /\ \A i \in Workers :
           /\ child[i] = "none" /\ own_vector[i] = <<>> /\ down[i] = <<>> /\ up[i] = <<>>
           /\ groups[i] = Group(i)
  BY DEF SortInit, Few, NoNumbers
<1>3. \A i \in Workers : Group(i) \in Seq(Int)
  BY <1>1, GroupFacts DEF SortTypes
<1>4. CASE Few
  BY <1>1, <1>2, <1>4 DEF SortInv
<1>5. CASE ~ Few
  <2>1. pc = "fork"
    BY <1>2, <1>5
  <2>2. \A i \in Workers : Unborn(i) /\ ~ Told(i) /\ ~ Copied(i) /\ Written(i) = 0 /\ Got(i) = 0
    BY <1>2, <2>1, SortAssumption DEF Workers, Unborn, Told, Copied, Written, Got
  <2>3. ProcessesInv
    <3>1. ASSUME NEW i \in Workers PROVE WorkerPiped(i)
      <4>1. Piped(child[i], own_vector[i], down[i], up[i], Written(i), Got(i), Group(i))
        BY <1>2, <2>2 DEF Piped
      <4>2. Held(groups[i], Got(i), Group(i))
        BY <1>2, <1>3, <2>2, HeldEnds
      <4> QED
        BY <1>2, <2>1, <2>2, <4>1, <4>2 DEF WorkerPiped
    <3> QED
      BY <1>2, <2>1, <3>1 DEF ProcessesInv
  <2>4. ThreadsInv
    BY <1>2, <2>1, <2>2 DEF ThreadsInv, WorkerJoins
  <2>5. ASSUME mode = "shared" PROVE SharedInv
    <3>1. \A i \in Workers : shm.go[i] = 0 /\ shm.done[i] = 0
      BY <2>5 DEF SortInit, Segments, AllDown
    <3>2. \A i \in Workers : ~ Collected(i)
      BY <1>2 DEF Collected
    <3>3. {i \in Workers : ~ Collected(i)} = 1..num_process
      BY <3>2 DEF Workers
    <3>4. Cardinality(1..num_process) = num_process
      BY SortAssumption, FS_Interval
    <3> QED
      BY <1>2, <2>1, <2>2, <3>1, <3>2, <3>3, <3>4 DEF SharedInv, WorkerShares
  <2> QED
    BY <1>1, <1>5, <2>1, <2>3, <2>4, <2>5 DEF SortInv
<1> QED
  BY <1>4, <1>5

LEMMA SortInvSorts ==
    ASSUME SortInv
    PROVE  SortedInput
<1>1. Sortable \subseteq Int
  BY SortAssumption DEF Sortable
<1> QED
  BY <1>1 DEF SortInv, SortedInput, SortOf, Permutation

(* With processes and with threads whatever a segment of memory held, and  *)
(* with shared memory if there was no segment of an earlier run, what is   *)
(* printed is the input in ascending order, every number as often as it    *)
(* was given: for any numbers, of any length, any number of workers and    *)
(* pipes of any size, however the workers and the parent interleave.       *)
THEOREM Sorts == SortSpec => [](Fresh \/ mode # "shared" => SortedInput)
<1> DEFINE Safe == Fresh \/ mode # "shared"
           J == Safe => SortInv
<1>1. SortInit => J
  BY SortInvInit
<1>2. J /\ [SortNext]_sortVars => J'
  <2>1. [SortNext]_sortVars => mode' = mode
    BY DEF SortNext, Parent, Worker, sortVars, Alone, Fork, Write, Collect, Join, Clear, Copy,
           Raise, Poll, MergeAll, Receive, Load, Sort, Answer, Store, Signal
  <2> QED
    BY <2>1, SortInvStep
<1>3. J => (Safe => SortedInput)
  BY SortInvSorts
<1> QED
  BY <1>1, <1>2, <1>3, PTL DEF SortSpec

(* The program is right in each of its three ways of working when no       *)
(* segment is left behind.                                                 *)
THEOREM SortsFresh ==
    ASSUME Fresh
    PROVE  SortSpec => []SortedInput
<1>1. SortInit => SortInv
  BY SortInvInit
<1>2. SortInv /\ [SortNext]_sortVars => SortInv'
  BY SortInvStep
<1>3. SortInv => SortedInput
  BY SortInvSorts
<1> QED
  BY <1>1, <1>2, <1>3, PTL DEF SortSpec

=============================================================================
