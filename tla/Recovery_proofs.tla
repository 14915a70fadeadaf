-------------------------- MODULE Recovery_proofs --------------------------
(***************************************************************************)
(* Proofs about Recovery, for every number of groups, of servers in them,  *)
(* of files, writes and deaths, whether running servers may be suspected   *)
(* or not.  Home is the first group, whose primary the master names to     *)
(* every server that asks.                                                 *)
(***************************************************************************)
EXTENDS Recovery, Failover_proofs, SequenceTheorems, WellFoundedInduction

ServersOf(w) == req[w].servers

Home    == ServersIn(1)
Ours(w) == req[w].group = 1

(* A write is for servers of its group, and the position of its thread is  *)
(* one of their list.                                                      *)
Placed(w) ==
    /\ Len(ServersOf(w)) \in 1..GroupSize
    /\ \A j \in 1..Len(ServersOf(w)) : ServersOf(w)[j] \in ServersIn(req[w].group)
    /\ handler[w].step = "forward" => handler[w].at \in 2..(Len(ServersOf(w)) + 1)
    /\ handler[w].step \in {"log", "apply"} => handler[w].at \in 1..Len(ServersOf(w))

(* The master waits while the thread of its primary works. *)
Attended(w) ==
    /\ rpc[w] = "calling" => handler[w].step # "off"
    /\ handler[w].step \in {"forward", "replied"} => rpc[w] = "calling"
    /\ handler[w].step \in {"log", "apply"} /\ handler[w].at = 1 => rpc[w] = "calling"

(* The positions at which a write is still to be logged, and the servers.  *)
ToCome(w, j) ==
    \/ handler[w].step = "forward" /\ (j >= handler[w].at \/ j = 1)
    \/ handler[w].step = "log" /\ (j = 1 \/ (handler[w].at # 1 /\ j >= handler[w].at))
    \/ handler[w].step = "apply" /\ handler[w].at # 1 /\ (j = 1 \/ j > handler[w].at)

Pending(s, w) == \E j \in 1..Len(ServersOf(w)) : ServersOf(w)[j] = s /\ ToCome(w, j)

(* Between the question for the primary and the end of the replay.         *)
Catches(s) == recovery[s] \in {"log", "clear", "replay"}

(* A server that is down, or has not yet asked for the primary. *)
Away(s) == ~ Runs(s) /\ ~ Catches(s)

InQueue(s, w) == \E e \in requestQueue[s] : e.write = w

(* What a server knows of a write that is done. *)
Knows(s, w) ==
    /\ Runs(s) => Logged(s, w)
    /\ recovery[s] = "clear" => InQueue(s, w)
    /\ recovery[s] = "replay" => InQueue(s, w) \/ Logged(s, w)

Window == 1 \in missed \/ Active(1) = {} \/ CatchingUp(1) = {}

Reached(w) ==
    Ours(w) /\ rpc[w] = "calling" => \A s \in Home : Logged(s, w) \/ Pending(s, w) \/ Away(s)

Learned(w) == Ours(w) /\ Acked(w) => \A s \in Home : Knows(s, w)

Regular == 1 \notin missed \cup alone \cup skipped

Inv ==
    /\ FailoverInv
    /\ ProcessesTypeOK
    /\ WritesTypeOK
    /\ \A w \in Writes : Placed(w) /\ Attended(w)
    /\ Window
    /\ Regular => \A w \in Writes : Reached(w) /\ Learned(w)

-----------------------------------------------------------------------------
LEMMA Constants ==
    /\ GroupSize \in Nat /\ GroupSize > 1
    /\ 1 \in Groups
    /\ NoFile \notin Seq(Requests)
BY GroupsTypes, RecoveryAssumption DEF Requests

(* The deque of a group is never empty, so it has a primary, and holds     *)
(* servers of the group.                                                   *)
LEMMA Deque ==
    ASSUME FailoverInv, NEW g \in Groups
    PROVE  /\ serverGroup[g] \in Seq(Servers)
           /\ Len(serverGroup[g]) \in 1..GroupSize
           /\ \A j \in 1..Len(serverGroup[g]) : serverGroup[g][j] \in ServersIn(g)
           /\ Primary(g) \in ServersIn(g)
           /\ Primary(g) = serverGroup[g][1]
<1>1. GroupSize \in Nat /\ GroupSize > 1
  BY Constants
<1>2. serverGroup[g] \in Seq(Servers) /\ oldPrimary \in Servers
  BY DEF FailoverInv, Types
<1>3. Rotation(Members(g), g)
  BY DEF FailoverInv, Rotations
<1>4. /\ Len(Members(g)) = GroupSize
      /\ \A i \in 1..GroupSize : Members(g)[i] \in {g} \X (1..GroupSize)
  BY <1>3 DEF Rotation
<1>5. /\ Len(serverGroup[g]) \in 1..GroupSize
      /\ \A j \in 1..Len(serverGroup[g]) : serverGroup[g][j] = Members(g)[j]
  BY <1>1, <1>2, <1>4 DEF Members
<1>6. \A j \in 1..Len(serverGroup[g]) : serverGroup[g][j] \in ServersIn(g)
  <2> TAKE j \in 1..Len(serverGroup[g])
  <2>1. serverGroup[g][j] \in Servers
    BY <1>2
  <2>2. j \in 1..GroupSize
    BY <1>1, <1>5
  <2>3. serverGroup[g][j] \in {g} \X (1..GroupSize)
    BY <1>4, <1>5, <2>2
  <2>4. serverGroup[g][j][1] = g
    BY <2>3
  <2> QED
    BY <2>1, <2>4 DEF ServersIn, Group
<1>7. 1 \in 1..Len(serverGroup[g]) /\ Primary(g) = serverGroup[g][1]
  BY <1>1, <1>2, <1>5 DEF Primary
<1> QED
  BY <1>2, <1>5, <1>6, <1>7

(* A set of numbers has a smallest one, and so has the set of gathered     *)
(* requests a first one.                                                   *)
LEMMA SmallestExists ==
    ASSUME NEW T \in SUBSET Nat, T # {}
    PROVE  \E x \in T : \A y \in T : x <= y
<1>1. PICK x \in T : \A y \in T : ~ (<<y, x>> \in OpToRel(<, Nat))
  <2>1. \E x \in T : \A y \in T : ~ (<<y, x>> \in OpToRel(<, Nat))
    BY NatLessThanWellFounded, WFMin, Zenon
  <2> QED
    BY <2>1, Zenon
<1>2. \A y \in T : ~ (y < x)
  BY <1>1, Zenon DEF OpToRel
<1> QED
  BY <1>2

LEMMA SmallestQueued ==
    ASSUME ProcessesTypeOK, NEW s \in Servers, requestQueue[s] # {}
    PROVE  \E e \in requestQueue[s] : \A d \in requestQueue[s] : e.seqNum <= d.seqNum
<1> DEFINE T == {e.seqNum : e \in requestQueue[s]}
<1>1. requestQueue[s] \subseteq Requests
  BY DEF ProcessesTypeOK
<1>2. T \subseteq Nat /\ T # {}
  BY <1>1 DEF Requests
<1>3. PICK x \in T : \A y \in T : x <= y
  BY <1>2, SmallestExists
<1>4. PICK e \in requestQueue[s] : e.seqNum = x
  OBVIOUS
<1> QED
  BY <1>3, <1>4

LEMMA FirstExists ==
    ASSUME ProcessesTypeOK, NEW s \in Servers, requestQueue[s] # {}
    PROVE  FirstRequest(s) \in requestQueue[s]
BY SmallestQueued DEF FirstRequest

LEMMA LogTyped ==
    ASSUME ProcessesTypeOK, NEW s \in Servers
    PROVE  LogOf(s) \in Seq(Requests) /\ Entries(s) \subseteq Requests
<1>1. LogOf(s) \in Seq(Requests)
  BY DEF ProcessesTypeOK, LogOf
<1>2. \A i \in 1..Len(LogOf(s)) : LogOf(s)[i] \in Requests
  BY <1>1, ElementOfSeq
<1> QED
  BY <1>1, <1>2 DEF Entries, ToSet

(* Appending keeps what has been logged and adds the entry. *)
LEMMA LoggedAppended ==
    ASSUME ProcessesTypeOK, NEW s \in Servers, NEW e \in Requests
    PROVE  /\ Appended(s, e) \in Seq(Requests)
           /\ Appended(s, e) # NoFile
           /\ ToSet(Appended(s, e)) = Entries(s) \cup {e}
<1>1. LogOf(s) \in Seq(Requests)
  BY LogTyped
<1> DEFINE q == LogOf(s)
           r == Append(q, e)
<1>2. /\ r \in Seq(Requests) /\ Len(r) = Len(q) + 1 /\ Len(q) \in Nat
      /\ \A i \in 1..Len(q) : r[i] = q[i]
      /\ r[Len(q) + 1] = e
  BY <1>1
<1>3. ToSet(r) = ToSet(q) \cup {e}
  <2> HIDE DEF q, r
  <2>1. DOMAIN r = 1..(Len(q) + 1) /\ DOMAIN q = 1..Len(q)
    BY <1>1, <1>2 DEF q
  <2> QED
    BY <1>2, <2>1 DEF ToSet
<1> QED
  BY <1>2, <1>3, Constants DEF Appended, Entries

(* What there is in a log that has just been written. *)
LEMMA NewEntries ==
    ASSUME NEW s \in Servers, NEW q, log'[s] = q, q # NoFile
    PROVE  Entries(s)' = ToSet(q)
BY DEF Entries, LogOf

(* A log that grows loses nothing. *)
Grows == \A s \in Servers, w \in Nat : Logged(s, w) => Logged(s, w)'

(* What is known of a request. *)
LEMMA RequestTyped ==
    ASSUME WritesTypeOK, NEW w \in Writes
    PROVE  /\ ServersOf(w) \in Seq(Servers)
           /\ Len(ServersOf(w)) \in Nat
           /\ \A j \in 1..Len(ServersOf(w)) : ServersOf(w)[j] \in Servers
           /\ w \in Nat
           /\ req[w].file \in Files
           /\ req[w].group \in Groups
           /\ req[w].seqNum \in Nat
           /\ handler[w] \in Handlers
<1> DEFINE R == [file : Files, type : WriteTypes, group : Groups,
                 servers : Seq(Servers), seqNum : Nat]
<1>1. req[w] \in R
  <2>1. req \in Seq(R) /\ w \in 1..Len(req)
    BY DEF WritesTypeOK, Writes
  <2> HIDE DEF R
  <2>2. req[w] \in R
    BY <2>1, ElementOfSeq
  <2> QED
    BY <2>2 DEF R
<1>2. ServersOf(w) \in Seq(Servers)
  BY <1>1 DEF ServersOf
<1>3. Len(req) \in Nat
  BY DEF WritesTypeOK
<1>4. req[w].file \in Files /\ req[w].group \in Groups /\ req[w].seqNum \in Nat
  BY <1>1
<1>5. handler[w] \in Handlers
  BY DEF WritesTypeOK
<1>6. w \in Nat
  BY <1>3 DEF Writes
<1> HIDE DEF R
<1>7. /\ Len(ServersOf(w)) \in Nat
      /\ \A j \in 1..Len(ServersOf(w)) : ServersOf(w)[j] \in Servers
  BY <1>2, ElementOfSeq
<1> QED
  BY <1>2, <1>4, <1>5, <1>6, <1>7

(* The entry a write leaves is of that write. *)
LEMMA EntryTyped ==
    ASSUME WritesTypeOK, NEW w \in Writes
    PROVE  /\ Entry(w) \in Requests
           /\ Entry(w).write = w /\ Entry(w).seqNum = req[w].seqNum /\ Entry(w).replicas = {}
<1>1. req[w].seqNum \in Nat /\ w \in Nat
  BY RequestTyped
<1> QED
  BY <1>1 DEF Entry, Requests

LEMMA AppendGrows ==
    ASSUME ProcessesTypeOK, NEW by \in SUBSET Servers, NEW e \in Requests,
           log' = [t \in Servers |-> IF t \in by THEN Appended(t, e) ELSE log[t]]
    PROVE  /\ log' \in [Servers -> Seq(Requests) \cup {NoFile}]
           /\ Grows
           /\ \A s \in by : Logged(s, e.write)'
<1>1. ASSUME NEW s \in Servers
      PROVE  /\ log'[s] \in Seq(Requests) \cup {NoFile}
             /\ Entries(s) \subseteq Entries(s)'
             /\ s \in by => e \in Entries(s)'
  <2>1. CASE s \in by
    <3>1. log'[s] = Appended(s, e)
      BY <2>1
    <3>2. Entries(s)' = Entries(s) \cup {e}
      BY <3>1, LoggedAppended, NewEntries
    <3> QED
      BY <3>1, <3>2, LoggedAppended
  <2>2. CASE s \notin by
    <3>1. log'[s] = log[s]
      BY <2>2
    <3> QED
      BY <2>2, <3>1 DEF Entries, LogOf, ProcessesTypeOK
  <2> QED
    BY <2>1, <2>2
<1>2. log' \in [Servers -> Seq(Requests) \cup {NoFile}]
  BY <1>1
<1>3. Grows
  BY <1>1 DEF Grows, Logged
<1> QED
  BY <1>1, <1>2, <1>3 DEF Logged

(* A thread that is put somewhere else: its own place and the others'.     *)
LEMMA ThreadMoves ==
    ASSUME WritesTypeOK, NEW w \in Writes, NEW h \in Handlers,
           handler' = [handler EXCEPT ![w] = h], req' = req
    PROVE  /\ handler' \in [Writes -> Handlers]
           /\ Writes' = Writes
           /\ handler'[w] = h
           /\ \A v \in Writes : v # w => handler'[v] = handler[v]
BY DEF WritesTypeOK, Writes

MovedTo(moved, w, step, k) ==
    \E h \in Handlers : moved = [handler EXCEPT ![w] = h] /\ h.step = step /\ h.at = k

LEMMA AtPlace ==
    ASSUME WritesTypeOK, NEW w \in Writes,
           NEW step \in {"forward", "log", "apply"}, NEW k \in 1..(GroupSize + 1)
    PROVE  MovedTo(At(w, step, k), w, step, k)
<1> DEFINE h == [step |-> step, at |-> k, result |-> handler[w].result]
<1>1. handler[w].result \in BOOLEAN
  BY DEF WritesTypeOK, Handlers
<1>2. h \in Handlers
  BY <1>1 DEF Handlers
<1>3. At(w, step, k) = [handler EXCEPT ![w] = h]
  BY DEF At, WritesTypeOK
<1> QED
  BY <1>2, <1>3 DEF MovedTo

LEMMA OffTyped == Off \in Handlers
BY Constants DEF Off, Handlers

(* A write that has been requested stays what it is.                       *)
LEMMA SameRequests ==
    ASSUME UNCHANGED req
    PROVE  \A w : /\ ServersOf(w)' = ServersOf(w) /\ Ours(w)' = Ours(w)
                  /\ (\A j \in 1..Len(ServersOf(w)) : ServersOf(w)[j] \in ServersIn(req[w].group))'
                     <=> \A j \in 1..Len(ServersOf(w)) : ServersOf(w)[j] \in ServersIn(req[w].group)
BY DEF ServersOf, Ours, ServersIn

(* A step of one thread that stays where it should, and that changes no    *)
(* process, keeps what is known of all the writes but its own.             *)
LEMMA ThreadStepInv ==
    ASSUME Inv, NEW w \in Writes, NEW h \in Handlers,
           handler' = [handler EXCEPT ![w] = h],
           UNCHANGED <<failoverVars, req, historyVars, lockKept, recovery, primary, requestQueue>>,
           ProcessesTypeOK', metadataMap' \in [Files -> Groups \cup {NotStored}],
           UNCHANGED seqNumMap, rpc' \in [Writes -> {"calling", "ok", "failed"}],
           \A v \in Writes : v # w => rpc'[v] = rpc[v],
           handler[w].step # "off",
           Grows,
           Placed(w)', Attended(w)',
           Regular /\ Ours(w) => Reached(w)' /\ Learned(w)'
    PROVE  Inv'
<1>1. /\ handler' \in [Writes -> Handlers] /\ Writes' = Writes /\ handler'[w] = h
      /\ \A v \in Writes : v # w => handler'[v] = handler[v]
  BY ThreadMoves DEF Inv
<1>2. FailoverInv'
  <2>1. [FailoverNext]_failoverVars
    OBVIOUS
  <2> QED
    BY <2>1, FailoverStepInv DEF Inv
<1>3. WritesTypeOK'
  BY <1>1 DEF Inv, WritesTypeOK, historyVars
<1>4. /\ \A s \in Servers : Runs(s)' = Runs(s) /\ Away(s)' = Away(s)
      /\ CatchingUp(1)' = CatchingUp(1)
      /\ Regular' = Regular /\ missed' = missed
      /\ \A v \in Writes : Ours(v)' = Ours(v)
  BY DEF Runs, Away, Catches, CatchingUp, Regular, Ours, failoverVars, historyVars
<1>5. \A v \in Writes' : Placed(v)' /\ Attended(v)'
  <2> SUFFICES ASSUME NEW v \in Writes, v # w PROVE Placed(v)' /\ Attended(v)'
    BY <1>1
  <2>1. handler'[v] = handler[v] /\ rpc'[v] = rpc[v] /\ req'[v] = req[v]
    BY <1>1
  <2> QED
    BY <2>1 DEF Inv, Placed, Attended, ServersOf, ServersIn
<1>6. Window'
  <2>1. Active(1)' \subseteq Active(1)
    BY <1>1 DEF Active, WritesOf
  <2> QED
    BY <1>4, <2>1 DEF Inv, Window
<1>7. ASSUME Regular, NEW v \in Writes PROVE Reached(v)' /\ Learned(v)'
  <2>1. CASE v = w
    <3>1. ~ Ours(w) => Reached(w)' /\ Learned(w)'
      BY <1>4 DEF Reached, Learned
    <3> QED
      BY <1>7, <2>1, <3>1
  <2>2. CASE v # w
    <3>1. handler'[v] = handler[v] /\ rpc'[v] = rpc[v] /\ req'[v] = req[v] /\ v \in Nat
      BY <1>1, <2>2, RequestTyped DEF Inv
    <3>2. Reached(v) /\ Learned(v)
      BY <1>7 DEF Inv
    <3>a. Home' = Home /\ Home \subseteq Servers
      BY DEF Home, ServersIn
    <3>3. \A s \in Servers : Pending(s, v)' = Pending(s, v)
      BY <3>1 DEF Pending, ToCome, ServersOf
    <3>4. \A s \in Servers : Logged(s, v) => Logged(s, v)'
      BY <3>1 DEF Grows
    <3>5. Reached(v)'
      BY <1>4, <3>1, <3>2, <3>a, <3>3, <3>4 DEF Reached, Ours
    <3>6. Learned(v)'
      BY <1>4, <3>1, <3>2, <3>a, <3>4 DEF Learned, Ours, Knows, Acked, InQueue
    <3> QED
      BY <3>5, <3>6
  <2> QED
    BY <2>1, <2>2
<1> QED
  BY <1>1, <1>2, <1>3, <1>4, <1>5, <1>6, <1>7 DEF Inv

(* A function on 1..n is a sequence, and appending to it extends it.       *)
Extended(r, q, n, x, S) ==
    /\ r \in [1..(n + 1) -> S]
    /\ \A i \in 1..n : r[i] = q[i]
    /\ r[n + 1] = x

LEMMA FunctionAppended ==
    ASSUME NEW S, NEW n \in Nat, NEW q \in [1..n -> S], NEW x \in S
    PROVE  Extended(Append(q, x), q, n, x, S)
<1>1. q \in Seq(S) /\ Len(q) = n
  OBVIOUS
<1> DEFINE r == Append(q, x)
<1>2. /\ r \in Seq(S) /\ Len(r) = n + 1
      /\ \A i \in 1..n : r[i] = q[i]
      /\ r[n + 1] = x
  BY <1>1
<1> HIDE DEF r
<1>3. r = [i \in 1..(n + 1) |-> r[i]] /\ \A i \in 1..(n + 1) : r[i] \in S
  BY <1>2
<1>4. r \in [1..(n + 1) -> S]
  BY <1>3
<1> QED
  BY <1>2, <1>4 DEF r, Extended

-----------------------------------------------------------------------------
LEMMA RecoveryInitInv ==
    ASSUME Init
    PROVE  Inv
<1>1. FailoverInv
  BY InitInv DEF Init
<1>2. ProcessesTypeOK
  <2>1. Empty \in [Files -> Nat]
    BY DEF Empty, Absent
  <2>2. <<>> \in Seq(Requests)
    OBVIOUS
  <2>3. \A s \in Servers : server[s] = "RUNNING"
    BY DEF Init, FailoverInit
  <2> QED
    BY <2>1, <2>2, <2>3 DEF Init, ProcessesTypeOK, Stages
<1>3. Writes = {}
  BY DEF Init, Writes
<1>4. WritesTypeOK
  <2>1. /\ <<>> \in Seq([file : Files, type : WriteTypes, group : Groups,
                          servers : Seq(Servers), seqNum : Nat])
        /\ <<>> \in [{} -> {"calling", "ok", "failed"}]
        /\ <<>> \in [{} -> Handlers]
    OBVIOUS
  <2>2. req = <<>> /\ rpc = <<>> /\ handler = <<>>
    BY DEF Init
  <2>3. /\ overlap \cup missed \cup alone \cup skipped \subseteq Groups
        /\ metadataMap \in [Files -> Groups \cup {NotStored}] /\ seqNumMap \in [Groups -> Nat]
    BY DEF Init
  <2> QED
    BY <1>3, <2>1, <2>2, <2>3, Zenon DEF WritesTypeOK
<1>5. Window
  BY <1>3 DEF Window, Active, WritesOf
<1> QED
  BY <1>1, <1>2, <1>3, <1>4, <1>5 DEF Inv

(* A new write is sent to every server of its group that runs, and none    *)
(* there is catching up.                                                   *)
LEMMA RequestWriteInv ==
    ASSUME Inv, NEW g \in Groups, NEW f \in Files, NEW type \in WriteTypes,
           RequestWrite(g, f, type)
    PROVE  Inv'
<1>0. Len(req) \in Nat
  BY DEF Inv, WritesTypeOK
<1>a. PICK m \in Nat : m = Len(req)
  BY <1>0
<1>b. PICK n \in Nat : n = m + 1
  OBVIOUS
<1> DEFINE r == [file |-> f, type |-> type, group |-> g,
                 servers |-> serverGroup[g], seqNum |-> seqNumMap[g]]
           R == [file : Files, type : WriteTypes, group : Groups,
                 servers : Seq(Servers), seqNum : Nat]
<1>1. /\ serverGroup[g] \in Seq(Servers)
      /\ Len(serverGroup[g]) \in 1..GroupSize
  BY Deque DEF Inv
<1>c. seqNumMap \in [Groups -> Nat]
  BY DEF Inv, WritesTypeOK
<1>2. r \in R
  BY <1>1, <1>c
<1>3. req \in Seq(R) /\ Len(req) \in Nat
  BY DEF Inv, WritesTypeOK
<1>4. /\ req' \in Seq(R) /\ Len(req') = n /\ req'[n] = r
      /\ \A v \in 1..Len(req) : req'[v] = req[v]
  <2>1. req' = Append(req, r)
    BY DEF RequestWrite
  <2> HIDE DEF r, R
  <2> QED
    BY <1>2, <1>3, <1>a, <1>b, <2>1
<1>5. Writes' = Writes \cup {n} /\ n \notin Writes /\ n \in Nat
  BY <1>3, <1>4, <1>a, <1>b DEF Writes
<1> HIDE DEF R
<1>6. /\ FailoverInv' /\ ProcessesTypeOK'
      /\ \A s \in Servers : Runs(s)' = Runs(s) /\ Away(s)' = Away(s)
      /\ CatchingUp(1)' = CatchingUp(1) /\ Home' = Home /\ Home \subseteq Servers
  <2>1. [FailoverNext]_failoverVars
    BY DEF RequestWrite
  <2>2. FailoverInv'
    BY <2>1, FailoverStepInv DEF Inv
  <2>3. ProcessesTypeOK'
    BY DEF RequestWrite, Inv, ProcessesTypeOK, processVars, failoverVars
  <2> QED
    BY <2>2, <2>3 DEF RequestWrite, Runs, Away, Catches, CatchingUp, Home, ServersIn,
                      processVars, failoverVars
<1>7. /\ rpc' \in [Writes' -> {"calling", "ok", "failed"}]
      /\ \A v \in Writes : rpc'[v] = rpc[v]
      /\ rpc'[n] = IF Runs(Primary(g)) THEN "calling" ELSE "failed"
  <2> DEFINE S == {"calling", "ok", "failed"}
  <2>1. rpc \in [1..m -> S]
    BY <1>a DEF Inv, WritesTypeOK, Writes
  <2>2. PICK x \in S : rpc' = Append(rpc, x) /\ x = IF Runs(Primary(g)) THEN "calling" ELSE "failed"
    BY DEF RequestWrite
  <2>3. Writes' = 1..(m + 1) /\ Writes = 1..m
    BY <1>4, <1>a, <1>b DEF Writes
  <2> HIDE DEF S
  <2>4. Extended(rpc', rpc, m, x, S)
    BY <2>1, <2>2, FunctionAppended, Zenon
  <2> QED
    BY <1>a, <1>b, <2>2, <2>3, <2>4 DEF S, Extended
<1>8. /\ handler' \in [Writes' -> Handlers]
      /\ \A v \in Writes : handler'[v] = handler[v]
      /\ Runs(Primary(g)) => handler'[n].step = "forward" /\ handler'[n].at = 2
      /\ ~ Runs(Primary(g)) => handler'[n].step = "off"
  <2> DEFINE first == [step |-> "forward", at |-> 2, result |-> FALSE]
  <2>1. handler \in [1..m -> Handlers]
    BY <1>a DEF Inv, WritesTypeOK, Writes
  <2>2. first \in Handlers
    BY Constants DEF Handlers
  <2>3. PICK x \in Handlers :
               handler' = Append(handler, x) /\ x = IF Runs(Primary(g)) THEN first ELSE Off
    BY <2>2, OffTyped DEF RequestWrite
  <2>4. Writes' = 1..(m + 1) /\ Writes = 1..m
    BY <1>4, <1>a, <1>b DEF Writes
  <2>5. Extended(handler', handler, m, x, Handlers)
    BY <2>1, <2>3, FunctionAppended, Zenon
  <2>6. handler'[n] = x /\ handler' \in [Writes' -> Handlers]
    BY <1>a, <1>b, <2>3, <2>4, <2>5 DEF Extended
  <2>7. \A v \in Writes : handler'[v] = handler[v]
    BY <2>3, <2>4, <2>5 DEF Extended
  <2>8. first.step = "forward" /\ first.at = 2 /\ Off.step = "off"
    BY DEF Off
  <2> HIDE DEF first
  <2> QED
    BY <2>3, <2>6, <2>7, <2>8
<1>9. WritesTypeOK'
  <2>1. /\ overlap' \cup missed' \cup alone' \cup skipped' \subseteq Groups
        /\ metadataMap' \in [Files -> Groups \cup {NotStored}]
        /\ seqNumMap' \in [Groups -> Nat]
    <3> DEFINE m1 == seqNumMap[g] + 1
    <3>1. m1 \in Nat
      BY <1>c
    <3>2. seqNumMap' = [seqNumMap EXCEPT ![g] = m1]
      BY DEF RequestWrite
    <3> HIDE DEF m1
    <3> QED
      BY <1>c, <3>1, <3>2 DEF RequestWrite, Inv, WritesTypeOK, Noted
  <2> QED
    BY <1>4, <1>7, <1>8, <2>1 DEF WritesTypeOK, R
<1>10. \A v \in Writes' : Placed(v)' /\ Attended(v)'
  <2>1. ServersOf(n)' = serverGroup[g]
    BY <1>4 DEF ServersOf
  <2>a. \A j \in 1..Len(serverGroup[g]) : serverGroup[g][j] \in ServersIn(g)
    BY Deque DEF Inv
  <2>b. req'[n].group = g /\ ServersIn(g)' = ServersIn(g)
    BY <1>4 DEF ServersIn
  <2>2. Placed(n)' /\ Attended(n)'
    BY <1>1, <1>7, <1>8, <2>1, <2>a, <2>b DEF Placed, Attended
  <2>3. ASSUME NEW v \in Writes PROVE Placed(v)' /\ Attended(v)'
    <3>1. req'[v] = req[v] /\ rpc'[v] = rpc[v] /\ handler'[v] = handler[v]
      BY <1>4, <1>7, <1>8 DEF Writes
    <3> QED
      BY <3>1 DEF Inv, Placed, Attended, ServersOf, ServersIn
  <2> QED
    BY <1>5, <2>2, <2>3
<1>11. /\ Regular' => Regular
       /\ g = 1 => 1 \in missed' \/ CatchingUp(1) = {}
       /\ g = 1 /\ Regular' => CatchingUp(1) = {}
       /\ g = 1 /\ Regular' => \A s \in Home : Runs(s) => s \in ToSet(serverGroup[1])
  BY DEF RequestWrite, Regular, Noted, Home
<1>d. \A v \in Writes : req'[v] = req[v] /\ rpc'[v] = rpc[v] /\ handler'[v] = handler[v]
  BY <1>4, <1>7, <1>8 DEF Writes
<1>e. req'[n].group = g
  BY <1>4
<1>12. Window'
  <2>1. CASE g = 1
    BY <1>6, <1>11, <2>1 DEF Window
  <2>2. CASE g # 1
    <3>1. Active(1)' \subseteq Active(1)
      BY <1>5, <1>d, <1>e, <2>2 DEF Active, WritesOf
    <3>2. missed \subseteq missed'
      BY DEF RequestWrite
    <3> QED
      BY <1>6, <3>1, <3>2 DEF Inv, Window
  <2> QED
    BY <2>1, <2>2
<1>13. ASSUME Regular' PROVE \A v \in Writes' : Reached(v)' /\ Learned(v)'
  <2>1. ASSUME NEW v \in Writes PROVE Reached(v)' /\ Learned(v)'
    <3>1. /\ req'[v] = req[v] /\ rpc'[v] = rpc[v] /\ handler'[v] = handler[v]
          /\ Reached(v) /\ Learned(v)
      BY <1>11, <1>13, <1>d DEF Inv
    <3>2. UNCHANGED <<log, recovery, requestQueue, server>>
      BY DEF RequestWrite, processVars, failoverVars
    <3>3. Reached(v)'
      BY <1>6, <3>1, <3>2 DEF Reached, Ours, Pending, ToCome, ServersOf, Logged, Entries, LogOf
    <3>4. Learned(v)'
      BY <1>6, <3>1, <3>2 DEF Learned, Ours, Knows, Logged, Entries, LogOf, InQueue, Acked
    <3> QED
      BY <3>3, <3>4
  <2>2. Learned(n)'
    BY <1>7 DEF Learned, Acked
  <2>3. Reached(n)'
    <3> SUFFICES ASSUME Ours(n)', rpc'[n] = "calling", NEW s \in Home
                 PROVE  Pending(s, n)' \/ Away(s)'
      BY <1>6 DEF Reached
    <3>a. g = 1
      BY <1>e DEF Ours
    <3>1. handler'[n].step = "forward" /\ handler'[n].at = 2
      BY <1>7, <1>8
    <3>2. ServersOf(n)' = serverGroup[1]
      BY <1>4, <3>a DEF ServersOf
    <3>3. CASE Runs(s)
      <4>1. s \in ToSet(serverGroup[1])
        BY <1>11, <1>13, <3>3, <3>a
      <4>2. PICK j \in 1..Len(serverGroup[1]) : serverGroup[1][j] = s
        BY <1>1, <3>a, <4>1 DEF ToSet
      <4>3. ToCome(n, j)'
        BY <1>1, <3>1, <3>a DEF ToCome
      <4> QED
        BY <3>2, <4>2, <4>3 DEF Pending
    <3>4. CASE ~ Runs(s)
      BY <1>6, <1>11, <1>13, <3>4, <3>a DEF Away, Catches, CatchingUp, Home
    <3> QED
      BY <3>3, <3>4
  <2> QED
    BY <1>5, <2>1, <2>2, <2>3
<1> QED
  BY <1>6, <1>9, <1>10, <1>12, <1>13 DEF Inv

-----------------------------------------------------------------------------
(* What a step of a thread owes to the servers its write must reach.       *)
LEMMA ReachedKept ==
    ASSUME Inv, NEW w \in Writes, UNCHANGED <<req, server, recovery>>, Grows, Reached(w),
           rpc'[w] = "calling" => rpc[w] = "calling",
           \A j \in 1..Len(ServersOf(w)) :
              ToCome(w, j) => \/ ToCome(w, j)'
                              \/ Logged(ServersOf(w)[j], w)'
                              \/ Away(ServersOf(w)[j])
    PROVE  Reached(w)'
<1>1. w \in Nat
  BY RequestTyped DEF Inv
<1>2. /\ ServersOf(w)' = ServersOf(w) /\ Ours(w)' = Ours(w) /\ Home' = Home
      /\ \A s \in Servers : Away(s)' = Away(s)
  BY DEF ServersOf, Ours, Home, ServersIn, Away, Runs, Catches
<1> SUFFICES ASSUME Ours(w), rpc[w] = "calling", NEW s \in Home
             PROVE  Logged(s, w)' \/ Pending(s, w)' \/ Away(s)'
  BY <1>2 DEF Reached
<1>a. s \in Servers
  BY DEF Home, ServersIn
<1>3. Logged(s, w) => Logged(s, w)'
  BY <1>1, <1>a DEF Grows
<1>4. Pending(s, w) => Logged(s, w)' \/ Pending(s, w)' \/ Away(s)
  BY <1>2 DEF Pending
<1> QED
  BY <1>2, <1>3, <1>4, <1>a DEF Reached

LEMMA LearnedKept ==
    ASSUME Inv, NEW w \in Writes, UNCHANGED <<req, server, recovery, requestQueue>>, Grows,
           Learned(w), rpc'[w] = rpc[w]
    PROVE  Learned(w)'
<1>1. w \in Nat /\ Home \subseteq Servers /\ Home' = Home /\ Ours(w)' = Ours(w)
  BY RequestTyped DEF Inv, Home, ServersIn, Ours
<1> QED
  BY <1>1 DEF Learned, Knows, Acked, Runs, InQueue, Grows

(* Nobody catches up while a write is in progress.                         *)
LEMMA NoneCatchesUp ==
    ASSUME Inv, Regular, NEW w \in Writes, Ours(w),
           rpc[w] = "calling" \/ handler[w].step # "off"
    PROVE  \A s \in Home : ~ Catches(s)
<1>1. CatchingUp(1) = {}
  BY DEF Inv, Window, Regular, Active, WritesOf, Ours
<1> QED
  BY <1>1 DEF CatchingUp, Catches, Home

(* Where a thread goes when a replica has been called.                     *)
LEMMA ForwardedPlace ==
    ASSUME Inv, NEW w \in Writes, handler[w].at \in 1..Len(ServersOf(w))
    PROVE  \E h \in Handlers :
              /\ Forwarded(w) = [handler EXCEPT ![w] = h]
              /\ IF rpc[w] = "calling" THEN h.step = "forward" /\ h.at = handler[w].at + 1
                                       ELSE h.step = "off"
<1>1. CASE rpc[w] = "calling"
  <2>1. Len(ServersOf(w)) \in 1..GroupSize /\ GroupSize \in Nat
    BY Constants DEF Inv, Placed
  <2>2. handler[w].at + 1 \in 1..(GroupSize + 1)
    BY <2>1
  <2>3. MovedTo(At(w, "forward", handler[w].at + 1), w, "forward", handler[w].at + 1)
    BY <2>2, AtPlace DEF Inv
  <2> QED
    BY <1>1, <2>3 DEF Forwarded, MovedTo
<1>2. CASE rpc[w] # "calling"
  <2>1. Off.step = "off"
    BY DEF Off
  <2> QED
    BY <1>2, <2>1, OffTyped DEF Forwarded
<1> QED
  BY <1>1, <1>2

LEMMA ForwardInv ==
    ASSUME Inv, NEW w \in Writes, Forward(w)
    PROVE  Inv'
<1>1. /\ handler[w].step = "forward" /\ rpc[w] = "calling"
      /\ handler[w].at \in 2..(Len(ServersOf(w)) + 1)
      /\ Len(ServersOf(w)) \in 1..GroupSize /\ GroupSize \in Nat
      /\ UNCHANGED <<metadataMap, seqNumMap>>
      /\ metadataMap \in [Files -> Groups \cup {NotStored}]
  BY Constants DEF Forward, mapVars, Inv, Attended, Placed, WritesTypeOK
<1>2. /\ UNCHANGED <<failoverVars, processVars, req, rpc, historyVars>>
      /\ UNCHANGED <<server, lockKept, recovery, primary, requestQueue>>
      /\ ServersOf(w)' = ServersOf(w)
  BY DEF Forward, processVars, failoverVars, ServersOf
<1>3. ProcessesTypeOK' /\ Grows /\ rpc' \in [Writes -> {"calling", "ok", "failed"}]
  BY <1>2 DEF Inv, ProcessesTypeOK, WritesTypeOK, processVars, Grows, Logged, Entries, LogOf
<1>4. ASSUME NEW h \in Handlers, handler' = [handler EXCEPT ![w] = h],
             h.step \in {"forward", "log"},
             h.step = "forward" => /\ h.at = handler[w].at + 1
                                   /\ handler[w].at <= Len(ServersOf(w))
                                   /\ ~ Runs(ServersOf(w)[handler[w].at]),
             h.step = "log" => \/ h.at = 1 /\ handler[w].at > Len(ServersOf(w))
                               \/ h.at = handler[w].at /\ h.at <= Len(ServersOf(w))
      PROVE  Inv'
  <2>1. handler'[w] = h
    BY <1>2, <1>4, ThreadMoves DEF Inv
  <2>2. Placed(w)' /\ Attended(w)'
    BY <1>1, <1>2, <1>4, <2>1, SameRequests DEF Placed, Attended, Inv
  <2>3. ASSUME Regular, Ours(w) PROVE Reached(w)' /\ Learned(w)'
    <3>1. Reached(w) /\ Learned(w)
      BY <2>3 DEF Inv
    <3>2. ASSUME NEW j \in 1..Len(ServersOf(w)), ToCome(w, j)
          PROVE  ToCome(w, j)' \/ Away(ServersOf(w)[j])
      <4>1. CASE h.step = "forward" /\ j = handler[w].at
        <5>1. ServersOf(w)[j] \in Home
          BY <2>3 DEF Inv, Placed, Ours, Home
        <5>2. ~ Catches(ServersOf(w)[j])
          BY <1>1, <2>3, <5>1, NoneCatchesUp
        <5> QED
          BY <1>4, <4>1, <5>2 DEF Away
      <4>2. CASE ~ (h.step = "forward" /\ j = handler[w].at)
        BY <1>1, <1>4, <2>1, <3>2, <4>2 DEF ToCome
      <4> QED
        BY <4>1, <4>2
    <3> QED
      BY <1>2, <1>3, <3>1, <3>2, ReachedKept, LearnedKept
  <2> QED
    BY <1>1, <1>2, <1>3, <1>4, <2>2, <2>3, ThreadStepInv
<1>5. CASE handler[w].at > Len(ServersOf(w))
  <2>1. handler' = At(w, "log", 1)
    BY <1>5 DEF Forward, ServersOf
  <2>2. MovedTo(At(w, "log", 1), w, "log", 1)
    BY <1>1, AtPlace DEF Inv
  <2> QED
    BY <1>4, <1>5, <2>1, <2>2 DEF MovedTo
<1>6. CASE ~ (handler[w].at > Len(ServersOf(w))) /\ Runs(Target(w))
  <2>1. handler' = At(w, "log", handler[w].at)
    BY <1>6 DEF Forward, ServersOf
  <2>2. handler[w].at \in 1..(GroupSize + 1)
    BY <1>1
  <2>3. MovedTo(At(w, "log", handler[w].at), w, "log", handler[w].at)
    BY <2>2, AtPlace DEF Inv
  <2> QED
    BY <1>1, <1>4, <1>6, <2>1, <2>3 DEF MovedTo
<1>7. CASE ~ (handler[w].at > Len(ServersOf(w))) /\ ~ Runs(Target(w))
  <2>1. handler' = Forwarded(w)
    BY <1>7 DEF Forward, ServersOf
  <2>2. handler[w].at \in 1..Len(ServersOf(w))
    BY <1>1, <1>7
  <2>3. PICK h \in Handlers : Forwarded(w) = [handler EXCEPT ![w] = h]
                              /\ h.step = "forward" /\ h.at = handler[w].at + 1
    BY <1>1, <2>2, ForwardedPlace
  <2>4. ~ Runs(ServersOf(w)[handler[w].at])
    BY <1>7 DEF Target, ServersOf
  <2>5. handler[w].at <= Len(ServersOf(w)) /\ h.step # "log" /\ h.step \in {"forward", "log"}
    BY <1>1, <1>7, <2>3
  <2> QED
    BY <1>4, <2>1, <2>3, <2>4, <2>5
<1> QED
  BY <1>5, <1>6, <1>7

LEMMA AppendLogInv ==
    ASSUME Inv, NEW w \in Writes, AppendLog(w)
    PROVE  Inv'
<1>1. /\ handler[w].step = "log" /\ handler[w].at \in 1..Len(ServersOf(w))
      /\ Len(ServersOf(w)) \in 1..GroupSize /\ GroupSize \in Nat
      /\ handler[w].at = 1 => rpc[w] = "calling"
      /\ UNCHANGED <<metadataMap, seqNumMap>>
      /\ metadataMap \in [Files -> Groups \cup {NotStored}]
  BY Constants DEF AppendLog, mapVars, Inv, Attended, Placed, WritesTypeOK
<1>2. /\ UNCHANGED <<failoverVars, req, rpc, historyVars>>
      /\ UNCHANGED <<server, lockKept, table, recovery, primary, requestQueue>>
      /\ ServersOf(w)' = ServersOf(w)
  BY DEF AppendLog, failoverVars, ServersOf
<1>3. PICK s \in Servers : s = ServersOf(w)[handler[w].at] /\ s = Target(w) /\ w \in Nat
  BY <1>1, RequestTyped DEF Inv, Target, ServersOf
<1>4. Entry(w) \in Requests /\ Entry(w).write = w
  BY EntryTyped DEF Inv
<1>a. PICK by \in SUBSET Servers, e \in Requests : by = {s} /\ e = Entry(w)
  BY <1>3, <1>4
<1>5. log' = [t \in Servers |-> IF t \in by THEN Appended(t, e) ELSE log[t]]
  BY <1>3, <1>a DEF AppendLog, Inv, ProcessesTypeOK
<1>6. /\ log' \in [Servers -> Seq(Requests) \cup {NoFile}] /\ Grows /\ Logged(s, w)'
  BY <1>3, <1>4, <1>5, <1>a, AppendGrows DEF Inv
<1>7. ProcessesTypeOK' /\ rpc' \in [Writes -> {"calling", "ok", "failed"}]
  BY <1>2, <1>6 DEF Inv, ProcessesTypeOK, WritesTypeOK
<1>8. handler[w].at \in 1..(GroupSize + 1)
  BY <1>1
<1>b. MovedTo(At(w, "apply", handler[w].at), w, "apply", handler[w].at)
  BY <1>8, AtPlace DEF Inv
<1>9. PICK h \in Handlers : /\ handler' = [handler EXCEPT ![w] = h]
                            /\ h.step = "apply" /\ h.at = handler[w].at
  BY <1>b DEF AppendLog, MovedTo
<1>10. handler'[w] = h
  BY <1>2, <1>9, ThreadMoves DEF Inv
<1>11. Placed(w)' /\ Attended(w)'
  BY <1>1, <1>2, <1>9, <1>10, SameRequests DEF Placed, Attended, Inv
<1>12. ASSUME Regular, Ours(w) PROVE Reached(w)' /\ Learned(w)'
  <2>1. Reached(w) /\ Learned(w)
    BY <1>12 DEF Inv
  <2>2. ASSUME NEW j \in 1..Len(ServersOf(w)), ToCome(w, j)
        PROVE  ToCome(w, j)' \/ Logged(ServersOf(w)[j], w)'
    <3>1. CASE j = handler[w].at
      BY <1>2, <1>3, <1>6, <3>1
    <3>2. CASE j # handler[w].at
      BY <1>1, <1>9, <1>10, <2>2, <3>2 DEF ToCome
    <3> QED
      BY <3>1, <3>2
  <2> QED
    BY <1>2, <1>6, <2>1, <2>2, ReachedKept, LearnedKept
<1> QED
  BY <1>1, <1>2, <1>6, <1>7, <1>9, <1>11, <1>12, ThreadStepInv

LEMMA WrittenTyped ==
    ASSUME ProcessesTypeOK, NEW s \in Servers, NEW w \in Nat
    PROVE  Written(s, w) \in [Files -> Nat]
<1>1. table[s] \in [Files -> Nat]
  BY DEF ProcessesTypeOK
<1> QED
  BY <1>1 DEF Written, Absent

LEMMA ApplyInv ==
    ASSUME Inv, NEW w \in Writes, Apply(w)
    PROVE  Inv'
<1> DEFINE s == Target(w)
<1>1. /\ handler[w].step = "apply" /\ handler[w].at \in 1..Len(ServersOf(w))
      /\ Len(ServersOf(w)) \in 1..GroupSize /\ GroupSize \in Nat
      /\ handler[w].at = 1 => rpc[w] = "calling"
      /\ UNCHANGED <<metadataMap, seqNumMap>>
      /\ metadataMap \in [Files -> Groups \cup {NotStored}]
  BY Constants DEF Apply, mapVars, Inv, Attended, Placed, WritesTypeOK
<1>2. /\ UNCHANGED <<failoverVars, req, rpc, historyVars>>
      /\ UNCHANGED <<server, log, lockKept, recovery, primary, requestQueue>>
      /\ ServersOf(w)' = ServersOf(w)
  BY DEF Apply, failoverVars, ServersOf
<1>3. s \in Servers /\ w \in Nat
  BY <1>1, RequestTyped DEF Inv, Target, ServersOf
<1>4. Grows
  BY <1>2 DEF Grows, Logged, Entries, LogOf
<1>5. table' \in [Servers -> [Files -> Nat]]
  BY <1>3, WrittenTyped DEF Apply, Inv, ProcessesTypeOK
<1>6. ProcessesTypeOK' /\ rpc' \in [Writes -> {"calling", "ok", "failed"}]
  BY <1>2, <1>5 DEF Inv, ProcessesTypeOK, WritesTypeOK
<1>7. ASSUME NEW h \in Handlers, handler' = [handler EXCEPT ![w] = h],
             IF handler[w].at = 1 THEN h.step = "replied" /\ h.at = 1
             ELSE IF rpc[w] = "calling" THEN h.step = "forward" /\ h.at = handler[w].at + 1
             ELSE h.step = "off"
      PROVE  Inv'
  <2>1. handler'[w] = h
    BY <1>2, <1>7, ThreadMoves DEF Inv
  <2>2. Placed(w)' /\ Attended(w)'
    BY <1>1, <1>2, <1>7, <2>1, SameRequests DEF Placed, Attended, Inv
  <2>3. ASSUME Regular, Ours(w) PROVE Reached(w)' /\ Learned(w)'
    <3>1. Reached(w) /\ Learned(w)
      BY <2>3 DEF Inv
    <3>2. CASE rpc[w] = "calling"
      <4>1. ASSUME NEW j \in 1..Len(ServersOf(w)), ToCome(w, j)
            PROVE  ToCome(w, j)'
        BY <1>1, <1>7, <2>1, <3>2, <4>1 DEF ToCome
      <4> QED
        BY <1>2, <1>4, <3>1, <4>1, ReachedKept, LearnedKept
    <3>3. CASE rpc[w] # "calling"
      <4>1. Reached(w)'
        BY <1>2, <3>3 DEF Reached
      <4> QED
        BY <1>2, <1>4, <3>1, <4>1, LearnedKept
    <3> QED
      BY <3>2, <3>3
  <2> QED
    BY <1>1, <1>2, <1>4, <1>6, <1>7, <2>2, <2>3, ThreadStepInv
<1>8. CASE handler[w].at = 1
  <2> DEFINE h == [step |-> "replied", at |-> 1, result |-> Succeeds(s, w)]
  <2>1. Succeeds(s, w) \in BOOLEAN
    BY DEF Succeeds
  <2>2. h \in Handlers
    BY <1>1, <2>1 DEF Handlers
  <2>3. handler' = [handler EXCEPT ![w] = h]
    BY <1>8 DEF Apply
  <2>4. h.step = "replied" /\ h.at = 1
    OBVIOUS
  <2> HIDE DEF h
  <2> QED
    BY <1>7, <1>8, <2>2, <2>3, <2>4
<1>9. CASE handler[w].at # 1
  <2>1. handler' = Forwarded(w)
    BY <1>9 DEF Apply
  <2> QED
    BY <1>1, <1>7, <1>9, <2>1, ForwardedPlace
<1> QED
  BY <1>8, <1>9

LEMMA ReturnInv ==
    ASSUME Inv, NEW w \in Writes, Return(w)
    PROVE  Inv'
<1>1. handler[w].step = "replied" /\ rpc[w] = "calling"
  BY DEF Return, Inv, Attended
<1>2. /\ UNCHANGED <<failoverVars, processVars, req, historyVars>>
      /\ UNCHANGED <<server, log, lockKept, recovery, primary, requestQueue>>
      /\ handler' = [handler EXCEPT ![w] = Off]
      /\ ServersOf(w)' = ServersOf(w)
  BY DEF Return, failoverVars, processVars, ServersOf
<1>3. PICK x \in {"ok", "failed"} : rpc' = [rpc EXCEPT ![w] = x]
  BY DEF Return
<1>4. /\ rpc' \in [Writes -> {"calling", "ok", "failed"}] /\ rpc'[w] = x
      /\ \A v \in Writes : v # w => rpc'[v] = rpc[v]
  BY <1>3 DEF Inv, WritesTypeOK
<1>5. ProcessesTypeOK' /\ Grows
  BY <1>2 DEF Inv, ProcessesTypeOK, processVars, Grows, Logged, Entries, LogOf
<1>a. /\ metadataMap' \in [Files -> Groups \cup {NotStored}]
      /\ UNCHANGED seqNumMap
  <2> DEFINE S == Groups \cup {NotStored}
             x1 == IF req[w].type = "PUT" THEN req[w].group ELSE NotStored
  <2>1. metadataMap \in [Files -> S] /\ x1 \in S
    BY RequestTyped DEF Inv, WritesTypeOK
  <2>2. metadataMap' = IF handler[w].result THEN [metadataMap EXCEPT ![req[w].file] = x1]
                                            ELSE metadataMap
    BY DEF Return
  <2> HIDE DEF S, x1
  <2>3. metadataMap' \in [Files -> S]
    BY <2>1, <2>2
  <2> QED
    BY <2>3 DEF S, Return
<1>6. handler'[w].step = "off"
  <2>1. handler'[w] = Off
    BY <1>2, OffTyped, ThreadMoves DEF Inv
  <2> QED
    BY <2>1 DEF Off
<1>7. Placed(w)' /\ Attended(w)'
  BY <1>2, <1>4, <1>6, SameRequests DEF Placed, Attended, Inv
<1>8. ASSUME Regular, Ours(w) PROVE Reached(w)' /\ Learned(w)'
  <2>1. Reached(w)'
    BY <1>4 DEF Reached
  <2>a. Home' = Home /\ Home \subseteq Servers
    BY DEF Home, ServersIn
  <2>2. ASSUME NEW t \in Home PROVE Knows(t, w)'
    <3>1. ~ Pending(t, w)
      BY <1>1 DEF Pending, ToCome
    <3>2. Logged(t, w) \/ Away(t)
      BY <1>1, <1>8, <3>1 DEF Inv, Reached
    <3>3. ~ Catches(t)
      BY <1>1, <1>8, NoneCatchesUp
    <3>4. Runs(t) => Logged(t, w)
      BY <3>2 DEF Away
    <3>5. recovery[t] \notin {"clear", "replay"}
      BY <3>3 DEF Catches
    <3> QED
      BY <1>2, <3>4, <3>5 DEF Knows, Runs, Logged, Entries, LogOf
  <2> QED
    BY <2>1, <2>2, <2>a DEF Learned
<1> QED
  BY <1>1, <1>2, <1>4, <1>5, <1>a, <1>7, <1>8, OffTyped, ThreadStepInv

LEMMA ServeInv ==
    ASSUME Inv, NEW w \in Writes, Serve(w)
    PROVE  Inv'
BY ForwardInv, AppendLogInv, ApplyInv, ReturnInv DEF Serve

-----------------------------------------------------------------------------
(* What becomes of the thread of a write when server s dies.               *)
Spared(s, w) == rpc[w] = "calling" /\ PrimaryOf(w) # s

LEMMA AfterDeathPlace ==
    ASSUME Inv, NEW s \in Servers, NEW w \in Writes
    PROVE  /\ AfterDeath(s, w) \in Handlers
           /\ Spared(s, w) =>
                \/ AfterDeath(s, w) = handler[w] /\ handler[w].step # "off"
                \/ /\ handler[w].step \in {"log", "apply"} /\ Target(w) = s
                   /\ handler[w].at # 1
                   /\ AfterDeath(s, w).step = "forward"
                   /\ AfterDeath(s, w).at = handler[w].at + 1
           /\ ~ Spared(s, w) =>
                \/ AfterDeath(s, w).step = "off"
                \/ /\ AfterDeath(s, w) = handler[w]
                   /\ handler[w].step \in {"log", "apply"} /\ handler[w].at # 1
                \/ /\ AfterDeath(s, w) = handler[w]
                   /\ handler[w].step \in {"log", "apply"} /\ Target(w) # s
<1> DEFINE on == [step |-> "forward", at |-> handler[w].at + 1, result |-> handler[w].result]
<1>1. /\ handler[w] \in Handlers /\ GroupSize \in Nat
      /\ Len(ServersOf(w)) \in 1..GroupSize
      /\ handler[w].step \in {"log", "apply"} => handler[w].at \in 1..Len(ServersOf(w))
  BY RequestTyped, Constants DEF Inv, Placed
<1>2. handler[w].step \in {"off", "forward", "log", "apply", "replied"}
  BY <1>1 DEF Handlers
<1>3. handler[w].step \in {"log", "apply"} => on \in Handlers
  BY <1>1 DEF Handlers
<1>4. on.step = "forward" /\ on.at = handler[w].at + 1 /\ Off.step = "off"
  BY DEF Off
<1>5. handler[w].at = 1 => Target(w) = PrimaryOf(w)
  BY DEF Target, PrimaryOf
<1>6. Attended(w)
  BY DEF Inv
<1>7. AfterDeath(s, w) =
        IF /\ handler[w].step \in {"log", "apply"} /\ Target(w) = s
           /\ ~ (handler[w].step # "off" /\ rpc[w] = "calling" /\ PrimaryOf(w) = s)
           /\ rpc[w] = "calling"
        THEN on
        ELSE IF \/ handler[w].step \in {"log", "apply"} /\ Target(w) = s
                \/ /\ handler[w].step # "off" /\ rpc[w] = "calling" /\ PrimaryOf(w) = s
                   /\ handler[w].step \in {"forward", "replied"}
        THEN Off
        ELSE handler[w]
  BY DEF AfterDeath
<1> HIDE DEF on
<1>8. AfterDeath(s, w) \in Handlers
  BY <1>1, <1>3, <1>7, OffTyped
<1>9. CASE Spared(s, w)
  BY <1>2, <1>4, <1>5, <1>6, <1>7, <1>8, <1>9 DEF Spared, Attended
<1>10. CASE ~ Spared(s, w)
  BY <1>2, <1>4, <1>5, <1>6, <1>7, <1>8, <1>10 DEF Spared, Attended
<1> QED
  BY <1>8, <1>9, <1>10

LEMMA CrashInv ==
    ASSUME Inv, NEW s \in Servers, Crash(s)
    PROVE  Inv'
<1>1. /\ FailoverInv'
      /\ server' = [server EXCEPT ![s] = "DOWN"]
      /\ server \in [Servers -> {"DOWN", "RUNNING", "RECOVERING"}]
  BY DieInv DEF Crash, Die, Inv, FailoverInv, Types
<1>2. ProcessesTypeOK'
  <2>1. Empty \in [Files -> Nat]
    BY DEF Empty, Absent
  <2> QED
    BY <1>1, <2>1 DEF Crash, Inv, ProcessesTypeOK, Stages
<1>3. /\ ~ Runs(s)' /\ recovery'[s] = "off" /\ Away(s)'
      /\ \A t \in Servers : t # s => /\ Runs(t)' = Runs(t) /\ Away(t)' = Away(t)
                                     /\ recovery'[t] = recovery[t]
                                     /\ requestQueue'[t] = requestQueue[t]
      /\ CatchingUp(1)' \subseteq CatchingUp(1)
      /\ Home' = Home /\ Home \subseteq Servers
  BY <1>1 DEF Crash, Inv, ProcessesTypeOK, Runs, Away, Catches, CatchingUp, Home, ServersIn
<1>4. /\ UNCHANGED <<log, req, overlap, missed, alone, skipped>>
      /\ UNCHANGED <<metadataMap, seqNumMap>>
      /\ Writes' = Writes
      /\ Regular' = Regular
  BY DEF Crash, mapVars, Writes, Regular
<1>5. ASSUME NEW w \in Writes
      PROVE  /\ handler'[w] = AfterDeath(s, w)
             /\ rpc'[w] \in {"calling", "ok", "failed"}
             /\ rpc'[w] = "calling" <=> Spared(s, w)
             /\ rpc'[w] = "ok" <=> rpc[w] = "ok"
             /\ ServersOf(w)' = ServersOf(w) /\ Ours(w)' = Ours(w)
             /\ req'[w] = req[w] /\ \A g : ServersIn(g)' = ServersIn(g)
  BY <1>4 DEF Crash, Spared, Inv, WritesTypeOK, ServersOf, Ours, ServersIn
<1>6. WritesTypeOK'
  <2>1. handler' = [w \in Writes |-> AfterDeath(s, w)]
    BY DEF Crash
  <2>2. handler' \in [Writes' -> Handlers]
    BY <1>4, <2>1, AfterDeathPlace
  <2>3. rpc' \in [Writes' -> {"calling", "ok", "failed"}]
    BY <1>4, <1>5 DEF Crash
  <2> QED
    BY <1>4, <2>2, <2>3 DEF Inv, WritesTypeOK
<1>7. ASSUME NEW w \in Writes
      PROVE  /\ Placed(w)' /\ Attended(w)'
             /\ w \in Active(1)' => w \in Active(1)
  <2>1. /\ Len(ServersOf(w)) \in 1..GroupSize /\ GroupSize \in Nat
        /\ handler[w].step \in {"log", "apply"} => handler[w].at \in 1..Len(ServersOf(w))
        /\ Placed(w) /\ Attended(w)
    BY Constants DEF Inv, Placed
  <2>2. CASE Spared(s, w) /\ handler'[w] = handler[w] /\ handler[w].step # "off"
    BY <1>4, <1>5, <2>1, <2>2 DEF Placed, Attended, Active, WritesOf, Spared
  <2>3. CASE /\ Spared(s, w) /\ handler[w].step \in {"log", "apply"}
             /\ handler'[w].step = "forward" /\ handler'[w].at = handler[w].at + 1
    BY <1>4, <1>5, <2>1, <2>3 DEF Placed, Attended, Active, WritesOf, Spared
  <2>4. CASE ~ Spared(s, w) /\ handler'[w].step = "off"
    BY <1>4, <1>5, <2>1, <2>4 DEF Placed, Attended, Active, WritesOf
  <2>5. CASE /\ ~ Spared(s, w) /\ handler'[w] = handler[w]
             /\ handler[w].step \in {"log", "apply"}
             /\ handler[w].at # 1 \/ Target(w) # s
    <3>1. handler[w].at # 1
      BY <2>1, <2>5 DEF Spared, Attended, Target, PrimaryOf
    <3> QED
      BY <1>4, <1>5, <2>1, <2>5, <3>1 DEF Placed, Attended, Active, WritesOf
  <2> QED
    BY <1>5, <2>2, <2>3, <2>4, <2>5, AfterDeathPlace
<1>8. Window'
  <2>1. Active(1)' \subseteq Active(1)
    BY <1>4, <1>7 DEF Active, WritesOf
  <2> QED
    BY <1>3, <1>4, <2>1 DEF Inv, Window
<1>9. ASSUME Regular, NEW w \in Writes PROVE Reached(w)'
  <2> SUFFICES ASSUME Ours(w), rpc'[w] = "calling", NEW t \in Home
               PROVE  Logged(t, w)' \/ Pending(t, w)' \/ Away(t)'
    BY <1>3, <1>5 DEF Reached
  <2>1. Spared(s, w) /\ (Logged(t, w) \/ Pending(t, w) \/ Away(t))
    BY <1>5, <1>9 DEF Inv, Reached, Spared
  <2>2. CASE t = s
    BY <1>3, <2>2
  <2>3. CASE t # s
    <3>1. Logged(t, w)' = Logged(t, w) /\ Away(t)' = Away(t)
      BY <1>3, <1>4, <2>3 DEF Logged, Entries, LogOf
    <3>2. ASSUME Pending(t, w) PROVE Pending(t, w)'
      <4>1. PICK j \in 1..Len(ServersOf(w)) : ServersOf(w)[j] = t /\ ToCome(w, j)
        BY <3>2 DEF Pending
      <4>2. Target(w) = s => j # handler[w].at
        BY <2>3, <4>1 DEF Target, ServersOf
      <4>3. /\ Len(ServersOf(w)) \in Nat
            /\ handler[w].step \in {"log", "apply"} => handler[w].at \in 1..Len(ServersOf(w))
        BY RequestTyped DEF Inv, Placed
      <4>4. ToCome(w, j)'
        BY <1>5, <2>1, <4>1, <4>2, <4>3, AfterDeathPlace DEF ToCome
      <4> QED
        BY <1>5, <4>1, <4>4 DEF Pending
    <3> QED
      BY <2>1, <3>1, <3>2
  <2> QED
    BY <2>2, <2>3
<1>10. ASSUME Regular, NEW w \in Writes PROVE Learned(w)'
  <2> SUFFICES ASSUME Ours(w), rpc[w] = "ok", NEW t \in Home PROVE Knows(t, w)'
    BY <1>3, <1>5 DEF Learned, Acked
  <2>1. Knows(t, w)
    BY <1>10 DEF Inv, Learned, Acked
  <2>2. CASE t = s
    BY <1>3, <2>2 DEF Knows
  <2>3. CASE t # s
    BY <1>3, <1>4, <2>1, <2>3 DEF Knows, Logged, Entries, LogOf, InQueue
  <2> QED
    BY <2>2, <2>3
<1> QED
  BY <1>1, <1>2, <1>4, <1>6, <1>7, <1>8, <1>9, <1>10 DEF Inv

-----------------------------------------------------------------------------
(* The logs, and what has been gathered from them.  Every entry is the one *)
(* its write leaves; a server of the first group has entries of the writes *)
(* of its group only, for these are sent to servers of the group and it    *)
(* asks one of them for a log.  Their numbers grow.                        *)
Fits(s, e) ==
    /\ e.write \in Writes
    /\ e = Entry(e.write)
    /\ s \in Home => Ours(e.write)

Numbered(v, w) ==
    Ours(v) /\ Ours(w) =>
        /\ req[v].seqNum < seqNumMap[1]
        /\ v < w => req[v].seqNum < req[w].seqNum

AllFit      == \A s \in Servers : \A e \in Entries(s) \cup requestQueue[s] : Fits(s, e)
AsksHome    == \A s \in Home : primary[s] \in Home
AllNumbered == \A v, w \in Writes : Numbered(v, w)

HomeInv == AllFit /\ AsksHome /\ AllNumbered

LEMMA HomeInit ==
    ASSUME Init
    PROVE  HomeInv
<1>1. Writes = {}
  BY DEF Init, Writes
<1>2. \A s \in Servers : Entries(s) = {} /\ requestQueue[s] = {}
  BY DEF Init, Entries, LogOf, ToSet
<1>3. AsksHome
  BY DEF Init, AsksHome, Home, ServersIn
<1> QED
  BY <1>1, <1>2, <1>3 DEF HomeInv, AllFit, AllNumbered

(* Entries that were there, or at another server of the group, fit still;  *)
(* so does the entry of a write.                                           *)
FitsFor(s, e) == \E t \in Servers : Fits(t, e) /\ (s \in Home => t \in Home)

LEMMA FitsKept ==
    ASSUME HomeInv, Writes \subseteq Writes', \A v \in Writes : req'[v] = req[v],
           \A s \in Servers : \A e \in Entries(s)' \cup requestQueue'[s] : FitsFor(s, e)
    PROVE  AllFit'
<1> SUFFICES ASSUME NEW s \in Servers, NEW e \in Entries(s)' \cup requestQueue'[s]
             PROVE  Fits(s, e)'
  BY DEF AllFit
<1>0. FitsFor(s, e)
  OBVIOUS
<1>1. PICK t \in Servers : Fits(t, e) /\ (s \in Home => t \in Home)
  BY <1>0, Zenon DEF FitsFor
<1>2. Home' = Home
  BY DEF Home, ServersIn
<1>3. e.write \in Writes' /\ req'[e.write] = req[e.write]
  BY <1>1 DEF Fits
<1> QED
  BY <1>1, <1>2, <1>3 DEF Fits, Entry, Ours

LEMMA HomeKept ==
    ASSUME HomeInv, UNCHANGED <<req, seqNumMap>>, AllFit', AsksHome'
    PROVE  HomeInv'
BY DEF HomeInv, AllNumbered, Numbered, Writes, Ours

LEMMA SameOrder ==
    ASSUME NEW v \in Nat, NEW w \in Nat, NEW a \in Nat, NEW b \in Nat,
           v < w => a < b, w < v => b < a, v = w => a = b
    PROVE  /\ a = b <=> v = w
           /\ a <= b <=> v <= w
<1>1. \/ v < w /\ a < b
      \/ w < v /\ b < a
      \/ v = w /\ a = b
  OBVIOUS
<1> QED
  BY <1>1

(* Entries of servers of the group with one number are of one write.       *)
LEMMA SameNumber ==
    ASSUME WritesTypeOK, HomeInv, NEW s \in Home, NEW t \in Home,
           NEW d \in Entries(s) \cup requestQueue[s],
           NEW e \in Entries(t) \cup requestQueue[t]
    PROVE  /\ d.write \in Writes /\ e.write \in Writes
           /\ d.write \in Nat /\ e.write \in Nat
           /\ d = Entry(d.write) /\ e = Entry(e.write)
           /\ d.seqNum = e.seqNum <=> d.write = e.write
           /\ d.seqNum <= e.seqNum <=> d.write <= e.write
           /\ d.seqNum \in Nat /\ e.seqNum \in Nat
<1>1. s \in Servers /\ t \in Servers
  BY DEF Home, ServersIn
<1>2. Fits(s, d) /\ Fits(t, e)
  BY <1>1 DEF HomeInv, AllFit
<1>3. PICK v \in Writes, w \in Writes :
        v = d.write /\ w = e.write /\ d = Entry(v) /\ e = Entry(w) /\ Ours(v) /\ Ours(w)
  BY <1>2 DEF Fits
<1>4. /\ v \in Nat /\ w \in Nat /\ req[v].seqNum \in Nat /\ req[w].seqNum \in Nat
      /\ d.seqNum = req[v].seqNum /\ e.seqNum = req[w].seqNum
  BY <1>3, RequestTyped, EntryTyped
<1>5. /\ v < w => req[v].seqNum < req[w].seqNum
      /\ w < v => req[w].seqNum < req[v].seqNum
  <2>1. Numbered(v, w) /\ Numbered(w, v)
    BY DEF HomeInv, AllNumbered
  <2>2. Ours(v) /\ Ours(w)
    BY <1>3
  <2> QED
    BY <2>1, <2>2, Zenon DEF Numbered
<1>6. /\ d.seqNum = e.seqNum <=> v = w
      /\ d.seqNum <= e.seqNum <=> v <= w
  <2>1. PICK a \in Nat, b \in Nat : a = req[v].seqNum /\ b = req[w].seqNum
    BY <1>4
  <2>2. /\ v \in Nat /\ w \in Nat
        /\ v < w => a < b
        /\ w < v => b < a
        /\ v = w => a = b
    <3>1. v \in Nat /\ w \in Nat
      BY <1>4
    <3>2. v < w => a < b
      BY <1>5, <2>1, Zenon
    <3>3. w < v => b < a
      BY <1>5, <2>1, Zenon
    <3>4. v = w => a = b
      BY <2>1, Zenon
    <3> QED
      BY <3>1, <3>2, <3>3, <3>4, Zenon
  <2>3. /\ a = b <=> v = w
        /\ a <= b <=> v <= w
    BY <2>2, SameOrder, Zenon
  <2> QED
    BY <1>4, <2>1, <2>3, Zenon
<1> QED
  BY <1>3, <1>4, <1>6

(* The queue keeps one request of each number.  In the group that is all   *)
(* of them, and in any it is nothing else.                                 *)
LEMMA GatheredAll ==
    ASSUME ProcessesTypeOK, WritesTypeOK, HomeInv, NEW s \in Servers, NEW p \in Servers,
           requestQueue' = Gathered(s, LogOf(p))
    PROVE  /\ requestQueue'[s] \subseteq requestQueue[s] \cup Entries(p)
           /\ s \in Home /\ p \in Home => requestQueue'[s] = requestQueue[s] \cup Entries(p)
           /\ \A t \in Servers : t # s => requestQueue'[t] = requestQueue[t]
           /\ requestQueue' \in [Servers -> SUBSET Requests]
<1> DEFINE q     == LogOf(p)
           first == {i \in 1..Len(q) : \A j \in 1..(i - 1) : q[j].seqNum # q[i].seqNum}
           kept  == {i \in first : \A d \in requestQueue[s] : d.seqNum # q[i].seqNum}
           new   == {q[i] : i \in kept}
<1>1. requestQueue' = [requestQueue EXCEPT ![s] = @ \cup new]
  BY DEF Gathered
<1>2. q \in Seq(Requests) /\ Entries(p) \subseteq Requests
  BY LogTyped
<1>3. Len(q) \in Nat /\ DOMAIN q = 1..Len(q) /\ Entries(p) = {q[i] : i \in 1..Len(q)}
  <2>1. Len(q) \in Nat /\ DOMAIN q = 1..Len(q)
    BY <1>2
  <2> QED
    BY <2>1 DEF Entries, ToSet
<1>4. requestQueue \in [Servers -> SUBSET Requests]
  BY DEF ProcessesTypeOK
<1> HIDE DEF q
<1>5. new \subseteq Entries(p)
  BY <1>3
<1>6. ASSUME s \in Home, p \in Home PROVE Entries(p) \subseteq requestQueue[s] \cup new
  <2> SUFFICES ASSUME NEW e \in Entries(p), e \notin requestQueue[s] PROVE e \in new
    OBVIOUS
  <2> DEFINE T == {i \in 1..Len(q) : q[i] = e}
  <2>1. T \subseteq Nat /\ T # {}
    BY <1>3
  <2>2. PICK i \in T : \A j \in T : i <= j
    BY <2>1, SmallestExists
  <2>3. i \in 1..Len(q) /\ q[i] = e
    OBVIOUS
  <2>4. \A j \in 1..(i - 1) : q[j].seqNum # q[i].seqNum
    <3> SUFFICES ASSUME NEW j \in 1..(i - 1), q[j].seqNum = q[i].seqNum PROVE FALSE
      OBVIOUS
    <3>1. j \in 1..Len(q) /\ j < i
      BY <1>3, <2>3
    <3>2. q[j] \in Entries(p)
      BY <1>3, <3>1
    <3>3. q[j] = e
      <4>1. PICK d \in Entries(p) : d = q[j]
        BY <3>2
      <4>2. /\ d = Entry(d.write) /\ e = Entry(e.write)
            /\ d.seqNum = e.seqNum <=> d.write = e.write
        BY <1>6, SameNumber
      <4> QED
        BY <2>3, <4>1, <4>2
    <3>4. i <= j
      BY <2>2, <3>1, <3>3
    <3> QED
      BY <1>3, <3>1, <3>4
  <2>5. \A d \in requestQueue[s] : d.seqNum # q[i].seqNum
    <3> SUFFICES ASSUME NEW d \in requestQueue[s], d.seqNum = e.seqNum PROVE FALSE
      BY <2>3
    <3>1. /\ d = Entry(d.write) /\ e = Entry(e.write)
          /\ d.seqNum = e.seqNum <=> d.write = e.write
      BY <1>6, SameNumber
    <3>2. d = e
      BY <3>1
    <3> QED
      BY <3>2
  <2>6. i \in kept
    BY <2>3, <2>4, <2>5
  <2> QED
    BY <2>3, <2>6
<1> HIDE DEF new
<1>7. /\ requestQueue'[s] = requestQueue[s] \cup new
      /\ \A t \in Servers : t # s => requestQueue'[t] = requestQueue[t]
  BY <1>1, <1>4
<1>8. requestQueue' \in [Servers -> SUBSET Requests]
  BY <1>1, <1>2, <1>4, <1>5
<1> QED
  BY <1>5, <1>6, <1>7, <1>8

LEMMA HomeQuiet ==
    ASSUME HomeInv, UNCHANGED <<log, requestQueue, primary, req, seqNumMap>>
    PROVE  HomeInv'
<1>1. /\ Home' = Home /\ Home \subseteq Servers
      /\ \A s : Entries(s)' = Entries(s)
  BY DEF Home, ServersIn, Entries, LogOf
<1>2. ASSUME NEW s \in Servers, NEW e \in Entries(s)' \cup requestQueue'[s] PROVE FitsFor(s, e)
  BY <1>1 DEF HomeInv, AllFit, FitsFor
<1>3. AllFit'
  BY <1>2, FitsKept DEF Writes
<1>4. AsksHome'
  BY <1>1 DEF HomeInv, AsksHome
<1> QED
  BY <1>3, <1>4, HomeKept

LEMMA HomeRequestWrite ==
    ASSUME Inv, HomeInv, NEW g \in Groups, NEW f \in Files, NEW type \in WriteTypes,
           RequestWrite(g, f, type)
    PROVE  HomeInv'
<1> DEFINE r == [file |-> f, type |-> type, group |-> g,
                 servers |-> serverGroup[g], seqNum |-> seqNumMap[g]]
<1>1. /\ Len(req) \in Nat /\ seqNumMap \in [Groups -> Nat] /\ 1 \in Groups
      /\ UNCHANGED <<log, requestQueue, primary>>
      /\ seqNumMap' = [seqNumMap EXCEPT ![g] = @ + 1]
  BY Constants DEF Inv, WritesTypeOK, RequestWrite, processVars
<1>2. PICK m \in Nat, n \in Nat : m = Len(req) /\ n = m + 1
  BY <1>1
<1>3. /\ Len(req') = n /\ req'[n] = r
      /\ \A v \in 1..m : req'[v] = req[v]
  <2>1. req' = Append(req, r) /\ req \in Seq([file : Files, type : WriteTypes, group : Groups,
                                             servers : Seq(Servers), seqNum : Nat])
    BY DEF RequestWrite, Inv, WritesTypeOK
  <2> HIDE DEF r
  <2> QED
    BY <1>2, <2>1
<1>4. Writes = 1..m /\ Writes' = 1..n /\ Writes' = Writes \cup {n} /\ n \notin Writes
  BY <1>2, <1>3 DEF Writes
<1>5. /\ req'[n].group = g /\ req'[n].seqNum = seqNumMap[g]
      /\ \A v \in Writes : req'[v] = req[v] /\ Ours(v)' = Ours(v)
  BY <1>3, <1>4 DEF Ours
<1> HIDE DEF r
<1>6. /\ Home' = Home /\ Home \subseteq Servers
      /\ \A s : Entries(s)' = Entries(s)
  BY <1>1 DEF Home, ServersIn, Entries, LogOf
<1>7. AllFit'
  <2>1. ASSUME NEW s \in Servers, NEW e \in Entries(s)' \cup requestQueue'[s]
        PROVE  FitsFor(s, e)
    BY <1>1, <1>6 DEF HomeInv, AllFit, FitsFor
  <2> QED
    BY <1>4, <1>5, <2>1, FitsKept
<1>8. AsksHome'
  BY <1>1, <1>6 DEF HomeInv, AsksHome
<1>9. ASSUME NEW v \in Writes', NEW w \in Writes', Ours(v)', Ours(w)'
      PROVE  req'[v].seqNum < seqNumMap'[1] /\ (v < w => req'[v].seqNum < req'[w].seqNum)
  <2>1. PICK c \in Nat, d \in Nat : c = seqNumMap[1] /\ d = seqNumMap'[1]
    BY <1>1
  <2>2. c <= d /\ (g = 1 => d = c + 1)
    BY <1>1, <2>1
  <2>3. \A u \in Writes : Ours(u) => req[u].seqNum \in Nat /\ req[u].seqNum < c
    BY <2>1, RequestTyped DEF HomeInv, AllNumbered, Numbered, Inv
  <2>4. Ours(n)' => g = 1 /\ req'[n].seqNum = c
    BY <1>5, <2>1 DEF Ours
  <2>5. CASE v \in Writes /\ w \in Writes
    <3>1. /\ req'[v] = req[v] /\ req'[w] = req[w] /\ Ours(v) /\ Ours(w)
      BY <1>5, <1>9, <2>5
    <3>2. /\ req[v].seqNum \in Nat /\ req[v].seqNum < c
          /\ v < w => req[v].seqNum < req[w].seqNum
      BY <2>3, <2>5, <3>1 DEF HomeInv, AllNumbered, Numbered
    <3> QED
      BY <2>1, <2>2, <3>1, <3>2
  <2>6. CASE v \in Writes /\ w = n
    <3>1. req'[v] = req[v] /\ Ours(v)
      BY <1>5, <1>9, <2>6
    <3>2. req[v].seqNum \in Nat /\ req[v].seqNum < c
      BY <2>3, <2>6, <3>1
    <3> QED
      BY <1>9, <2>1, <2>2, <2>4, <2>6, <3>1, <3>2
  <2>7. CASE v = n
    <3>1. req'[v].seqNum = c /\ d = c + 1
      BY <1>9, <2>2, <2>4, <2>7
    <3>2. ~ (v < w)
      BY <1>2, <1>4, <2>7
    <3> QED
      BY <2>1, <3>1, <3>2
  <2> QED
    BY <1>4, <2>5, <2>6, <2>7
<1>10. AllNumbered'
  BY <1>9 DEF AllNumbered, Numbered
<1> QED
  BY <1>7, <1>8, <1>10 DEF HomeInv

(* The entry a step has added is of a write, and for the server it is at.  *)
LEMMA HomeLogged ==
    ASSUME Inv, HomeInv, NEW s \in Servers, NEW w \in Writes, s \in Home => Ours(w),
           log' = [t \in Servers |-> IF t = s THEN Appended(t, Entry(w)) ELSE log[t]],
           \A t \in Servers : requestQueue'[t] \subseteq requestQueue[t],
           UNCHANGED <<primary, req, seqNumMap>>
    PROVE  HomeInv'
<1>1. PICK e \in Requests : e = Entry(w) /\ e.write = w
  BY EntryTyped DEF Inv
<1>2. PICK by \in SUBSET Servers : by = {s}
  OBVIOUS
<1>3. log' = [t \in Servers |-> IF t \in by THEN Appended(t, e) ELSE log[t]]
  BY <1>1, <1>2
<1>4. \A t \in Servers : Entries(t)' \subseteq Entries(t) \cup IF t = s THEN {e} ELSE {}
  <2> SUFFICES ASSUME NEW t \in Servers
               PROVE  Entries(t)' \subseteq Entries(t) \cup IF t = s THEN {e} ELSE {}
    OBVIOUS
  <2>1. CASE t = s
    <3>1. log'[t] = Appended(t, e)
      BY <1>1, <2>1
    <3>2. Entries(t)' = Entries(t) \cup {e}
      BY <3>1, LoggedAppended, NewEntries DEF Inv
    <3> QED
      BY <2>1, <3>2
  <2>2. CASE t # s
    BY <2>2 DEF Entries, LogOf
  <2> QED
    BY <2>1, <2>2
<1>5. Fits(s, e)
  BY <1>1 DEF Fits
<1>6. ASSUME NEW t \in Servers, NEW d \in Entries(t)' \cup requestQueue'[t] PROVE FitsFor(t, d)
  <2>1. CASE t = s /\ d = e
    BY <1>5, <2>1 DEF FitsFor
  <2>2. CASE d \in Entries(t) \cup requestQueue[t]
    BY <2>2 DEF HomeInv, AllFit, FitsFor
  <2> QED
    BY <1>4, <2>1, <2>2
<1>7. AllFit'
  BY <1>6, FitsKept DEF Writes
<1>8. AsksHome'
  BY DEF HomeInv, AsksHome, Home, ServersIn
<1> QED
  BY <1>7, <1>8, HomeKept

LEMMA HomeServe ==
    ASSUME Inv, HomeInv, NEW w \in Writes, Serve(w)
    PROVE  HomeInv'
<1>1. CASE Forward(w)
  BY <1>1, HomeQuiet DEF Forward, processVars, mapVars
<1>2. CASE AppendLog(w)
  <2>1. /\ handler[w].at \in 1..Len(ServersOf(w))
        /\ UNCHANGED <<primary, req, seqNumMap, requestQueue>>
        /\ log' = [log EXCEPT ![Target(w)] = Appended(Target(w), Entry(w))]
    BY <1>2 DEF AppendLog, mapVars, Inv, Placed
  <2>2. PICK s \in Servers : s = Target(w) /\ s \in ServersIn(req[w].group)
    BY <2>1, RequestTyped DEF Inv, Placed, Target, ServersOf
  <2>3. s \in Home => Ours(w)
    BY <2>2 DEF Home, ServersIn, Ours
  <2>4. log' = [t \in Servers |-> IF t = s THEN Appended(t, Entry(w)) ELSE log[t]]
    BY <2>1, <2>2 DEF Inv, ProcessesTypeOK
  <2> QED
    BY <2>1, <2>3, <2>4, HomeLogged
<1>3. CASE Apply(w)
  BY <1>3, HomeQuiet DEF Apply, mapVars
<1>4. CASE Return(w)
  BY <1>4, HomeQuiet DEF Return, processVars
<1> QED
  BY <1>1, <1>2, <1>3, <1>4 DEF Serve

(* A step that only takes entries away.                                    *)
LEMMA HomeLess ==
    ASSUME HomeInv, UNCHANGED <<req, seqNumMap>>, AsksHome',
           \A t \in Servers : Entries(t)' \cup requestQueue'[t]
                                \subseteq Entries(t) \cup requestQueue[t]
    PROVE  HomeInv'
<1>1. ASSUME NEW s \in Servers, NEW e \in Entries(s)' \cup requestQueue'[s] PROVE FitsFor(s, e)
  BY DEF HomeInv, AllFit, FitsFor
<1>2. AllFit'
  BY <1>1, FitsKept DEF Writes
<1> QED
  BY <1>2, HomeKept

LEMMA HomeCrash ==
    ASSUME Inv, HomeInv, NEW s \in Servers, Crash(s)
    PROVE  HomeInv'
<1>1. /\ UNCHANGED <<log, req, seqNumMap>>
      /\ primary' = [primary EXCEPT ![s] = s]
      /\ requestQueue' = [requestQueue EXCEPT ![s] = {}]
      /\ primary \in [Servers -> Servers] /\ requestQueue \in [Servers -> SUBSET Requests]
  BY DEF Crash, mapVars, Inv, ProcessesTypeOK
<1>2. AsksHome'
  BY <1>1 DEF HomeInv, AsksHome, Home, ServersIn
<1>3. \A t \in Servers : Entries(t)' = Entries(t) /\ requestQueue'[t] \subseteq requestQueue[t]
  BY <1>1 DEF Entries, LogOf
<1> QED
  BY <1>1, <1>2, <1>3, HomeLess

(* What a server gathers comes from a server of its group, if that is the  *)
(* first one.                                                              *)
LEMMA HomeGathered ==
    ASSUME Inv, HomeInv, NEW s \in Servers, NEW p \in Servers, s \in Home => p \in Home,
           requestQueue' = Gathered(s, LogOf(p)),
           UNCHANGED <<log, req, seqNumMap>>, AsksHome'
    PROVE  HomeInv'
<1>1. /\ requestQueue'[s] \subseteq requestQueue[s] \cup Entries(p)
      /\ \A t \in Servers : t # s => requestQueue'[t] = requestQueue[t]
      /\ \A t \in Servers : Entries(t)' = Entries(t)
  BY GatheredAll DEF Inv, Entries, LogOf
<1>2. ASSUME NEW t \in Servers, NEW e \in Entries(t)' \cup requestQueue'[t] PROVE FitsFor(t, e)
  <2>1. CASE e \in Entries(t) \cup requestQueue[t]
    BY <2>1 DEF HomeInv, AllFit, FitsFor
  <2>2. CASE t = s /\ e \in Entries(p)
    BY <2>2 DEF HomeInv, AllFit, FitsFor
  <2> QED
    BY <1>1, <2>1, <2>2
<1>3. AllFit'
  BY <1>2, FitsKept DEF Writes
<1> QED
  BY <1>3, HomeKept

LEMMA HomeRecover ==
    ASSUME Inv, HomeInv, NEW s \in Servers, Recover(s)
    PROVE  HomeInv'
<1>0. /\ primary \in [Servers -> Servers] /\ Home' = Home /\ Home \subseteq Servers
      /\ primary[s] \in Servers /\ (s \in Home => primary[s] \in Home)
  BY DEF Inv, ProcessesTypeOK, Home, ServersIn, HomeInv, AsksHome
<1>1. CASE ReadLog(s)
  <2>1. UNCHANGED <<log, primary, req, seqNumMap>> /\ requestQueue' = Gathered(s, LogOf(s))
    BY <1>1 DEF ReadLog, writeVars, mapVars
  <2>2. AsksHome'
    BY <1>0, <2>1 DEF HomeInv, AsksHome
  <2> QED
    BY <2>1, <2>2, HomeGathered
<1>2. CASE AskForPrimary(s)
  <2>1. /\ UNCHANGED <<log, requestQueue, req, seqNumMap>>
        /\ primary' = [primary EXCEPT ![s] = Primary(1)]
    BY <1>2 DEF AskForPrimary, PrimaryTold, writeVars, mapVars
  <2>2. Primary(1) \in Home
    BY Constants, Deque DEF Inv, Home
  <2>3. AsksHome'
    BY <1>0, <2>1, <2>2 DEF HomeInv, AsksHome
  <2>4. \A t \in Servers : Entries(t)' = Entries(t)
    BY <2>1 DEF Entries, LogOf
  <2> QED
    BY <2>1, <2>3, <2>4, HomeLess
<1>3. CASE AskForLog(s)
  <2>1. PICK p \in Servers : p = primary[s] /\ (s \in Home => p \in Home)
    BY <1>0
  <2>2. /\ UNCHANGED <<log, req, seqNumMap>>
        /\ primary' = [primary EXCEPT ![s] = s]
        /\ UNCHANGED requestQueue \/ requestQueue' = Gathered(s, LogOf(p))
    BY <1>3, <2>1 DEF AskForLog, writeVars, mapVars
  <2>3. AsksHome'
    BY <1>0, <2>2 DEF HomeInv, AsksHome
  <2>4. CASE UNCHANGED requestQueue
    <3>1. \A t \in Servers : Entries(t)' = Entries(t)
      BY <2>2 DEF Entries, LogOf
    <3> QED
      BY <2>2, <2>3, <2>4, <3>1, HomeLess
  <2>5. CASE requestQueue' = Gathered(s, LogOf(p))
    BY <2>1, <2>2, <2>3, <2>5, HomeGathered
  <2> QED
    BY <2>2, <2>4, <2>5
<1>4. CASE Clear(s)
  <2>1. /\ UNCHANGED <<primary, requestQueue, req, seqNumMap>>
        /\ log' = [log EXCEPT ![s] = <<>>]
        /\ log \in [Servers -> Seq(Requests) \cup {NoFile}]
    BY <1>4 DEF Clear, writeVars, mapVars, Inv, ProcessesTypeOK
  <2>2. AsksHome'
    BY <1>0, <2>1 DEF HomeInv, AsksHome
  <2>3. ASSUME NEW t \in Servers PROVE Entries(t)' \subseteq Entries(t)
    <3>1. CASE t = s
      <4>1. log'[t] = <<>>
        BY <2>1, <3>1
      <4>2. LogOf(t)' = <<>>
        BY <4>1 DEF LogOf
      <4>3. Entries(t)' = {}
        BY <4>2 DEF Entries, ToSet
      <4> QED
        BY <4>3
    <3>2. CASE t # s
      BY <2>1, <3>2 DEF Entries, LogOf
    <3> QED
      BY <3>1, <3>2
  <2> QED
    BY <2>1, <2>2, <2>3, HomeLess
<1>5. CASE Replay(s)
  <2>1. requestQueue[s] # {} /\ UNCHANGED <<primary, req, seqNumMap>>
    BY <1>5 DEF Replay, writeVars, mapVars
  <2>2. PICK e \in requestQueue[s] : e = FirstRequest(s)
    BY <2>1, FirstExists DEF Inv
  <2>3. Fits(s, e)
    BY DEF HomeInv, AllFit
  <2>4. e.replicas = {}
    BY <2>3 DEF Fits, Entry
  <2>5. /\ log' = [t \in Servers |-> IF t = s THEN Appended(t, Entry(e.write)) ELSE log[t]]
        /\ requestQueue' = [requestQueue EXCEPT ![s] = RequestsLeft(s, e)]
    <3>1. LET c == FirstRequest(s)
              by == {s} \cup {t \in c.replicas : Runs(t)}
          IN  /\ log' = [t \in Servers |->
                           IF t \in by THEN Appended(t, Entry(c.write)) ELSE log[t]]
              /\ requestQueue' = [requestQueue EXCEPT ![s] = RequestsLeft(s, c)]
      BY <1>5 DEF Replay
    <3> QED
      BY <2>2, <2>4, <3>1
  <2>6. \A t \in Servers : requestQueue'[t] \subseteq requestQueue[t]
    BY <2>5 DEF RequestsLeft, Inv, ProcessesTypeOK
  <2> QED
    BY <2>1, <2>3, <2>5, <2>6, HomeLogged DEF Fits
<1>6. CASE EndRecovery(s)
  BY <1>6, HomeQuiet DEF EndRecovery, writeVars, mapVars
<1> QED
  BY <1>1, <1>2, <1>3, <1>4, <1>5, <1>6 DEF Recover

LEMMA HomeStep ==
    ASSUME Inv, HomeInv, [Next]_vars
    PROVE  HomeInv'
<1>1. CASE UNCHANGED vars
  BY <1>1, HomeQuiet DEF vars, processVars, writeVars, mapVars
<1>2. CASE heartbeatThreadFn /\ UNCHANGED <<processVars, writeVars, historyVars>>
  BY <1>2, HomeQuiet DEF processVars, writeVars, mapVars
<1>3. ASSUME NEW s \in Servers, StartAgain(s) PROVE HomeInv'
  BY <1>3, HomeQuiet DEF StartAgain, writeVars, mapVars
<1>4. CASE Next
  BY <1>2, <1>3, <1>4, HomeRequestWrite, HomeServe, HomeCrash, HomeRecover DEF Next
<1> QED
  BY <1>1, <1>4

-----------------------------------------------------------------------------
(* The steps of a server on its way back.  They change nothing about the   *)
(* writes; what they owe is about the server itself.                       *)
Stays(t) ==
    /\ Runs(t)' = Runs(t) /\ recovery'[t] = recovery[t]
    /\ requestQueue'[t] = requestQueue[t]
    /\ \A w \in Nat : Logged(t, w) => Logged(t, w)'

LEMMA KnowsStays ==
    ASSUME NEW t \in Servers, NEW w \in Nat, Stays(t)
    PROVE  /\ Logged(t, w) => Logged(t, w)'
           /\ Away(t)' = Away(t)
           /\ Knows(t, w) => Knows(t, w)'
BY DEF Stays, Knows, Away, Catches, InQueue

(* No write of the group is being waited for.                              *)
Quiet == \A w \in Writes : Ours(w) => rpc[w] # "calling"

LEMMA RecoverStepInv ==
    ASSUME Inv, NEW s \in Servers, UNCHANGED <<req, rpc, handler, overlap, skipped>>,
           UNCHANGED <<metadataMap, seqNumMap>>,
           FailoverInv', ProcessesTypeOK', Window',
           missed' \cup alone' \subseteq Groups,
           missed \subseteq missed', alone \subseteq alone',
           \A t \in Servers : t # s => Stays(t),
           s \in Home /\ Regular' => Quiet \/ Away(s)',
           s \in Home /\ Regular' =>
              \A w \in Writes : Acked(w) /\ (\A t \in Home : Knows(t, w)) => Knows(s, w)'
    PROVE  Inv'
<1>0. /\ Home' = Home /\ Home \subseteq Servers
      /\ \A w \in Writes : Ours(w)' = Ours(w) /\ ServersOf(w)' = ServersOf(w)
  BY DEF Home, ServersIn, Ours, ServersOf
<1>1. Writes' = Writes /\ \A w \in Writes : w \in Nat
  BY RequestTyped DEF Writes, Inv
<1>2. WritesTypeOK'
  BY <1>1 DEF Inv, WritesTypeOK
<1>3. \A w \in Writes' : Placed(w)' /\ Attended(w)'
  BY <1>0, <1>1 DEF Inv, Placed, Attended, ServersIn
<1>4. ASSUME Regular', NEW w \in Writes PROVE Reached(w)' /\ Learned(w)'
  <2>1. Regular /\ Reached(w) /\ Learned(w) /\ w \in Nat
    BY <1>1, <1>4 DEF Inv, Regular
  <2>2. Reached(w)'
    <3> SUFFICES ASSUME Ours(w), rpc[w] = "calling", NEW t \in Home
                 PROVE  Logged(t, w)' \/ Pending(t, w)' \/ Away(t)'
      BY <1>0 DEF Reached
    <3>1. Pending(t, w)' = Pending(t, w)
      BY DEF Pending, ToCome, ServersOf
    <3>2. CASE t = s
      BY <1>4, <3>2 DEF Quiet
    <3>3. CASE t # s
      BY <1>0, <2>1, <3>1, <3>3, KnowsStays DEF Reached
    <3> QED
      BY <3>2, <3>3
  <2>3. Learned(w)'
    <3> SUFFICES ASSUME Ours(w), Acked(w), NEW t \in Home PROVE Knows(t, w)'
      BY <1>0 DEF Learned, Acked
    <3>1. \A u \in Home : Knows(u, w)
      BY <2>1 DEF Learned
    <3>2. CASE t = s
      BY <1>4, <3>1, <3>2
    <3>3. CASE t # s
      BY <1>0, <2>1, <3>1, <3>3, KnowsStays
    <3> QED
      BY <3>2, <3>3
  <2> QED
    BY <2>2, <2>3
<1> QED
  BY <1>1, <1>2, <1>3, <1>4 DEF Inv

(* Who is on the way back is not running, and while a server of the group  *)
(* is past the question for the primary no write is in progress there.     *)
LEMMA OnTheWay ==
    ASSUME Inv, NEW s \in Servers, recovery[s] # "off"
    PROVE  /\ ~ Runs(s) /\ server[s] = "RECOVERING"
           /\ s \in Home /\ Catches(s) /\ 1 \notin missed => Active(1) = {} /\ Quiet
           /\ ~ Catches(s) => Away(s)
<1>1. server[s] = "RECOVERING"
  BY DEF Inv, ProcessesTypeOK
<1>2. s \in Home /\ Catches(s) /\ 1 \notin missed => Active(1) = {}
  BY DEF Inv, Window, CatchingUp, Catches, Home
<1>3. Active(1) = {} => Quiet
  BY DEF Active, WritesOf, Quiet, Ours
<1> QED
  BY <1>1, <1>2, <1>3 DEF Runs, Away

LEMMA WindowKept ==
    ASSUME Inv, UNCHANGED <<req, rpc, handler>>, missed \subseteq missed',
           \A t \in Home : Catches(t)' => Catches(t) \/ 1 \in missed' \/ Active(1) = {}
    PROVE  Window'
<1>1. Active(1)' = Active(1)
  BY DEF Active, WritesOf, Writes
<1>2. CatchingUp(1)' \subseteq CatchingUp(1) \/ 1 \in missed' \/ Active(1) = {}
  BY DEF CatchingUp, Catches, Home, ServersIn
<1> QED
  BY <1>1, <1>2 DEF Inv, Window

LEMMA SameProcesses ==
    ASSUME Inv, UNCHANGED failoverVars
    PROVE  FailoverInv' /\ UNCHANGED server
<1>1. [FailoverNext]_failoverVars
  OBVIOUS
<1> QED
  BY <1>1, FailoverStepInv DEF Inv, failoverVars

LEMMA StartAgainInv ==
    ASSUME Inv, NEW s \in Servers, StartAgain(s)
    PROVE  Inv'
<1>1. /\ UNCHANGED <<log, lockKept, table, primary, requestQueue>>
      /\ UNCHANGED <<req, rpc, handler>> /\ UNCHANGED <<overlap, missed, alone, skipped>>
      /\ UNCHANGED <<metadataMap, seqNumMap>>
      /\ recovery' = [recovery EXCEPT ![s] = "local"]
      /\ server' = [server EXCEPT ![s] = "RECOVERING"] /\ server[s] = "DOWN"
      /\ server \in [Servers -> {"DOWN", "RUNNING", "RECOVERING"}]
  BY DEF StartAgain, Restart, Goto, writeVars, mapVars, historyVars, Inv, FailoverInv, Types
<1>2. FailoverInv'
  <2>1. [FailoverNext]_failoverVars
    BY DEF StartAgain, FailoverNext
  <2> QED
    BY <2>1, FailoverStepInv DEF Inv
<1>3. recovery \in [Servers -> Stages] /\ recovery[s] = "off"
  BY <1>1 DEF Inv, ProcessesTypeOK
<1>4. ProcessesTypeOK'
  BY <1>1 DEF Inv, ProcessesTypeOK, Stages
<1>5. Away(s)' /\ ~ Runs(s)' /\ \A t \in Servers : Catches(t)' => Catches(t)
  BY <1>1, <1>3 DEF Catches, Away, Runs
<1>6. Window'
  BY <1>1, <1>5, WindowKept DEF Home, ServersIn
<1>7. \A t \in Servers : t # s => Stays(t)
  BY <1>1, <1>3 DEF Stays, Runs, Logged, Entries, LogOf
<1>8. \A w \in Writes : Knows(s, w)'
  BY <1>1, <1>3, <1>5 DEF Knows
<1> QED
  BY <1>1, <1>2, <1>4, <1>5, <1>6, <1>7, <1>8, RecoverStepInv DEF Inv, WritesTypeOK

LEMMA ReadLogInv ==
    ASSUME Inv, HomeInv, NEW s \in Servers, ReadLog(s)
    PROVE  Inv'
<1>1. /\ recovery[s] = "local"
      /\ UNCHANGED failoverVars /\ UNCHANGED <<log, table, primary>>
      /\ UNCHANGED <<req, rpc, handler>> /\ UNCHANGED <<overlap, missed, alone, skipped>>
      /\ UNCHANGED <<metadataMap, seqNumMap>>
      /\ recovery' = [recovery EXCEPT ![s] = "ask"]
      /\ requestQueue' = Gathered(s, LogOf(s))
      /\ lockKept' \subseteq lockKept \cup {s}
  BY DEF ReadLog, Goto, LockAfterGet, writeVars, mapVars, historyVars
<1>2. FailoverInv' /\ UNCHANGED server
  BY <1>1, SameProcesses
<1>3. recovery \in [Servers -> Stages]
  BY DEF Inv, ProcessesTypeOK
<1>a. /\ requestQueue' \in [Servers -> SUBSET Requests]
      /\ \A t \in Servers : t # s => requestQueue'[t] = requestQueue[t]
  BY <1>1, GatheredAll DEF Inv
<1>4. ProcessesTypeOK'
  BY <1>1, <1>2, <1>3, <1>a DEF Inv, ProcessesTypeOK, Stages
<1>5. ~ Runs(s)' /\ Away(s)' /\ \A t \in Servers : Catches(t)' => Catches(t)
  BY <1>1, <1>2, <1>3, OnTheWay DEF Catches, Away, Runs
<1>6. Window'
  BY <1>1, <1>5, WindowKept DEF Home, ServersIn
<1>7. \A t \in Servers : t # s => Stays(t)
  BY <1>1, <1>2, <1>3, <1>a DEF Stays, Runs, Logged, Entries, LogOf
<1>8. \A w \in Writes : Knows(s, w)'
  BY <1>1, <1>3, <1>5 DEF Knows
<1> QED
  BY <1>1, <1>2, <1>4, <1>5, <1>6, <1>7, <1>8, RecoverStepInv DEF Inv, WritesTypeOK

LEMMA AskForPrimaryInv ==
    ASSUME Inv, NEW s \in Servers, AskForPrimary(s)
    PROVE  Inv'
<1>1. /\ recovery[s] = "ask"
      /\ UNCHANGED failoverVars /\ UNCHANGED <<log, lockKept, table, requestQueue>>
      /\ UNCHANGED <<req, rpc, handler>> /\ UNCHANGED <<overlap, alone, skipped>>
      /\ recovery' = [recovery EXCEPT ![s] = "log"]
      /\ primary' = [primary EXCEPT ![s] = Primary(1)]
      /\ UNCHANGED <<metadataMap, seqNumMap>>
      /\ missed' = missed \cup Noted(Group(s), Active(Group(s)) # {})
  BY DEF AskForPrimary, PrimaryTold, Goto, writeVars, mapVars
<1>2. FailoverInv' /\ UNCHANGED server
  BY <1>1, SameProcesses
<1>3. recovery \in [Servers -> Stages] /\ Primary(1) \in Servers
  BY Constants, Deque DEF Inv, ProcessesTypeOK, ServersIn
<1>4. ProcessesTypeOK'
  BY <1>1, <1>2, <1>3 DEF Inv, ProcessesTypeOK, Stages
<1>5. ~ Runs(s)' /\ Group(s) \in Groups
  BY <1>1, <1>2, OnTheWay DEF Runs, Servers, Group
<1>a. missed' \cup alone' \subseteq Groups /\ missed \subseteq missed'
  BY <1>1, <1>5 DEF Inv, WritesTypeOK, Noted
<1>b. s \in Home => 1 \in missed' \/ Active(1) = {}
  BY <1>1 DEF Home, ServersIn, Noted
<1>6. Window'
  <2>1. \A t \in Servers : t # s => (Catches(t)' => Catches(t))
    BY <1>1, <1>3 DEF Catches
  <2> QED
    BY <1>1, <1>a, <1>b, <2>1, WindowKept DEF Home, ServersIn
<1>7. \A t \in Servers : t # s => Stays(t)
  BY <1>1, <1>2, <1>3 DEF Stays, Runs, Logged, Entries, LogOf
<1>8. \A w \in Writes : Knows(s, w)'
  BY <1>1, <1>3, <1>5 DEF Knows
<1>9. s \in Home /\ Regular' => Quiet
  BY <1>b DEF Regular, Active, WritesOf, Quiet, Ours
<1> QED
  BY <1>1, <1>2, <1>4, <1>6, <1>7, <1>8, <1>9, <1>a, RecoverStepInv DEF Inv, WritesTypeOK

LEMMA AskForLogInv ==
    ASSUME Inv, HomeInv, NEW s \in Servers, AskForLog(s)
    PROVE  Inv'
<1>1. PICK p \in Servers : p = primary[s] /\ (s \in Home => p \in Home)
  BY DEF Inv, ProcessesTypeOK, HomeInv, AsksHome
<1>2. /\ recovery[s] = "log"
      /\ UNCHANGED failoverVars /\ UNCHANGED <<log, table>>
      /\ UNCHANGED <<req, rpc, handler>> /\ UNCHANGED <<overlap, missed, skipped>>
      /\ UNCHANGED <<metadataMap, seqNumMap>>
      /\ recovery' = [recovery EXCEPT ![s] = "clear"]
      /\ primary' = [primary EXCEPT ![s] = s]
      /\ \/ /\ Runs(p)
            /\ requestQueue' = Gathered(s, LogOf(p))
            /\ lockKept' \subseteq lockKept \cup {p}
            /\ UNCHANGED alone
         \/ /\ alone' = alone \cup {Group(s)}
            /\ UNCHANGED <<requestQueue, lockKept>>
  BY <1>1 DEF AskForLog, Goto, LockAfterGet, writeVars, mapVars
<1>3. FailoverInv' /\ UNCHANGED server
  BY <1>2, SameProcesses
<1>4. recovery \in [Servers -> Stages] /\ requestQueue \in [Servers -> SUBSET Requests]
  BY DEF Inv, ProcessesTypeOK
<1>a. /\ requestQueue' \in [Servers -> SUBSET Requests]
      /\ \A t \in Servers : t # s => requestQueue'[t] = requestQueue[t]
      /\ s \in Home /\ requestQueue' = Gathered(s, LogOf(p)) =>
           requestQueue'[s] = requestQueue[s] \cup Entries(p)
  BY <1>1, <1>2, <1>4, GatheredAll DEF Inv
<1>b. Group(s) \in Groups /\ (s \in Home => Group(s) = 1)
  BY DEF Servers, Group, Home, ServersIn
<1>5. ProcessesTypeOK'
  <2>1. requestQueue' \in [Servers -> SUBSET Requests]
    BY <1>a
  <2>2. lockKept' \subseteq Servers
    BY <1>2 DEF Inv, ProcessesTypeOK
  <2> QED
    BY <1>2, <1>3, <1>4, <2>1, <2>2 DEF Inv, ProcessesTypeOK, Stages
<1>6. ~ Runs(s)' /\ Catches(s) /\ \A t \in Servers : Catches(t)' => Catches(t)
  BY <1>2, <1>3, <1>4, OnTheWay DEF Runs, Catches
<1>7. Window' /\ missed' \cup alone' \subseteq Groups /\ alone \subseteq alone'
  <2>1. Window'
    BY <1>2, <1>6, WindowKept DEF Home, ServersIn
  <2>2. missed' \cup alone' \subseteq Groups /\ alone \subseteq alone'
    BY <1>2, <1>b DEF Inv, WritesTypeOK
  <2> QED
    BY <2>1, <2>2
<1>8. \A t \in Servers : t # s => Stays(t)
  BY <1>2, <1>3, <1>4, <1>a DEF Stays, Runs, Logged, Entries, LogOf
<1>9. s \in Home /\ Regular' => Quiet
  BY <1>2, <1>6, OnTheWay DEF Regular
<1>10. ASSUME s \in Home, Regular', NEW w \in Writes, \A t \in Home : Knows(t, w)
       PROVE  Knows(s, w)'
  <2>1. Runs(p) /\ requestQueue'[s] = requestQueue[s] \cup Entries(p)
    BY <1>2, <1>a, <1>b, <1>10 DEF Regular
  <2>2. \E e \in Entries(p) : e.write = w
    BY <1>1, <1>10, <2>1 DEF Knows, Logged
  <2> QED
    BY <1>2, <1>4, <1>6, <2>1, <2>2 DEF Knows, InQueue
<1> QED
  BY <1>2, <1>3, <1>5, <1>7, <1>8, <1>9, <1>10, RecoverStepInv DEF Inv, WritesTypeOK

LEMMA ClearInv ==
    ASSUME Inv, NEW s \in Servers, Clear(s)
    PROVE  Inv'
<1>1. /\ recovery[s] = "clear"
      /\ UNCHANGED failoverVars /\ UNCHANGED <<lockKept, table, primary, requestQueue>>
      /\ UNCHANGED <<req, rpc, handler>> /\ UNCHANGED <<overlap, missed, alone, skipped>>
      /\ UNCHANGED <<metadataMap, seqNumMap>>
      /\ recovery' = [recovery EXCEPT ![s] = "replay"]
      /\ log' = [log EXCEPT ![s] = <<>>]
  BY DEF Clear, Goto, writeVars, mapVars, historyVars
<1>2. FailoverInv' /\ UNCHANGED server
  BY <1>1, SameProcesses
<1>3. /\ recovery \in [Servers -> Stages] /\ log \in [Servers -> Seq(Requests) \cup {NoFile}]
      /\ <<>> \in Seq(Requests)
  BY DEF Inv, ProcessesTypeOK
<1>4. ProcessesTypeOK'
  BY <1>1, <1>2, <1>3 DEF Inv, ProcessesTypeOK, Stages
<1>5. ~ Runs(s)' /\ Catches(s) /\ \A t \in Servers : Catches(t)' => Catches(t)
  BY <1>1, <1>2, <1>3, OnTheWay DEF Runs, Catches
<1>6. Window'
  BY <1>1, <1>5, WindowKept DEF Home, ServersIn
<1>7. \A t \in Servers : t # s => Stays(t)
  BY <1>1, <1>2, <1>3 DEF Stays, Runs, Logged, Entries, LogOf
<1>8. s \in Home /\ Regular' => Quiet
  BY <1>1, <1>5, OnTheWay DEF Regular
<1>9. ASSUME NEW w \in Writes, Knows(s, w) PROVE Knows(s, w)'
  BY <1>1, <1>3, <1>5, <1>9 DEF Knows, InQueue
<1> QED
  BY <1>1, <1>2, <1>4, <1>6, <1>7, <1>8, <1>9, RecoverStepInv DEF Inv, WritesTypeOK

LEMMA ReplayInv ==
    ASSUME Inv, HomeInv, NEW s \in Servers, Replay(s)
    PROVE  Inv'
<1>1. /\ recovery[s] = "replay" /\ requestQueue[s] # {}
      /\ UNCHANGED failoverVars /\ UNCHANGED <<lockKept, recovery, primary>>
      /\ UNCHANGED <<req, rpc, handler>> /\ UNCHANGED <<overlap, missed, alone, skipped>>
      /\ UNCHANGED <<metadataMap, seqNumMap>>
  BY DEF Replay, writeVars, mapVars, historyVars
<1>2. FailoverInv' /\ UNCHANGED server
  BY <1>1, SameProcesses
<1>3. /\ recovery \in [Servers -> Stages] /\ requestQueue \in [Servers -> SUBSET Requests]
      /\ table \in [Servers -> [Files -> Nat]]
  BY DEF Inv, ProcessesTypeOK
<1>4. PICK e \in requestQueue[s] : e = FirstRequest(s)
  BY <1>1, FirstExists DEF Inv
<1>a. Fits(s, e)
  BY DEF HomeInv, AllFit
<1>5. PICK n \in Writes : n = e.write /\ n \in Nat
  BY <1>a, RequestTyped DEF Fits, Inv
<1>6. PICK d \in Requests : d = Entry(n) /\ d.write = n
  BY <1>5, EntryTyped DEF Inv
<1>7. PICK by \in SUBSET Servers : by = {s} \cup {t \in e.replicas : Runs(t)}
  <2>1. e \in Requests
    BY <1>3, <1>4
  <2>2. e.replicas \subseteq Servers
    BY <2>1 DEF Requests
  <2>3. {s} \cup {t \in e.replicas : Runs(t)} \in SUBSET Servers
    BY <2>2
  <2> QED
    BY <2>3
<1>8. /\ log' = [t \in Servers |-> IF t \in by THEN Appended(t, d) ELSE log[t]]
      /\ table' = [t \in Servers |-> IF t \in by THEN Written(t, n) ELSE table[t]]
      /\ requestQueue' = [requestQueue EXCEPT ![s] = RequestsLeft(s, e)]
  <2>1. LET c == FirstRequest(s)
            r == {s} \cup {t \in c.replicas : Runs(t)}
        IN  /\ log' = [t \in Servers |-> IF t \in r THEN Appended(t, Entry(c.write)) ELSE log[t]]
            /\ table' = [t \in Servers |-> IF t \in r THEN Written(t, c.write) ELSE table[t]]
            /\ requestQueue' = [requestQueue EXCEPT ![s] = RequestsLeft(s, c)]
    BY DEF Replay
  <2> QED
    BY <1>4, <1>5, <1>6, <1>7, <2>1, Zenon
<1>9. /\ log' \in [Servers -> Seq(Requests) \cup {NoFile}]
      /\ Grows /\ Logged(s, n)'
  BY <1>6, <1>7, <1>8, AppendGrows DEF Inv
<1>10. table' \in [Servers -> [Files -> Nat]]
  BY <1>3, <1>5, <1>8, WrittenTyped DEF Inv
<1>11. requestQueue' \in [Servers -> SUBSET Requests]
  BY <1>3, <1>8 DEF RequestsLeft
<1>12. ProcessesTypeOK'
  BY <1>1, <1>2, <1>9, <1>10, <1>11 DEF Inv, ProcessesTypeOK
<1>13. ~ Runs(s)' /\ Catches(s) /\ \A t \in Servers : Catches(t)' => Catches(t)
  BY <1>1, <1>2, OnTheWay DEF Runs, Catches
<1>14. Window'
  BY <1>1, <1>13, WindowKept DEF Home, ServersIn
<1>15. \A t \in Servers : t # s => Stays(t)
  BY <1>1, <1>2, <1>3, <1>8, <1>9 DEF Stays, Runs, Grows
<1>16. s \in Home /\ Regular' => Quiet
  BY <1>1, <1>13, OnTheWay DEF Regular
<1>17. ASSUME s \in Home, NEW w \in Writes, Knows(s, w) PROVE Knows(s, w)'
  <2>1. w \in Nat
    BY RequestTyped DEF Inv
  <2>2. Logged(s, w) => Logged(s, w)'
    BY <1>9, <2>1 DEF Grows
  <2>3. InQueue(s, w) => InQueue(s, w)' \/ Logged(s, w)'
    <3>1. ASSUME NEW c \in requestQueue[s], c.write = w, c.write # n
          PROVE  InQueue(s, w)'
      <4>0. c.seqNum # e.seqNum
        BY <1>5, <1>17, <3>1, SameNumber DEF Inv
      <4>1. c \in requestQueue'[s]
        BY <1>3, <1>8, <4>0 DEF RequestsLeft
      <4> QED
        BY <3>1, <4>1 DEF InQueue
    <3> QED
      BY <1>9, <3>1 DEF InQueue
  <2> QED
    BY <1>1, <1>13, <1>17, <2>2, <2>3 DEF Knows
<1> QED
  BY <1>1, <1>2, <1>12, <1>14, <1>15, <1>16, <1>17, RecoverStepInv DEF Inv, WritesTypeOK

LEMMA EndRecoveryInv ==
    ASSUME Inv, NEW s \in Servers, EndRecovery(s)
    PROVE  Inv'
<1>1. /\ recovery[s] = "replay" /\ requestQueue[s] = {}
      /\ UNCHANGED <<log, lockKept, table, primary, requestQueue>>
      /\ UNCHANGED <<req, rpc, handler>> /\ UNCHANGED <<overlap, missed, alone, skipped>>
      /\ UNCHANGED <<metadataMap, seqNumMap>>
      /\ recovery' = [recovery EXCEPT ![s] = "off"]
      /\ server' = [server EXCEPT ![s] = "RUNNING"]
      /\ server \in [Servers -> {"DOWN", "RUNNING", "RECOVERING"}]
  BY DEF EndRecovery, Recovered, Goto, writeVars, mapVars, historyVars, Inv, FailoverInv, Types
<1>2. FailoverInv'
  <2>1. [FailoverNext]_failoverVars
    BY DEF EndRecovery, FailoverNext
  <2> QED
    BY <2>1, FailoverStepInv DEF Inv
<1>3. recovery \in [Servers -> Stages]
  BY DEF Inv, ProcessesTypeOK
<1>4. ProcessesTypeOK'
  BY <1>1 DEF Inv, ProcessesTypeOK, Stages
<1>5. Catches(s) /\ \A t \in Servers : Catches(t)' => Catches(t)
  BY <1>1, <1>3 DEF Catches
<1>6. Window'
  BY <1>1, <1>5, WindowKept DEF Home, ServersIn
<1>7. \A t \in Servers : t # s => Stays(t)
  BY <1>1, <1>3 DEF Stays, Runs, Logged, Entries, LogOf
<1>8. s \in Home /\ Regular' => Quiet
  BY <1>1, <1>5, OnTheWay DEF Regular
<1>9. ASSUME NEW w \in Writes, Knows(s, w) PROVE Knows(s, w)'
  <2>1. Logged(s, w)
    BY <1>1, <1>9 DEF Knows, InQueue
  <2> QED
    BY <1>1, <1>3, <2>1 DEF Knows, Logged, Entries, LogOf
<1> QED
  BY <1>1, <1>2, <1>4, <1>6, <1>7, <1>8, <1>9, RecoverStepInv DEF Inv, WritesTypeOK

LEMMA RecoverInv ==
    ASSUME Inv, HomeInv, NEW s \in Servers, Recover(s)
    PROVE  Inv'
BY ReadLogInv, AskForPrimaryInv, AskForLogInv, ClearInv, ReplayInv, EndRecoveryInv DEF Recover

(* The heartbeat thread changes the deque, and what a new write is sent to.*)
LEMMA QuietInv ==
    ASSUME Inv, FailoverInv', UNCHANGED <<server, processVars, writeVars, historyVars>>
    PROVE  Inv'
<1>1. /\ UNCHANGED <<log, lockKept, table, recovery, primary, requestQueue>>
      /\ UNCHANGED <<req, rpc, handler>> /\ UNCHANGED <<overlap, missed, alone, skipped>>
      /\ UNCHANGED <<metadataMap, seqNumMap>>
  BY DEF processVars, writeVars, mapVars, historyVars
<1>2. ProcessesTypeOK' /\ WritesTypeOK' /\ Window' /\ Writes' = Writes
  <2>1. Window'
    BY <1>1, WindowKept DEF Catches
  <2> QED
    BY <1>1, <2>1 DEF Inv, ProcessesTypeOK, WritesTypeOK, Writes
<1>3. \A w \in Writes : Placed(w)' /\ Attended(w)'
  BY <1>1 DEF Inv, Placed, Attended, ServersOf, ServersIn
<1>4. ASSUME NEW w \in Writes
      PROVE  Reached(w)' = Reached(w) /\ Learned(w)' = Learned(w)
  <2>1. \A t \in Servers : /\ Logged(t, w)' = Logged(t, w) /\ Pending(t, w)' = Pending(t, w)
                           /\ Away(t)' = Away(t) /\ Knows(t, w)' = Knows(t, w)
    BY <1>1 DEF Logged, Entries, LogOf, Pending, ToCome, ServersOf, Away, Runs, Catches,
                Knows, InQueue
  <2>2. Home' = Home /\ Home \subseteq Servers /\ Ours(w)' = Ours(w)
    BY <1>1 DEF Home, ServersIn, Ours
  <2> QED
    BY <1>1, <2>1, <2>2 DEF Reached, Learned, Acked
<1> QED
  BY <1>1, <1>2, <1>3, <1>4 DEF Inv, Regular

LEMMA PollInv ==
    ASSUME Inv, heartbeatThreadFn, UNCHANGED <<processVars, writeVars, historyVars>>
    PROVE  Inv'
<1>1. FailoverInv'
  BY ThreadInv DEF Inv
<1>2. UNCHANGED server
  BY DEF heartbeatThreadFn, Heartbeat, Update, PopFront, PushBack
<1> QED
  BY <1>1, <1>2, QuietInv

LEMMA RecoveryStepInv ==
    ASSUME Inv, HomeInv, [Next]_vars
    PROVE  Inv' /\ HomeInv'
<1>0. HomeInv'
  BY HomeStep
<1>1. CASE UNCHANGED vars
  BY <1>0, <1>1, SameProcesses, QuietInv DEF vars
<1>2. CASE Next
  BY <1>0, <1>2, RequestWriteInv, ServeInv, CrashInv, StartAgainInv, RecoverInv, PollInv DEF Next
<1> QED
  BY <1>0, <1>1, <1>2

-----------------------------------------------------------------------------
(* The state of the servers, their logs and the master's calls has its     *)
(* type; a server is in a stage of its way back just while it recovers.    *)
THEOREM RecoveryTyped == Spec => []TypeOK
<1>1. Init => Inv /\ HomeInv
  BY RecoveryInitInv, HomeInit
<1>2. (Inv /\ HomeInv) /\ [Next]_vars => (Inv /\ HomeInv)'
  BY RecoveryStepInv
<1>3. Inv => TypeOK
  BY InvTypeOK DEF Inv, TypeOK
<1> QED
  BY <1>1, <1>2, <1>3, PTL DEF Spec

(* A server of the first group that runs has in its log every write of the *)
(* group reported as done, also one made while it was down, through any    *)
(* number of deaths, recoveries and failovers, whatever happens in the     *)
(* other groups (WriteServiceImpl, AskForPrimary, AskForLog, WriteCommand).*)
THEOREM CaughtUpHolds == Spec => []CaughtUp
<1>1. Init => Inv /\ HomeInv
  BY RecoveryInitInv, HomeInit
<1>2. (Inv /\ HomeInv) /\ [Next]_vars => (Inv /\ HomeInv)'
  BY RecoveryStepInv
<1>3. Inv => CaughtUp
  BY DEF Inv, CaughtUp, CatchesUp, RunningHaveAcked, Regular, Learned, Knows, WritesOf, Ours, Home
<1> QED
  BY <1>1, <1>2, <1>3, PTL DEF Spec

-----------------------------------------------------------------------------
(* Writes made one at a time.                                              *)

(* What a write leaves in the cell of its file.                            *)
Wanted(w) == IF req[w].type = "PUT" THEN w ELSE Absent
Cell(s, w) == table[s][req[w].file]

(* No later write of the group is to the same file.                        *)
Latest(w) == \A v \in Writes : Ours(v) /\ req[v].file = req[w].file => v <= w

(* A write in progress is the last one of its group.                       *)
OnlyLast == 1 \notin overlap => \A w \in Active(1), v \in Writes : Ours(v) => v <= w

(* The servers at which a write is still to be applied.                    *)
Unapplied(w, j) ==
    \/ handler[w].step = "forward" /\ (j >= handler[w].at \/ j = 1)
    \/ handler[w].step \in {"log", "apply"} /\ (j = 1 \/ (handler[w].at # 1 /\ j >= handler[w].at))

Due(s, w) == \E j \in 1..Len(ServersOf(w)) : ServersOf(w)[j] = s /\ Unapplied(w, j)

(* A server that runs holds what the write left; one that replays its      *)
(* queue has it there, or is past it.                                      *)
Restored(s, w) ==
    /\ Runs(s) => Cell(s, w) = Wanted(w)
    /\ recovery[s] = "replay" =>
         InQueue(s, w) \/ (Cell(s, w) = Wanted(w) /\ \A e \in requestQueue[s] : w < e.write)

Applied(s, w) == Cell(s, w) = Wanted(w) \/ Due(s, w) \/ Away(s)

Held(w) ==
    Ours(w) /\ Latest(w) =>
        /\ Acked(w) => \A s \in Home : Restored(s, w)
        /\ rpc[w] = "calling" => \A s \in Home : Applied(s, w)

HeldInv ==
    /\ OnlyLast
    /\ Regular /\ 1 \notin overlap => \A w \in Writes : Held(w)

LEMMA HeldInit ==
    ASSUME Init
    PROVE  HeldInv
<1>1. Writes = {} /\ Active(1) = {}
  BY DEF Init, Writes, Active, WritesOf
<1> QED
  BY <1>1 DEF HeldInv, OnlyLast

(* A write that a step is not about.                                       *)
LEMMA HeldUnchanged ==
    ASSUME NEW w \in Writes, Held(w), Writes \subseteq Writes',
           \A v \in Writes : req'[v] = req[v],
           rpc'[w] = rpc[w], handler'[w] = handler[w],
           UNCHANGED <<server, recovery, requestQueue>>,
           Ours(w) /\ Latest(w) => \A s \in Home : Cell(s, w)' = Cell(s, w)
    PROVE  Held(w)'
<1>0. Home' = Home /\ \A v \in Writes : Ours(v)' = Ours(v)
  BY DEF Home, ServersIn, Ours
<1> SUFFICES ASSUME Ours(w), Latest(w)'
             PROVE  /\ Acked(w)' => \A s \in Home : Restored(s, w)'
                    /\ rpc'[w] = "calling" => \A s \in Home : Applied(s, w)'
  BY <1>0 DEF Held
<1>1. Latest(w) /\ Wanted(w)' = Wanted(w) /\ Acked(w)' = Acked(w)
  BY <1>0 DEF Latest, Wanted, Acked
<1>2. \A s \in Home : Cell(s, w)' = Cell(s, w)
  BY <1>1
<1>3. \A s \in Home : Runs(s)' = Runs(s) /\ Away(s)' = Away(s) /\ Due(s, w)' = Due(s, w)
  BY DEF Runs, Away, Catches, Due, Unapplied, ServersOf
<1>4. \A s \in Home : Restored(s, w)' = Restored(s, w)
  BY <1>1, <1>2, <1>3 DEF Restored, InQueue
<1>5. \A s \in Home : Applied(s, w)' = Applied(s, w)
  BY <1>1, <1>2, <1>3 DEF Applied
<1> QED
  BY <1>1, <1>4, <1>5 DEF Held

(* A step of the thread of one write.                                      *)
LEMMA HeldThread ==
    ASSUME Inv, HeldInv, NEW w \in Writes, handler[w].step # "off",
           UNCHANGED <<server, recovery, requestQueue, req, historyVars>>,
           \A v \in Writes : v # w => rpc'[v] = rpc[v] /\ handler'[v] = handler[v],
           1 \notin overlap => \A v \in Writes : v # w /\ Ours(v) /\ Latest(v) =>
                                  \A s \in Home : Cell(s, v)' = Cell(s, v),
           Regular /\ 1 \notin overlap /\ Ours(w) => Held(w)'
    PROVE  HeldInv'
<1>1. /\ Writes' = Writes /\ overlap' = overlap /\ Regular' = Regular
      /\ \A v \in Writes : Ours(v)' = Ours(v)
  BY DEF Writes, Regular, historyVars, Ours
<1>2. Active(1)' \subseteq Active(1)
  BY <1>1 DEF Active, WritesOf
<1>3. OnlyLast'
  BY <1>1, <1>2 DEF HeldInv, OnlyLast
<1>4. ASSUME Regular, 1 \notin overlap, NEW v \in Writes PROVE Held(v)'
  <2>1. CASE v = w
    BY <1>1, <1>4, <2>1 DEF Held
  <2>2. CASE v # w
    BY <1>1, <1>4, <2>2, HeldUnchanged DEF HeldInv
  <2> QED
    BY <2>1, <2>2
<1> QED
  BY <1>1, <1>3, <1>4 DEF HeldInv

(* Where the next server of a thread is passed over, or the thread goes    *)
(* to it.                                                                  *)
LEMMA ForwardMoves ==
    ASSUME Inv, NEW w \in Writes, Forward(w)
    PROVE  /\ handler[w].step = "forward" /\ rpc[w] = "calling"
           /\ handler[w].at \in 2..(Len(ServersOf(w)) + 1)
           /\ Len(ServersOf(w)) \in Nat
           /\ \A v \in Writes : v # w => handler'[v] = handler[v]
           /\ \/ /\ handler'[w].step = "log" /\ handler'[w].at = 1
                 /\ handler[w].at > Len(ServersOf(w))
              \/ /\ handler'[w].step = "log" /\ handler'[w].at = handler[w].at
                 /\ handler[w].at <= Len(ServersOf(w))
              \/ /\ handler'[w].step = "forward" /\ handler'[w].at = handler[w].at + 1
                 /\ handler[w].at <= Len(ServersOf(w))
                 /\ ~ Runs(ServersOf(w)[handler[w].at])
<1>1. /\ handler[w].step = "forward" /\ rpc[w] = "calling"
      /\ handler[w].at \in 2..(Len(ServersOf(w)) + 1)
      /\ Len(ServersOf(w)) \in 1..GroupSize /\ GroupSize \in Nat
      /\ req' = req
  BY Constants DEF Forward, Inv, Attended, Placed
<1>2. CASE handler[w].at > Len(ServersOf(w))
  <2>1. handler' = At(w, "log", 1)
    BY <1>2 DEF Forward, ServersOf
  <2>2. MovedTo(At(w, "log", 1), w, "log", 1)
    BY <1>1, AtPlace DEF Inv
  <2> QED
    BY <1>1, <1>2, <2>1, <2>2, ThreadMoves DEF MovedTo, Inv
<1>3. CASE ~ (handler[w].at > Len(ServersOf(w))) /\ Runs(Target(w))
  <2>1. handler' = At(w, "log", handler[w].at)
    BY <1>3 DEF Forward, ServersOf
  <2>2. handler[w].at \in 1..(GroupSize + 1)
    BY <1>1
  <2>3. MovedTo(At(w, "log", handler[w].at), w, "log", handler[w].at)
    BY <2>2, AtPlace DEF Inv
  <2> QED
    BY <1>1, <1>3, <2>1, <2>3, ThreadMoves DEF MovedTo, Inv
<1>4. CASE ~ (handler[w].at > Len(ServersOf(w))) /\ ~ Runs(Target(w))
  <2>1. handler' = Forwarded(w)
    BY <1>4 DEF Forward, ServersOf
  <2>2. handler[w].at \in 1..Len(ServersOf(w))
    BY <1>1, <1>4
  <2>3. PICK h \in Handlers : Forwarded(w) = [handler EXCEPT ![w] = h]
                              /\ h.step = "forward" /\ h.at = handler[w].at + 1
    BY <1>1, <2>2, ForwardedPlace
  <2>4. ~ Runs(ServersOf(w)[handler[w].at])
    BY <1>4 DEF Target, ServersOf
  <2>5. handler'[w] = h /\ \A v \in Writes : v # w => handler'[v] = handler[v]
    BY <1>1, <2>1, <2>3, ThreadMoves DEF Inv
  <2> QED
    BY <1>1, <2>2, <2>3, <2>4, <2>5
<1> QED
  BY <1>2, <1>3, <1>4

(* What a thread owes to the servers its write must reach.                 *)
LEMMA AppliedKept ==
    ASSUME NEW w \in Writes, NEW s \in Servers, Applied(s, w),
           UNCHANGED <<req, server, recovery>>,
           Cell(s, w) = Wanted(w) => Cell(s, w)' = Wanted(w),
           \A j \in 1..Len(ServersOf(w)) : ServersOf(w)[j] = s /\ Unapplied(w, j) =>
              Unapplied(w, j)' \/ Cell(s, w)' = Wanted(w) \/ Away(s)
    PROVE  Applied(s, w)'
<1>1. ServersOf(w)' = ServersOf(w) /\ Wanted(w)' = Wanted(w) /\ Away(s)' = Away(s)
  BY DEF ServersOf, Wanted, Away, Runs, Catches
<1>2. Due(s, w) => Due(s, w)' \/ Cell(s, w)' = Wanted(w) \/ Away(s)
  BY <1>1 DEF Due
<1> QED
  BY <1>1, <1>2 DEF Applied

(* The last write of its group is so as long as the requests are the same. *)
LEMMA SameLatest ==
    ASSUME UNCHANGED req
    PROVE  /\ Home' = Home /\ Home \subseteq Servers /\ Writes' = Writes
           /\ \A w : Latest(w)' = Latest(w) /\ Ours(w)' = Ours(w) /\ Wanted(w)' = Wanted(w)
BY DEF Latest, Writes, Ours, Wanted, Home, ServersIn

LEMMA HeldForward ==
    ASSUME Inv, HeldInv, NEW w \in Writes, Forward(w)
    PROVE  HeldInv'
<1>1. /\ UNCHANGED <<server, recovery, requestQueue, req, rpc, historyVars>>
      /\ UNCHANGED <<log, table>>
  BY DEF Forward, failoverVars, processVars
<1>2. \A v \in Writes, s \in Servers : Cell(s, v)' = Cell(s, v)
  BY <1>1 DEF Cell
<1>3. ASSUME Regular, 1 \notin overlap, Ours(w) PROVE Held(w)'
  <2>1. handler[w].step = "forward" /\ rpc[w] = "calling"
    BY ForwardMoves
  <2>2. \A s \in Home : ~ Catches(s)
    BY <1>3, <2>1, NoneCatchesUp
  <2>3. Home' = Home /\ Home \subseteq Servers /\ (Latest(w)' => Latest(w))
    BY <1>1, SameLatest
  <2>4. ASSUME Latest(w), NEW s \in Home PROVE Applied(s, w)'
    <3>0. s \in Servers /\ ~ Catches(s)
      BY <2>2, <2>3
    <3>1. Applied(s, w)
      BY <1>3, <2>1, <2>4 DEF HeldInv, Held
    <3>2. ASSUME NEW j \in 1..Len(ServersOf(w)), ServersOf(w)[j] = s, Unapplied(w, j)
          PROVE  Unapplied(w, j)' \/ Away(s)
      <4> DEFINE k == handler[w].at
                 n == Len(ServersOf(w))
      <4>1. /\ k \in 2..(n + 1) /\ n \in Nat /\ j \in 1..n
            /\ j >= k \/ j = 1
        BY <2>1, <3>2, ForwardMoves DEF Unapplied
      <4>2. CASE handler'[w].step = "log" /\ handler'[w].at = 1 /\ k > n
        BY <4>1, <4>2 DEF Unapplied
      <4>3. CASE handler'[w].step = "log" /\ handler'[w].at = k
        BY <4>1, <4>3 DEF Unapplied
      <4>4. CASE handler'[w].step = "forward" /\ handler'[w].at = k + 1
                 /\ ~ Runs(ServersOf(w)[k])
        <5>1. CASE j = k
          BY <3>0, <3>2, <4>4, <5>1 DEF Away
        <5>2. CASE j # k
          BY <4>1, <4>4, <5>2 DEF Unapplied
        <5> QED
          BY <5>1, <5>2
      <4> QED
        BY <4>2, <4>3, <4>4, ForwardMoves
    <3> QED
      BY <1>1, <1>2, <3>0, <3>1, <3>2, AppliedKept
  <2>5. ~ Acked(w)'
    BY <1>1, <2>1 DEF Acked
  <2> QED
    BY <2>3, <2>4, <2>5 DEF Held
<1>4. handler[w].step # "off" /\ \A v \in Writes : v # w => handler'[v] = handler[v]
  BY ForwardMoves
<1> QED
  BY <1>1, <1>2, <1>3, <1>4, HeldThread, SameLatest

LEMMA HeldAppendLog ==
    ASSUME Inv, HeldInv, NEW w \in Writes, AppendLog(w)
    PROVE  HeldInv'
<1>1. /\ handler[w].step = "log" /\ handler[w].at \in 1..Len(ServersOf(w))
      /\ Len(ServersOf(w)) \in 1..GroupSize /\ GroupSize \in Nat
      /\ UNCHANGED <<server, recovery, requestQueue, req, rpc, historyVars>>
      /\ UNCHANGED table
  BY Constants DEF AppendLog, failoverVars, Inv, Placed
<1>2. handler[w].at \in 1..(GroupSize + 1)
  BY <1>1
<1>3. MovedTo(At(w, "apply", handler[w].at), w, "apply", handler[w].at)
  BY <1>2, AtPlace DEF Inv
<1>4. /\ handler'[w].step = "apply" /\ handler'[w].at = handler[w].at
      /\ \A v \in Writes : v # w => handler'[v] = handler[v]
  BY <1>1, <1>3, ThreadMoves DEF AppendLog, MovedTo, Inv
<1>5. \A v \in Writes, t \in Servers : Cell(t, v)' = Cell(t, v)
  BY <1>1 DEF Cell
<1>6. /\ Home' = Home /\ Home \subseteq Servers /\ (Latest(w)' => Latest(w))
      /\ Ours(w)' = Ours(w) /\ Wanted(w)' = Wanted(w)
  BY <1>1, SameLatest
<1>7. ASSUME Regular, 1 \notin overlap PROVE Held(w)'
  <2>1. Held(w)
    BY <1>7 DEF HeldInv
  <2>2. \A t \in Servers : Restored(t, w)' = Restored(t, w)
    BY <1>1, <1>5, <1>6 DEF Restored, InQueue, Runs
  <2>3. ASSUME NEW t \in Servers, Applied(t, w) PROVE Applied(t, w)'
    <3>1. \A j \in 1..Len(ServersOf(w)) : Unapplied(w, j) => Unapplied(w, j)'
      BY <1>1, <1>4 DEF Unapplied
    <3> QED
      BY <1>1, <1>5, <2>3, <3>1, AppliedKept
  <2> QED
    BY <1>1, <1>6, <2>1, <2>2, <2>3 DEF Held, Acked
<1> QED
  BY <1>1, <1>4, <1>5, <1>6, <1>7, HeldThread

(* The cell of another file is not touched by a write.                     *)
LEMMA WrittenCell ==
    ASSUME ProcessesTypeOK, NEW s \in Servers, NEW w \in Nat, NEW f \in Files
    PROVE  Written(s, w)[f] = IF f = req[w].file THEN Wanted(w) ELSE table[s][f]
<1>1. table[s] \in [Files -> Nat]
  BY DEF ProcessesTypeOK
<1> QED
  BY <1>1 DEF Written, Wanted

LEMMA HeldApply ==
    ASSUME Inv, HeldInv, NEW w \in Writes, Apply(w)
    PROVE  HeldInv'
<1> DEFINE k == handler[w].at
<1>1. /\ handler[w].step = "apply" /\ k \in 1..Len(ServersOf(w))
      /\ Len(ServersOf(w)) \in 1..GroupSize /\ GroupSize \in Nat
      /\ UNCHANGED <<server, recovery, requestQueue, req, rpc, historyVars>>
      /\ UNCHANGED log
      /\ Ours(w) => w \in Active(1)
  BY Constants DEF Apply, failoverVars, Inv, Placed, Active, WritesOf, Ours
<1>2. PICK t \in Servers : t = ServersOf(w)[k] /\ t = Target(w) /\ w \in Nat
                           /\ t \in ServersIn(req[w].group)
  BY <1>1, RequestTyped DEF Inv, Target, ServersOf, Placed
<1>a. Home \subseteq Servers /\ (~ Ours(w) => t \notin Home)
  BY <1>2 DEF Home, ServersIn, Ours
<1>3. /\ table' = [table EXCEPT ![t] = Written(t, w)]
      /\ table \in [Servers -> [Files -> Nat]]
  BY <1>2 DEF Apply, Inv, ProcessesTypeOK
<1>4. ASSUME NEW v \in Writes, NEW s \in Servers
      PROVE  Cell(s, v)' = IF s = t /\ req[v].file = req[w].file THEN Wanted(w) ELSE Cell(s, v)
  <2>1. req[v].file \in Files
    BY RequestTyped DEF Inv
  <2>2. CASE s = t
    BY <1>1, <1>2, <1>3, <2>1, <2>2, WrittenCell DEF Cell, Inv
  <2>3. CASE s # t
    BY <1>1, <1>3, <2>3 DEF Cell
  <2> QED
    BY <2>2, <2>3
<1>6. /\ \A v \in Writes : v # w => handler'[v] = handler[v]
      /\ \/ k = 1 /\ handler'[w].step = "replied"
         \/ /\ k # 1 /\ rpc[w] = "calling"
            /\ handler'[w].step = "forward" /\ handler'[w].at = k + 1
         \/ rpc[w] # "calling"
  <2>1. CASE k = 1
    <3> DEFINE h == [step |-> "replied", at |-> 1, result |-> Succeeds(Target(w), w)]
    <3>1. Succeeds(Target(w), w) \in BOOLEAN
      BY DEF Succeeds
    <3>2. h \in Handlers
      BY <1>1, <3>1 DEF Handlers
    <3>3. handler' = [handler EXCEPT ![w] = h]
      BY <2>1 DEF Apply
    <3>4. h.step = "replied"
      OBVIOUS
    <3> HIDE DEF h
    <3> QED
      BY <1>1, <2>1, <3>2, <3>3, <3>4, ThreadMoves DEF Inv
  <2>2. CASE k # 1
    <3>1. handler' = Forwarded(w)
      BY <2>2 DEF Apply
    <3>2. PICK h \in Handlers :
             /\ Forwarded(w) = [handler EXCEPT ![w] = h]
             /\ IF rpc[w] = "calling" THEN h.step = "forward" /\ h.at = handler[w].at + 1
                                      ELSE h.step = "off"
      BY <1>1, ForwardedPlace
    <3> QED
      BY <1>1, <2>2, <3>1, <3>2, ThreadMoves DEF Inv
  <2> QED
    BY <2>1, <2>2
<1>7. ASSUME 1 \notin overlap, Ours(w), NEW v \in Writes, v # w, Ours(v), Latest(v)
      PROVE  req[v].file # req[w].file
  <2>1. v <= w /\ v \in Nat
    BY <1>1, <1>7, RequestTyped DEF HeldInv, OnlyLast, Inv
  <2>2. req[v].file = req[w].file => w <= v
    BY <1>7 DEF Latest
  <2> QED
    BY <1>2, <1>7, <2>1, <2>2
<1>8. ASSUME 1 \notin overlap, NEW v \in Writes, v # w, Ours(v), Latest(v), NEW s \in Home
      PROVE  Cell(s, v)' = Cell(s, v)
  BY <1>4, <1>7, <1>8, <1>a
<1>9. ASSUME Regular, 1 \notin overlap PROVE Held(w)'
  <2>1. Held(w)
    BY <1>9 DEF HeldInv
  <2>2. /\ Home' = Home /\ (Latest(w)' => Latest(w))
        /\ Ours(w)' = Ours(w) /\ Wanted(w)' = Wanted(w)
    BY <1>1, SameLatest
  <2>3. \A s \in Servers : Cell(s, w) = Wanted(w) => Cell(s, w)' = Wanted(w)
    BY <1>4
  <2>4. ASSUME NEW s \in Servers, Restored(s, w) PROVE Restored(s, w)'
    BY <1>1, <2>2, <2>3, <2>4 DEF Restored, InQueue, Runs
  <2>5. ASSUME rpc[w] = "calling", NEW s \in Servers, Applied(s, w) PROVE Applied(s, w)'
    <3>1. ASSUME NEW j \in 1..Len(ServersOf(w)), ServersOf(w)[j] = s, Unapplied(w, j)
          PROVE  Unapplied(w, j)' \/ Cell(s, w)' = Wanted(w)
      <4>1. CASE j = k
        BY <1>2, <1>4, <3>1, <4>1
      <4>2. CASE j # k
        BY <1>1, <1>6, <2>5, <3>1, <4>2 DEF Unapplied
      <4> QED
        BY <4>1, <4>2
    <3> QED
      BY <1>1, <2>3, <2>5, <3>1, AppliedKept
  <2> QED
    BY <1>1, <1>a, <2>1, <2>2, <2>4, <2>5 DEF Held, Acked
<1> QED
  BY <1>1, <1>6, <1>8, <1>9, HeldThread

LEMMA HeldReturn ==
    ASSUME Inv, HeldInv, NEW w \in Writes, Return(w)
    PROVE  HeldInv'
<1>1. /\ handler[w].step = "replied" /\ rpc[w] = "calling"
      /\ UNCHANGED <<server, recovery, requestQueue, req, historyVars>>
      /\ UNCHANGED <<log, table>>
      /\ handler' = [handler EXCEPT ![w] = Off]
  BY DEF Return, failoverVars, processVars, Inv, Attended
<1>2. PICK x \in {"ok", "failed"} : rpc' = [rpc EXCEPT ![w] = x]
  BY DEF Return
<1>3. /\ rpc'[w] = x
      /\ \A v \in Writes : v # w => rpc'[v] = rpc[v] /\ handler'[v] = handler[v]
  BY <1>1, <1>2, OffTyped, ThreadMoves DEF Inv, WritesTypeOK
<1>4. \A v \in Writes, s \in Servers : Cell(s, v)' = Cell(s, v)
  BY <1>1 DEF Cell
<1>5. /\ Home' = Home /\ Home \subseteq Servers /\ (Latest(w)' => Latest(w))
      /\ Ours(w)' = Ours(w) /\ Wanted(w)' = Wanted(w)
  BY <1>1, SameLatest
<1>6. ASSUME Regular, 1 \notin overlap, Ours(w) PROVE Held(w)'
  <2> SUFFICES ASSUME Latest(w), NEW s \in Home PROVE Restored(s, w)'
    BY <1>3, <1>5 DEF Held
  <2>1. s \in Servers
    BY <1>5
  <2>2. Applied(s, w)
    BY <1>1, <1>6 DEF HeldInv, Held
  <2>3. ~ Due(s, w)
    BY <1>1 DEF Due, Unapplied
  <2>4. ~ Catches(s)
    BY <1>1, <1>6, NoneCatchesUp
  <2>5. Runs(s) => Cell(s, w) = Wanted(w)
    BY <2>2, <2>3 DEF Applied, Away
  <2>6. recovery[s] # "replay"
    BY <2>4 DEF Catches
  <2> QED
    BY <1>1, <1>4, <1>5, <2>1, <2>5, <2>6 DEF Restored, Runs
<1> QED
  BY <1>1, <1>3, <1>4, <1>5, <1>6, HeldThread

(* A new write is the last one, and all servers of its group that run are  *)
(* due to get it.                                                          *)
LEMMA HeldRequestWrite ==
    ASSUME Inv, HeldInv, NEW g \in Groups, NEW f \in Files, NEW type \in WriteTypes,
           RequestWrite(g, f, type)
    PROVE  HeldInv'
<1>1. /\ UNCHANGED <<server, recovery, requestQueue>> /\ UNCHANGED <<log, table, alone>>
      /\ overlap' = overlap \cup Noted(g, Active(g) # {})
      /\ missed' = missed \cup Noted(g, CatchingUp(g) # {})
      /\ skipped' = skipped \cup
              Noted(g, \E s \in ServersIn(g) : Runs(s) /\ s \notin ToSet(serverGroup[g]))
  BY DEF RequestWrite, failoverVars, processVars
<1>2. /\ serverGroup[g] \in Seq(Servers)
      /\ Len(serverGroup[g]) \in 1..GroupSize
      /\ seqNumMap[g] \in Nat
  BY Deque DEF Inv, WritesTypeOK
<1>3. PICK m \in Nat, n \in Nat : m = Len(req) /\ n = m + 1
  BY DEF Inv, WritesTypeOK
<1>4. /\ Len(req') = n /\ ServersOf(n)' = serverGroup[g] /\ req'[n].group = g
      /\ \A v \in Writes : req'[v] = req[v]
  <2> DEFINE r == [file |-> f, type |-> type, group |-> g,
                   servers |-> serverGroup[g], seqNum |-> seqNumMap[g]]
             R == [file : Files, type : WriteTypes, group : Groups,
                   servers : Seq(Servers), seqNum : Nat]
  <2>1. req' = Append(req, r)
    BY DEF RequestWrite
  <2>2. req \in Seq(R) /\ r \in R
    BY <1>2 DEF Inv, WritesTypeOK
  <2>3. r.servers = serverGroup[g] /\ r.group = g
    OBVIOUS
  <2> HIDE DEF r, R
  <2>4. Len(req') = n /\ req'[n] = r /\ \A v \in 1..m : req'[v] = req[v]
    BY <1>3, <2>1, <2>2
  <2> QED
    BY <1>3, <2>3, <2>4 DEF ServersOf, Writes
<1>5. /\ Writes' = Writes \cup {n} /\ n \notin Writes /\ Writes = 1..m
      /\ \A v \in Writes : v \in Nat /\ v <= n
  BY <1>3, <1>4 DEF Writes
<1>6. /\ \A v \in Writes : Ours(v)' = Ours(v)
      /\ Ours(n)' <=> g = 1
      /\ Home' = Home /\ Home \subseteq Servers
  BY <1>4 DEF Ours, Home, ServersIn
<1>7. /\ \A v \in Writes : rpc'[v] = rpc[v]
      /\ rpc'[n] = IF Runs(Primary(g)) THEN "calling" ELSE "failed"
  <2> DEFINE S == {"calling", "ok", "failed"}
  <2>1. rpc \in [1..m -> S]
    BY <1>3 DEF Inv, WritesTypeOK, Writes
  <2>2. PICK x \in S : rpc' = Append(rpc, x) /\ x = IF Runs(Primary(g)) THEN "calling" ELSE "failed"
    BY DEF RequestWrite
  <2> HIDE DEF S
  <2>3. Extended(rpc', rpc, m, x, S)
    BY <2>1, <2>2, FunctionAppended, Zenon
  <2> QED
    BY <1>3, <1>5, <2>2, <2>3 DEF S, Extended
<1>8. /\ \A v \in Writes : handler'[v] = handler[v]
      /\ Runs(Primary(g)) => handler'[n].step = "forward" /\ handler'[n].at = 2
  <2> DEFINE first == [step |-> "forward", at |-> 2, result |-> FALSE]
  <2>1. handler \in [1..m -> Handlers]
    BY <1>3 DEF Inv, WritesTypeOK, Writes
  <2>2. first \in Handlers
    BY Constants DEF Handlers
  <2>3. PICK x \in Handlers :
          handler' = Append(handler, x) /\ x = IF Runs(Primary(g)) THEN first ELSE Off
    BY <2>2, OffTyped DEF RequestWrite
  <2>4. Extended(handler', handler, m, x, Handlers)
    BY <2>1, <2>3, FunctionAppended, Zenon
  <2>5. first.step = "forward" /\ first.at = 2
    OBVIOUS
  <2> HIDE DEF first
  <2> QED
    BY <1>3, <1>5, <2>3, <2>4, <2>5 DEF Extended
<1>9. overlap \subseteq overlap' /\ (Regular' => Regular)
  BY <1>1 DEF Regular
<1>10. OnlyLast'
  <2> SUFFICES ASSUME 1 \notin overlap', NEW w \in Active(1)', NEW v \in Writes', Ours(v)'
               PROVE  v <= w
    BY DEF OnlyLast
  <2>1. w \in Writes' /\ Ours(w)' /\ (rpc'[w] = "calling" \/ handler'[w].step # "off")
    BY DEF Active, WritesOf, Ours
  <2>2. CASE w = n
    BY <1>3, <1>5, <2>2
  <2>3. CASE w \in Writes
    <3>1. w \in Active(1) /\ 1 \notin overlap
      BY <1>6, <1>7, <1>8, <1>9, <2>1, <2>3 DEF Active, WritesOf, Ours
    <3>2. g # 1
      BY <1>1, <3>1 DEF Noted
    <3>3. v \in Writes /\ Ours(v)
      BY <1>5, <1>6, <3>2
    <3> QED
      BY <3>1, <3>3 DEF HeldInv, OnlyLast
  <2> QED
    BY <1>5, <2>1, <2>2, <2>3
<1>11. ASSUME Regular', 1 \notin overlap', NEW v \in Writes PROVE Held(v)'
  <2>1. Held(v)
    BY <1>9, <1>11 DEF HeldInv
  <2>2. \A s \in Home : Cell(s, v)' = Cell(s, v)
    BY <1>1, <1>4 DEF Cell
  <2> QED
    BY <1>1, <1>4, <1>5, <1>7, <1>8, <2>1, <2>2, HeldUnchanged
<1>12. ASSUME Regular', g = 1 PROVE Held(n)'
  <2>1. ~ Acked(n)'
    BY <1>7 DEF Acked
  <2>2. ASSUME rpc'[n] = "calling", NEW s \in Home PROVE Due(s, n)' \/ Away(s)'
    <3>1. handler'[n].step = "forward" /\ handler'[n].at = 2
      BY <1>7, <1>8, <2>2
    <3>2. CASE Runs(s)
      <4>1. s \in ToSet(serverGroup[g])
        BY <1>1, <1>12, <3>2 DEF Regular, Noted, Home
      <4>2. PICK j \in 1..Len(serverGroup[g]) : serverGroup[g][j] = s
        BY <1>2, <4>1 DEF ToSet
      <4>3. Unapplied(n, j)'
        BY <1>2, <3>1 DEF Unapplied
      <4> QED
        BY <1>4, <4>2, <4>3 DEF Due
    <3>3. CASE ~ Runs(s)
      BY <1>1, <1>12, <3>3 DEF Away, Regular, CatchingUp, Catches, Runs, Noted, Home
    <3> QED
      BY <3>2, <3>3
  <2> QED
    BY <1>6, <2>1, <2>2 DEF Held, Applied
<1>13. g # 1 => Held(n)'
  BY <1>6 DEF Held
<1> QED
  BY <1>5, <1>10, <1>11, <1>12, <1>13 DEF HeldInv

LEMMA HeldServe ==
    ASSUME Inv, HeldInv, NEW w \in Writes, Serve(w)
    PROVE  HeldInv'
BY HeldForward, HeldAppendLog, HeldApply, HeldReturn DEF Serve

-----------------------------------------------------------------------------
(* A server that dies holds nothing, and need not.                         *)
LEMMA HeldCrash ==
    ASSUME Inv, HeldInv, NEW s \in Servers, Crash(s)
    PROVE  HeldInv'
<1>1. /\ server' = [server EXCEPT ![s] = "DOWN"]
      /\ server \in [Servers -> {"DOWN", "RUNNING", "RECOVERING"}]
      /\ recovery' = [recovery EXCEPT ![s] = "off"]
      /\ requestQueue' = [requestQueue EXCEPT ![s] = {}]
      /\ table' = [table EXCEPT ![s] = Empty]
      /\ UNCHANGED req /\ UNCHANGED <<overlap, missed, alone, skipped>>
  BY DEF Crash, Die, Inv, FailoverInv, Types
<1>2. /\ ~ Runs(s)' /\ recovery'[s] = "off" /\ Away(s)' /\ requestQueue'[s] = {}
      /\ \A t \in Servers : t # s => /\ Runs(t)' = Runs(t) /\ Away(t)' = Away(t)
                                     /\ recovery'[t] = recovery[t]
                                     /\ requestQueue'[t] = requestQueue[t]
                                     /\ table'[t] = table[t]
  BY <1>1 DEF Inv, ProcessesTypeOK, Runs, Away, Catches
<1>3. /\ Writes' = Writes /\ Regular' = Regular /\ Home' = Home /\ Home \subseteq Servers
      /\ \A w : /\ Latest(w)' = Latest(w) /\ Ours(w)' = Ours(w) /\ Wanted(w)' = Wanted(w)
                /\ ServersOf(w)' = ServersOf(w)
  BY <1>1, SameLatest, SameRequests DEF Regular
<1>4. ASSUME NEW w \in Writes
      PROVE  /\ handler'[w] = AfterDeath(s, w)
             /\ rpc'[w] = "calling" <=> Spared(s, w)
             /\ Acked(w)' = Acked(w)
             /\ handler[w].step = "off" /\ rpc[w] # "calling" => handler'[w].step = "off"
  <2>1. /\ handler'[w] = AfterDeath(s, w)
        /\ rpc'[w] = IF rpc[w] = "calling" /\ PrimaryOf(w) = s THEN "failed" ELSE rpc[w]
    BY DEF Crash
  <2>2. rpc'[w] = "calling" <=> Spared(s, w)
    BY <2>1 DEF Spared
  <2>3. handler[w].step = "off" /\ rpc[w] # "calling" => handler'[w].step = "off"
    BY <2>1, AfterDeathPlace DEF Spared
  <2> QED
    BY <2>1, <2>2, <2>3 DEF Acked
<1>5. Active(1)' \subseteq Active(1)
  <2> SUFFICES ASSUME NEW w \in Active(1)' PROVE w \in Active(1)
    OBVIOUS
  <2>1. w \in Writes /\ Ours(w) /\ (rpc'[w] = "calling" \/ handler'[w].step # "off")
    BY <1>3 DEF Active, WritesOf, Ours
  <2>2. rpc[w] = "calling" \/ handler[w].step # "off"
    BY <1>4, <2>1 DEF Spared
  <2> QED
    BY <2>1, <2>2 DEF Active, WritesOf, Ours
<1>6. OnlyLast'
  BY <1>1, <1>3, <1>5 DEF HeldInv, OnlyLast
<1>7. ASSUME Regular, 1 \notin overlap, NEW w \in Writes PROVE Held(w)'
  <2>1. Held(w)
    BY <1>7 DEF HeldInv
  <2>2. ASSUME NEW t \in Servers, Restored(t, w) PROVE Restored(t, w)'
    <3>1. CASE t = s
      BY <1>2, <3>1 DEF Restored
    <3>2. CASE t # s
      BY <1>1, <1>2, <1>3, <2>2, <3>2 DEF Restored, Cell, InQueue
    <3> QED
      BY <3>1, <3>2
  <2>3. ASSUME Spared(s, w), NEW t \in Servers, Applied(t, w) PROVE Applied(t, w)'
    <3>1. CASE t = s
      BY <1>2, <3>1 DEF Applied
    <3>2. CASE t # s
      <4>1. Cell(t, w)' = Cell(t, w)
        BY <1>1, <1>2, <3>2 DEF Cell
      <4>2. ASSUME Due(t, w) PROVE Due(t, w)'
        <5>1. PICK j \in 1..Len(ServersOf(w)) : ServersOf(w)[j] = t /\ Unapplied(w, j)
          BY <4>2 DEF Due
        <5>2. Target(w) = s => j # handler[w].at
          BY <3>2, <5>1 DEF Target, ServersOf
        <5>3. /\ Len(ServersOf(w)) \in Nat
              /\ handler[w].step \in {"log", "apply"} => handler[w].at \in 1..Len(ServersOf(w))
          BY RequestTyped DEF Inv, Placed
        <5>4. Unapplied(w, j)'
          BY <1>4, <2>3, <5>1, <5>2, <5>3, AfterDeathPlace DEF Unapplied
        <5> QED
          BY <1>3, <5>1, <5>4 DEF Due
      <4> QED
        BY <1>2, <1>3, <2>3, <3>2, <4>1, <4>2 DEF Applied
    <3> QED
      BY <3>1, <3>2
  <2> QED
    BY <1>3, <1>4, <2>1, <2>2, <2>3 DEF Held, Spared
<1> QED
  BY <1>1, <1>3, <1>6, <1>7 DEF HeldInv

(* A step of a server on its way back.                                     *)
Remains(t) ==
    /\ Runs(t)' = Runs(t) /\ recovery'[t] = recovery[t]
    /\ requestQueue'[t] = requestQueue[t] /\ table'[t] = table[t]

LEMMA HeldRecovering ==
    ASSUME Inv, HeldInv, NEW s \in Servers,
           UNCHANGED <<req, rpc, handler>>, UNCHANGED <<overlap, skipped>>,
           missed \subseteq missed', alone \subseteq alone',
           \A t \in Servers : t # s => Remains(t),
           s \in Home /\ Regular' => Away(s)' \/ Quiet,
           s \in Home /\ Regular' => \A w \in Writes :
              Ours(w) /\ Latest(w) /\ Knows(s, w) /\ Restored(s, w) => Restored(s, w)'
    PROVE  HeldInv'
<1>1. /\ Writes' = Writes /\ Active(1)' = Active(1) /\ (Regular' => Regular)
      /\ Home' = Home /\ Home \subseteq Servers
      /\ \A w : Latest(w)' = Latest(w) /\ Ours(w)' = Ours(w) /\ Wanted(w)' = Wanted(w)
  BY SameLatest DEF Writes, Active, WritesOf, Regular
<1>2. OnlyLast'
  BY <1>1 DEF HeldInv, OnlyLast
<1>3. ASSUME Regular', 1 \notin overlap, NEW w \in Writes PROVE Held(w)'
  <2> SUFFICES ASSUME Ours(w), Latest(w)
               PROVE  /\ Acked(w) => \A t \in Home : Restored(t, w)'
                      /\ rpc[w] = "calling" => \A t \in Home : Applied(t, w)'
    BY <1>1 DEF Held, Acked
  <2>1. Held(w) /\ Learned(w)
    BY <1>1, <1>3 DEF HeldInv, Inv
  <2>2. \A t \in Servers : Due(t, w)' = Due(t, w)
    BY DEF Due, Unapplied, ServersOf
  <2>3. ASSUME NEW t \in Servers, t # s
        PROVE  Restored(t, w)' = Restored(t, w) /\ Applied(t, w)' = Applied(t, w)
    BY <1>1, <2>2, <2>3 DEF Remains, Restored, Applied, Cell, InQueue, Away, Catches
  <2>4. ASSUME Acked(w), NEW t \in Home PROVE Restored(t, w)'
    <3>1. t \in Servers /\ Restored(t, w) /\ Knows(t, w)
      BY <1>1, <2>1, <2>4 DEF Held, Learned
    <3> QED
      BY <1>3, <2>3, <3>1
  <2>5. ASSUME rpc[w] = "calling", NEW t \in Home PROVE Applied(t, w)'
    <3>1. t = s => Applied(t, w)'
      BY <1>3, <2>5 DEF Applied, Quiet
    <3>2. t \in Servers /\ Applied(t, w)
      BY <1>1, <2>1, <2>5 DEF Held
    <3> QED
      BY <2>3, <3>1, <3>2
  <2> QED
    BY <2>4, <2>5
<1> QED
  BY <1>1, <1>2, <1>3 DEF HeldInv

LEMMA HeldStartAgain ==
    ASSUME Inv, HeldInv, NEW s \in Servers, StartAgain(s)
    PROVE  HeldInv'
<1>1. /\ UNCHANGED <<log, table, requestQueue>>
      /\ UNCHANGED <<req, rpc, handler>> /\ UNCHANGED <<overlap, missed, alone, skipped>>
      /\ recovery' = [recovery EXCEPT ![s] = "local"]
      /\ recovery \in [Servers -> Stages]
      /\ server' = [server EXCEPT ![s] = "RECOVERING"]
      /\ server \in [Servers -> {"DOWN", "RUNNING", "RECOVERING"}]
  BY DEF StartAgain, Restart, Goto, writeVars, historyVars, Inv, FailoverInv, Types,
         ProcessesTypeOK
<1>2. Away(s)' /\ ~ Runs(s)' /\ recovery'[s] # "replay"
  BY <1>1 DEF Away, Runs, Catches
<1>3. \A t \in Servers : t # s => Remains(t)
  BY <1>1 DEF Remains, Runs
<1>4. \A w \in Writes : Restored(s, w)'
  BY <1>2 DEF Restored
<1> QED
  BY <1>1, <1>2, <1>3, <1>4, HeldRecovering

LEMMA HeldReadLog ==
    ASSUME Inv, HomeInv, HeldInv, NEW s \in Servers, ReadLog(s)
    PROVE  HeldInv'
<1>1. /\ recovery[s] = "local"
      /\ UNCHANGED server /\ UNCHANGED <<log, table>>
      /\ UNCHANGED <<req, rpc, handler>> /\ UNCHANGED <<overlap, missed, alone, skipped>>
      /\ recovery' = [recovery EXCEPT ![s] = "ask"]
      /\ requestQueue' = Gathered(s, LogOf(s))
      /\ recovery \in [Servers -> Stages]
  BY DEF ReadLog, Goto, writeVars, historyVars, failoverVars, Inv, ProcessesTypeOK
<1>2. Away(s)' /\ ~ Runs(s)' /\ recovery'[s] # "replay"
  BY <1>1, OnTheWay DEF Away, Runs, Catches
<1>3. \A t \in Servers : t # s => Remains(t)
  BY <1>1, GatheredAll DEF Remains, Runs, Inv
<1>4. \A w \in Writes : Restored(s, w)'
  BY <1>2 DEF Restored
<1> QED
  BY <1>1, <1>2, <1>3, <1>4, HeldRecovering

LEMMA HeldAskForPrimary ==
    ASSUME Inv, HeldInv, NEW s \in Servers, AskForPrimary(s)
    PROVE  HeldInv'
<1>1. /\ recovery[s] = "ask"
      /\ UNCHANGED server /\ UNCHANGED <<log, table, requestQueue>>
      /\ UNCHANGED <<req, rpc, handler>> /\ UNCHANGED <<overlap, alone, skipped>>
      /\ recovery' = [recovery EXCEPT ![s] = "log"]
      /\ missed' = missed \cup Noted(Group(s), Active(Group(s)) # {})
      /\ recovery \in [Servers -> Stages]
  BY DEF AskForPrimary, PrimaryTold, Goto, writeVars, failoverVars, Inv, ProcessesTypeOK
<1>2. ~ Runs(s)' /\ recovery'[s] # "replay"
  BY <1>1, OnTheWay DEF Runs
<1>3. \A t \in Servers : t # s => Remains(t)
  BY <1>1 DEF Remains, Runs
<1>4. s \in Home => 1 \in missed' \/ Active(1) = {}
  BY <1>1 DEF Home, ServersIn, Noted
<1>5. s \in Home /\ Regular' => Quiet
  BY <1>4 DEF Regular, Active, WritesOf, Quiet, Ours
<1>6. \A w \in Writes : Restored(s, w)'
  BY <1>2 DEF Restored
<1> QED
  BY <1>1, <1>3, <1>5, <1>6, HeldRecovering

LEMMA HeldAskForLog ==
    ASSUME Inv, HomeInv, HeldInv, NEW s \in Servers, AskForLog(s)
    PROVE  HeldInv'
<1>1. PICK p \in Servers : p = primary[s]
  BY DEF Inv, ProcessesTypeOK
<1>2. /\ recovery[s] = "log"
      /\ UNCHANGED server /\ UNCHANGED <<log, table>>
      /\ UNCHANGED <<req, rpc, handler>> /\ UNCHANGED <<overlap, missed, skipped>>
      /\ recovery' = [recovery EXCEPT ![s] = "clear"]
      /\ requestQueue' = Gathered(s, LogOf(p)) \/ UNCHANGED requestQueue
      /\ alone \subseteq alone'
      /\ recovery \in [Servers -> Stages]
  BY <1>1 DEF AskForLog, Goto, writeVars, failoverVars, Inv, ProcessesTypeOK
<1>3. ~ Runs(s)' /\ recovery'[s] # "replay" /\ Catches(s)
  BY <1>2, OnTheWay DEF Runs, Catches
<1>4. \A t \in Servers : t # s => Remains(t)
  BY <1>2, GatheredAll DEF Remains, Runs, Inv
<1>5. s \in Home /\ Regular' => Quiet
  BY <1>2, <1>3, OnTheWay DEF Regular
<1>6. \A w \in Writes : Restored(s, w)'
  BY <1>3 DEF Restored
<1> QED
  BY <1>2, <1>4, <1>5, <1>6, HeldRecovering

(* All that is to be replayed has been gathered.                           *)
LEMMA HeldClear ==
    ASSUME Inv, HeldInv, NEW s \in Servers, Clear(s)
    PROVE  HeldInv'
<1>1. /\ recovery[s] = "clear"
      /\ UNCHANGED server /\ UNCHANGED <<table, requestQueue>>
      /\ UNCHANGED <<req, rpc, handler>> /\ UNCHANGED <<overlap, missed, alone, skipped>>
      /\ recovery' = [recovery EXCEPT ![s] = "replay"]
      /\ recovery \in [Servers -> Stages]
  BY DEF Clear, Goto, writeVars, historyVars, failoverVars, Inv, ProcessesTypeOK
<1>2. ~ Runs(s)' /\ Catches(s)
  BY <1>1, OnTheWay DEF Runs, Catches
<1>3. \A t \in Servers : t # s => Remains(t)
  BY <1>1 DEF Remains, Runs
<1>4. s \in Home /\ Regular' => Quiet
  BY <1>1, <1>2, OnTheWay DEF Regular
<1>5. \A w \in Writes : Knows(s, w) => Restored(s, w)'
  BY <1>1, <1>2 DEF Knows, Restored, InQueue
<1> QED
  BY <1>1, <1>3, <1>4, <1>5, HeldRecovering

(* The requests are replayed in the order of their numbers, which in the   *)
(* group is that of the writes, so what the last write of a file leaves    *)
(* there stays.                                                            *)
LEMMA HeldReplay ==
    ASSUME Inv, HomeInv, HeldInv, NEW s \in Servers, Replay(s)
    PROVE  HeldInv'
<1>1. /\ recovery[s] = "replay" /\ requestQueue[s] # {}
      /\ UNCHANGED server /\ UNCHANGED recovery
      /\ UNCHANGED <<req, rpc, handler>> /\ UNCHANGED <<overlap, missed, alone, skipped>>
      /\ recovery \in [Servers -> Stages] /\ requestQueue \in [Servers -> SUBSET Requests]
      /\ table \in [Servers -> [Files -> Nat]]
  BY DEF Replay, writeVars, historyVars, failoverVars, Inv, ProcessesTypeOK
<1>2. PICK e \in requestQueue[s] : e = FirstRequest(s)
  BY <1>1, FirstExists DEF Inv
<1>3. Fits(s, e)
  BY DEF HomeInv, AllFit
<1>4. PICK n \in Writes : n = e.write /\ n \in Nat /\ (s \in Home => Ours(n))
  BY <1>3, RequestTyped DEF Fits, Inv
<1>5. e.replicas = {}
  BY <1>3, <1>4, EntryTyped DEF Fits, Inv
<1>6. \A d \in requestQueue[s] : e.seqNum <= d.seqNum
  <2> DEFINE First(c) == \A d \in requestQueue[s] : c.seqNum <= d.seqNum
  <2>1. \E c \in requestQueue[s] : First(c)
    BY <1>1, SmallestQueued DEF Inv
  <2>2. FirstRequest(s) = CHOOSE c \in requestQueue[s] : First(c)
    BY DEF FirstRequest
  <2> HIDE DEF First
  <2>3. First(e)
    BY <1>2, <2>1, <2>2
  <2> QED
    BY <2>3 DEF First
<1>7. /\ table' = [table EXCEPT ![s] = Written(s, n)]
      /\ requestQueue' = [requestQueue EXCEPT ![s] = RequestsLeft(s, e)]
  <2>1. LET c == FirstRequest(s)
            r == {s} \cup {t \in c.replicas : Runs(t)}
        IN  /\ table' = [t \in Servers |-> IF t \in r THEN Written(t, c.write) ELSE table[t]]
            /\ requestQueue' = [requestQueue EXCEPT ![s] = RequestsLeft(s, c)]
    BY DEF Replay
  <2>2. {s} \cup {t \in e.replicas : Runs(t)} = {s}
    BY <1>5
  <2>3. /\ table' = [t \in Servers |-> IF t \in {s} THEN Written(t, n) ELSE table[t]]
        /\ requestQueue' = [requestQueue EXCEPT ![s] = RequestsLeft(s, e)]
    BY <1>2, <1>4, <2>1, <2>2, Zenon
  <2> QED
    BY <1>1, <2>3
<1>8. /\ table'[s] = Written(s, n)
      /\ \A t \in Servers : t # s => table'[t] = table[t]
      /\ requestQueue'[s] = RequestsLeft(s, e)
      /\ \A t \in Servers : t # s => requestQueue'[t] = requestQueue[t]
  BY <1>1, <1>7
<1>9. ~ Runs(s)' /\ Catches(s)
  BY <1>1, OnTheWay DEF Runs, Catches
<1>10. \A t \in Servers : t # s => Remains(t)
  BY <1>1, <1>8 DEF Remains, Runs
<1>11. s \in Home /\ Regular' => Quiet
  BY <1>1, <1>9, OnTheWay DEF Regular
<1>12. ASSUME s \in Home, NEW d \in requestQueue[s]
       PROVE  d.write \in Nat /\ n <= d.write /\ (d.seqNum = e.seqNum <=> d.write = n)
  <2>1. /\ d.write \in Nat
        /\ d.seqNum = e.seqNum <=> d.write = e.write
        /\ e.seqNum <= d.seqNum <=> e.write <= d.write
    BY <1>12, SameNumber DEF Inv
  <2> QED
    BY <1>4, <1>6, <2>1
<1>13. ASSUME s \in Home, NEW w \in Writes, Ours(w), Latest(w), Restored(s, w)
       PROVE  Restored(s, w)'
  <2>1. w \in Nat /\ req[w].file \in Files /\ Ours(n)
    BY <1>4, <1>13, RequestTyped DEF Inv
  <2>2. Cell(s, w)' = IF req[w].file = req[n].file THEN Wanted(n) ELSE Cell(s, w)
    BY <1>1, <1>4, <1>8, <2>1, WrittenCell DEF Cell, Inv
  <2>3. Wanted(w)' = Wanted(w)
    BY <1>1 DEF Wanted
  <2>4. InQueue(s, w) \/ (Cell(s, w) = Wanted(w) /\ \A c \in requestQueue[s] : w < c.write)
    BY <1>1, <1>13 DEF Restored
  <2>5. requestQueue'[s] = {c \in requestQueue[s] : c.write # n}
    BY <1>8, <1>12, <1>13 DEF RequestsLeft
  <2>6. CASE w = n
    <3>1. Cell(s, w)' = Wanted(w)'
      BY <2>2, <2>3, <2>6
    <3>2. \A c \in requestQueue'[s] : w < c.write
      BY <1>4, <1>12, <1>13, <2>5, <2>6
    <3> QED
      BY <1>9, <3>1, <3>2 DEF Restored
  <2>7. CASE w # n /\ InQueue(s, w)
    <3>1. InQueue(s, w)'
      BY <2>5, <2>7 DEF InQueue
    <3> QED
      BY <1>9, <3>1 DEF Restored
  <2>8. CASE w # n /\ ~ InQueue(s, w)
    <3>1. w < n
      BY <1>4, <2>4, <2>8
    <3>2. req[n].file # req[w].file
      BY <1>4, <1>13, <2>1, <3>1 DEF Latest
    <3>3. Cell(s, w)' = Wanted(w)'
      BY <2>2, <2>3, <2>4, <2>8, <3>2
    <3>4. \A c \in requestQueue'[s] : w < c.write
      BY <2>4, <2>5, <2>8
    <3> QED
      BY <1>9, <3>3, <3>4 DEF Restored
  <2> QED
    BY <2>6, <2>7, <2>8
<1> QED
  BY <1>1, <1>10, <1>11, <1>13, HeldRecovering

LEMMA HeldEndRecovery ==
    ASSUME Inv, HeldInv, NEW s \in Servers, EndRecovery(s)
    PROVE  HeldInv'
<1>1. /\ recovery[s] = "replay" /\ requestQueue[s] = {}
      /\ UNCHANGED <<log, table, requestQueue>>
      /\ UNCHANGED <<req, rpc, handler>> /\ UNCHANGED <<overlap, missed, alone, skipped>>
      /\ recovery' = [recovery EXCEPT ![s] = "off"]
      /\ server' = [server EXCEPT ![s] = "RUNNING"]
      /\ server \in [Servers -> {"DOWN", "RUNNING", "RECOVERING"}]
      /\ recovery \in [Servers -> Stages]
  BY DEF EndRecovery, Recovered, Goto, writeVars, historyVars, Inv, FailoverInv, Types,
         ProcessesTypeOK
<1>2. Catches(s) /\ recovery'[s] # "replay"
  BY <1>1 DEF Catches
<1>3. \A t \in Servers : t # s => Remains(t)
  BY <1>1 DEF Remains, Runs
<1>4. s \in Home /\ Regular' => Quiet
  BY <1>1, <1>2, OnTheWay DEF Regular
<1>5. \A w \in Writes : Restored(s, w) => Restored(s, w)'
  BY <1>1, <1>2 DEF Restored, InQueue, Cell, Wanted
<1> QED
  BY <1>1, <1>3, <1>4, <1>5, HeldRecovering

LEMMA HeldRecover ==
    ASSUME Inv, HomeInv, HeldInv, NEW s \in Servers, Recover(s)
    PROVE  HeldInv'
BY HeldReadLog, HeldAskForPrimary, HeldAskForLog, HeldClear, HeldReplay, HeldEndRecovery
   DEF Recover

LEMMA HeldQuiet ==
    ASSUME Inv, HeldInv, UNCHANGED <<server, processVars, writeVars, historyVars>>
    PROVE  HeldInv'
<1>1. /\ UNCHANGED <<log, table, recovery, requestQueue, server>>
      /\ UNCHANGED <<req, rpc, handler>> /\ UNCHANGED <<overlap, missed, alone, skipped>>
  BY DEF processVars, writeVars, historyVars
<1>2. /\ Writes' = Writes /\ Active(1)' = Active(1) /\ Regular' = Regular
      /\ \A w : Ours(w)' = Ours(w)
  BY <1>1 DEF Writes, Active, WritesOf, Regular, Ours
<1>3. OnlyLast'
  BY <1>1, <1>2 DEF HeldInv, OnlyLast
<1>4. \A w \in Writes, s \in Home : Cell(s, w)' = Cell(s, w)
  BY <1>1 DEF Cell
<1>5. \A w \in Writes : Held(w) => Held(w)'
  BY <1>1, <1>2, <1>4, HeldUnchanged
<1> QED
  BY <1>1, <1>2, <1>3, <1>5 DEF HeldInv

LEMMA HeldStep ==
    ASSUME Inv, HomeInv, HeldInv, [Next]_vars
    PROVE  HeldInv'
<1>1. CASE UNCHANGED vars
  BY <1>1, HeldQuiet DEF vars, failoverVars
<1>2. CASE heartbeatThreadFn /\ UNCHANGED <<processVars, writeVars, historyVars>>
  <2>1. UNCHANGED server
    BY <1>2 DEF heartbeatThreadFn, Heartbeat, Update, PopFront, PushBack
  <2> QED
    BY <1>2, <2>1, HeldQuiet
<1>3. CASE Next
  BY <1>2, <1>3, HeldRequestWrite, HeldServe, HeldCrash, HeldStartAgain, HeldRecover DEF Next
<1> QED
  BY <1>1, <1>3

(* The last write of the group to a file is the latest of those to it.     *)
LEMMA LastIsLatest ==
    ASSUME Inv, NEW f \in Files, NEW n, n = LastOf(1, f), n # 0
    PROVE  n \in Writes /\ Ours(n) /\ req[n].file = f /\ Latest(n)
<1> DEFINE S == {w \in WritesOf(1) : req[w].file = f}
           T == {Len(req) - w : w \in S}
<1>1. S # {} /\ n = Max(S)
  BY DEF LastOf
<1>2. Len(req) \in Nat /\ Writes = 1..Len(req) /\ S \subseteq Writes
  BY DEF Inv, WritesTypeOK, Writes, WritesOf
<1>3. T \subseteq Nat /\ T # {}
  BY <1>1, <1>2
<1>4. PICK x \in T : \A y \in T : x <= y
  BY <1>3, SmallestExists
<1>5. PICK m \in S : x = Len(req) - m
  BY <1>4
<1>6. \A w \in S : m >= w
  <2> SUFFICES ASSUME NEW w \in S PROVE m >= w
    OBVIOUS
  <2>1. Len(req) - w \in T
    OBVIOUS
  <2>2. x <= Len(req) - w
    BY <1>4, <2>1
  <2>3. w \in Int /\ m \in Int
    BY <1>2
  <2> HIDE DEF S, T
  <2> QED
    BY <1>2, <1>5, <2>2, <2>3
<1> HIDE DEF S, T
<1>7. n \in S /\ \A w \in S : n >= w
  BY <1>1, <1>5, <1>6 DEF Max
<1>8. \A v \in Writes : v \in Int
  BY <1>2
<1> QED
  BY <1>2, <1>7, <1>8 DEF S, Latest, WritesOf, Ours

(* If the writes of the first group are made one at a time, none while a   *)
(* server of it catches up, and no recovery there is from the own log      *)
(* only, then every server of the group that runs holds what the group's   *)
(* last write to a file, reported as done, has left there, through any     *)
(* deaths, recoveries and failovers, whatever happens in the other groups  *)
(* (RequestWrite, the constructor of WriteServiceImpl, WriteCommand).      *)
THEOREM RecoveredReadableHolds == Spec => []RecoveredReadable
<1>1. Init => Inv /\ HomeInv /\ HeldInv
  BY RecoveryInitInv, HomeInit, HeldInit
<1>2. (Inv /\ HomeInv /\ HeldInv) /\ [Next]_vars => (Inv /\ HomeInv /\ HeldInv)'
  BY RecoveryStepInv, HeldStep
<1>3. ASSUME Inv, HeldInv PROVE RecoveredReadable
  <2> SUFFICES ASSUME Regular, 1 \notin overlap, NEW f \in Files, NEW s \in Home,
                      LastOf(1, f) # 0, Acked(LastOf(1, f)), Runs(s)
               PROVE  table[s][f] = Wanted(LastOf(1, f))
    BY DEF RecoveredReadable, Wanted, Regular, Home
  <2>1. PICK n : n = LastOf(1, f) /\ n # 0
    OBVIOUS
  <2>2. n \in Writes /\ Ours(n) /\ req[n].file = f /\ Latest(n)
    BY <1>3, <2>1, LastIsLatest
  <2>3. Held(n)
    BY <1>3, <2>2 DEF HeldInv
  <2> QED
    BY <2>1, <2>2, <2>3 DEF Held, Restored, Cell
<1> QED
  BY <1>1, <1>2, <1>3, PTL DEF Spec

=============================================================================
