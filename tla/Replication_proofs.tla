------------------------- MODULE Replication_proofs -------------------------
(***************************************************************************)
(* Proofs about Replication, for every number of groups, servers, files    *)
(* and writes, however many are in progress and whoever dies.              *)
(***************************************************************************)
EXTENDS Replication, Failover_proofs, FiniteSetTheorems, WellFoundedInduction

Peers(w) == req[w].servers

(* The positions in its copy of the deque that a write is done with: the   *)
(* replicas come first, one after the other, and the primary last.         *)
Done(w) ==
    LET k == handler[w].at
    IN  {i \in 1..Last(w) :
           \/ handler[w].step = "forward" /\ 2 <= i /\ i < k
           \/ handler[w].step = "log" /\ 2 <= i /\ (k = 1 \/ i < k)
           \/ handler[w].step = "apply" /\ (k = 1 \/ (2 <= i /\ i <= k))
           \/ handler[w].step = "replied"}

(* A server the thread has missed, or takes out of its deque, is down; it  *)
(* needs that no running server is suspected.                              *)
MissedAreDown ==
    ~ Suspects =>
        /\ pc = "update" /\ newStatus = "UNKNOWN" => ~ Up(serverGroup[entry][at])
        /\ pc # "push" /\ primaryFailed => ~ Up(serverGroup[entry][1])
        /\ pc = "push" => ~ Up(oldPrimary)

(* The servers a write was given: each once, of one group, and at least    *)
(* those that are alive.                                                   *)
Copied(w) ==
    rpc[w] # "new" =>
        /\ Last(w) \in 1..GroupSize
        /\ \A i \in 1..Last(w) : Peers(w)[i] \in {req[w].group} \X (1..GroupSize)
        /\ \A i, j \in 1..Last(w) : Peers(w)[i] = Peers(w)[j] => i = j
        /\ ~ Suspects =>
             \A s \in Live(req[w].group) : \E i \in 1..Last(w) : Peers(w)[i] = s

Placed(w) ==
    /\ handler[w].step # "off" => rpc[w] # "new"
    /\ handler[w].step = "forward" => handler[w].at \in 2..(Last(w) + 1)
    /\ handler[w].step \in {"log", "apply"} => handler[w].at \in 1..Last(w)

(* The servers that have logged a write are those it is done with, but for *)
(* the ones that were down.                                                *)
Progress(w) ==
    /\ rpc[w] = "new" => \A s \in Servers : ~ Logged(s, w)
    /\ handler[w].step # "off" =>
         /\ \A i \in Done(w) : Up(Peers(w)[i]) => Logged(Peers(w)[i], w)
         /\ \A s \in Servers : Logged(s, w) => \E i \in Done(w) : Peers(w)[i] = s
    /\ ~ Suspects /\ rpc[w] = "ok" => \A s \in Live(req[w].group) : Logged(s, w)

WriteInv(w) == Copied(w) /\ Placed(w) /\ Progress(w)

Inv ==
    /\ FailoverInv
    /\ WritesTypeOK
    /\ MissedAreDown
    /\ \A w \in Writes : WriteInv(w)
    /\ LoggedOnce

-----------------------------------------------------------------------------
LEMMA WritesTypes ==
    /\ Groups \subseteq Nat
    /\ GroupSize \in Nat
    /\ GroupSize > 1
    /\ Servers = Groups \X (1..GroupSize)
    /\ \A w \in Writes : SizeOf[w] \in Nat \ {0}
BY GroupsTypes, WritesAssumption

LEMMA RequestTyped ==
    ASSUME WritesTypeOK, NEW w \in Writes, rpc[w] # "new"
    PROVE  /\ req[w] \in Requests
           /\ req[w].file \in Files
           /\ req[w].group \in Groups
           /\ req[w].size \in Nat
           /\ Peers(w) \in Seq(Servers)
           /\ Last(w) \in Nat
           /\ \A i \in 1..Last(w) : Peers(w)[i] \in Servers
<1>1. req[w] \in Requests
  BY DEF WritesTypeOK
<1>2. req[w].servers \in Seq(Servers)
  BY <1>1 DEF Requests
<1> QED
  BY <1>1, <1>2 DEF Requests, Peers, Last

(* A server that is alive in a group is one of the servers.                *)
LEMMA LiveServers ==
    ASSUME NEW g \in Groups, NEW s \in Live(g)
    PROVE  s \in Servers /\ s \in {g} \X (1..GroupSize) /\ Up(s)
BY WritesTypes DEF Live

(* Appending a write to a log adds that write and keeps the others.        *)
LEMMA LoggedAppended ==
    ASSUME WritesTypeOK, NEW t \in Servers, NEW e \in Commands,
           log' = [log EXCEPT ![t] = Append(@, e)]
    PROVE  /\ \A s \in Servers, v \in Writes :
                Logged(s, v)' <=> Logged(s, v) \/ (s = t /\ v = e.write)
           /\ \A s \in Servers : s # t => log'[s] = log[s]
           /\ Len(log'[t]) = Len(log[t]) + 1
           /\ Len(log[t]) \in Nat
           /\ \A k \in 1..Len(log[t]) : log'[t][k] = log[t][k]
           /\ log'[t][Len(log[t]) + 1] = e
<1>1. log[t] \in Seq(Commands) /\ log'[t] = Append(log[t], e)
  BY DEF WritesTypeOK
<1>2. /\ Len(log'[t]) = Len(log[t]) + 1
      /\ Len(log[t]) \in Nat
      /\ \A k \in 1..Len(log[t]) : log'[t][k] = log[t][k]
      /\ log'[t][Len(log[t]) + 1] = e
  BY <1>1
<1>3. \A s \in Servers : s # t => log'[s] = log[s]
  BY DEF WritesTypeOK
<1>4. ASSUME NEW s \in Servers, NEW v \in Writes
      PROVE  Logged(s, v)' <=> Logged(s, v) \/ (s = t /\ v = e.write)
  <2>1. CASE s # t
    BY <1>3, <2>1 DEF Logged
  <2>2. CASE s = t
    <3>1. Logged(t, v)' <=> \E k \in 1..(Len(log[t]) + 1) : log'[t][k].write = v
      BY <1>2 DEF Logged
    <3>2. (\E k \in 1..(Len(log[t]) + 1) : log'[t][k].write = v)
            <=> (\E k \in 1..Len(log[t]) : log'[t][k].write = v) \/ e.write = v
      BY <1>2
    <3>3. (\E k \in 1..Len(log[t]) : log'[t][k].write = v) <=> Logged(t, v)
      BY <1>2 DEF Logged
    <3> QED
      BY <2>2, <3>1, <3>2, <3>3
  <2> QED
    BY <2>1, <2>2
<1> QED
  BY <1>2, <1>3, <1>4

-----------------------------------------------------------------------------
LEMMA WritesInit == Init => Inv
<1> SUFFICES ASSUME Init PROVE Inv
  OBVIOUS
<1>1. FailoverInv
  BY InitInv DEF Init
<1>2. WritesTypeOK
  <2>1. <<>> \in Seq(Commands)
    OBVIOUS
  <2>2. NoHandler \in [step : {"off", "forward", "log", "apply", "replied"},
                       at : 0..(GroupSize + 1), result : BOOLEAN]
    BY WritesTypes DEF NoHandler
  <2>3. req \in [Writes -> {NoRequest} \cup Requests] /\ rpc \in [Writes -> {"new"}]
    BY DEF Init
  <2>4. /\ metadataMap \in [Files -> {NotStored} \cup [size : Nat \ {0}, group : Groups]]
        /\ \A f \in Files : metadataMap[f] = NotStored
        /\ users = {}
    BY DEF Init
  <2>5. seqNumMap \in [Groups -> Nat] /\ loadMap \in [Groups -> Int]
    BY DEF Init
  <2>6. \A w \in Writes : rpc[w] = "new"
    BY DEF Init
  <2>7. handler \in [Writes -> [step : {"off", "forward", "log", "apply", "replied"},
                                at : 0..(GroupSize + 1), result : BOOLEAN]]
    BY <2>2 DEF Init
  <2>8. store \in [Servers -> [Files -> Writes \cup {Absent}]]
    BY DEF Init
  <2>9. log \in [Servers -> Seq(Commands)]
    BY <2>1 DEF Init
  <2>10. lastWrite \in [Files -> Writes \cup {Absent}] /\ overlap \in BOOLEAN
    BY DEF Init
  <2>11. rpc \in [Writes -> {"new", "calling", "ok", "failed"}]
    BY DEF Init
  <2> QED
    BY <2>3, <2>4, <2>5, <2>6, <2>7, <2>8, <2>9, <2>10, <2>11 DEF WritesTypeOK
<1>3. MissedAreDown
  BY DEF Init, FailoverInit, MissedAreDown
<1>4. \A w \in Writes : WriteInv(w)
  <2> SUFFICES ASSUME NEW w \in Writes PROVE WriteInv(w)
    OBVIOUS
  <2>1. rpc[w] = "new" /\ handler[w].step = "off" /\ \A s \in Servers : log[s] = <<>>
    BY DEF Init, NoHandler
  <2>2. \A s \in Servers : ~ Logged(s, w)
    BY <2>1 DEF Logged
  <2> QED
    BY <2>1, <2>2 DEF WriteInv, Copied, Placed, Progress
<1>5. LoggedOnce
  BY DEF Init, LoggedOnce
<1> QED
  BY <1>1, <1>2, <1>3, <1>4, <1>5 DEF Inv

-----------------------------------------------------------------------------
(* What a step does to a write it is not about: nothing but for servers    *)
(* that die.                                                               *)
LEMMA OtherWrite ==
    ASSUME WritesTypeOK, NEW v \in Writes, WriteInv(v),
           req'[v] = req[v], rpc'[v] = rpc[v], handler'[v] = handler[v],
           \A s \in Servers : Up(s)' => Up(s),
           \A s \in Servers : Logged(s, v)' <=> Logged(s, v)
    PROVE  WriteInv(v)'
<1>1. /\ Last(v)' = Last(v)
      /\ Peers(v)' = Peers(v)
      /\ Done(v)' = Done(v)
  BY DEF Last, Peers, Done
<1>2. rpc[v] # "new" =>
         /\ req[v].group \in Groups
         /\ \A i \in 1..Last(v) : Peers(v)[i] \in Servers
         /\ \A s \in Live(req[v].group)' : s \in Servers /\ s \in Live(req[v].group)
  <2> SUFFICES ASSUME rpc[v] # "new"
               PROVE  /\ req[v].group \in Groups
                      /\ \A i \in 1..Last(v) : Peers(v)[i] \in Servers
                      /\ \A s \in Live(req[v].group)' :
                            s \in Servers /\ s \in Live(req[v].group)
    OBVIOUS
  <2> USE RequestTyped
  <2>1. req[v].group \in Groups
    OBVIOUS
  <2>2. \A s \in {req[v].group} \X (1..GroupSize) : s \in Servers
    BY <2>1, WritesTypes
  <2> QED
    BY <2>1, <2>2 DEF Live
<1>3. Copied(v)'
  BY <1>1, <1>2 DEF WriteInv, Copied
<1>4. Placed(v)'
  BY <1>1 DEF WriteInv, Placed
<1>5. Progress(v)'
  <2>1. rpc'[v] = "new" => \A s \in Servers : ~ Logged(s, v)'
    BY DEF WriteInv, Progress
  <2>2. ASSUME handler'[v].step # "off"
        PROVE  /\ \A i \in Done(v)' : Up(Peers(v)[i])' => Logged(Peers(v)[i], v)'
               /\ \A s \in Servers : Logged(s, v)' => \E i \in Done(v)' : Peers(v)[i] = s
    <3>1. rpc[v] # "new"
      BY <2>2 DEF WriteInv, Placed
    <3>2. \A i \in Done(v) : Peers(v)[i] \in Servers
      BY <1>2, <3>1 DEF Done
    <3> QED
      BY <1>1, <2>2, <3>2 DEF WriteInv, Progress
  <2>3. ~ Suspects /\ rpc'[v] = "ok" => \A s \in Live(req[v].group)' : Logged(s, v)'
    BY <1>2 DEF WriteInv, Progress
  <2> QED
    BY <1>1, <2>1, <2>2, <2>3 DEF Progress
<1> QED
  BY <1>3, <1>4, <1>5 DEF WriteInv

(* A step of the thread of a write that leaves master and servers alone.   *)
LEMMA ThreadStep ==
    ASSUME Inv, NEW w \in Writes, UNCHANGED <<failoverVars, log>>,
           WritesTypeOK', WriteInv(w)',
           \A v \in Writes \ {w} :
              req'[v] = req[v] /\ rpc'[v] = rpc[v] /\ handler'[v] = handler[v]
    PROVE  Inv'
<1>1. UNCHANGED heartbeatVars /\ UNCHANGED server
  BY DEF failoverVars
<1>2. FailoverInv'
  BY <1>1, ServerStepInv DEF Inv, FailoverInv, Types
<1>3. MissedAreDown'
  BY <1>1 DEF Inv, MissedAreDown, Up, heartbeatVars
<1>4. LoggedOnce'
  BY DEF Inv, LoggedOnce
<1>5. ASSUME NEW v \in Writes PROVE WriteInv(v)'
  <2>1. CASE v = w
    BY <2>1
  <2>2. CASE v # w
    <3>1. \A s \in Servers : Up(s)' <=> Up(s)
      BY <1>1 DEF Up
    <3>2. \A s \in Servers : Logged(s, v)' <=> Logged(s, v)
      BY DEF Logged
    <3> QED
      BY <2>2, <3>1, <3>2, OtherWrite DEF Inv
  <2> QED
    BY <2>1, <2>2
<1> QED
  BY <1>2, <1>3, <1>4, <1>5 DEF Inv

-----------------------------------------------------------------------------
HandlerType == [step : {"off", "forward", "log", "apply", "replied"},
                at : 0..(GroupSize + 1), result : BOOLEAN]

LEMMA AtHandler ==
    ASSUME WritesTypeOK, NEW w \in Writes, NEW step, NEW k
    PROVE  At(w, step, k) =
             [handler EXCEPT ![w] = [step |-> step, at |-> k, result |-> handler[w].result]]
BY DEF At, WritesTypeOK

(* The thread of a write goes on, having done what it has logged, and      *)
(* passing over servers that are down.                                     *)
LEMMA MoveInv ==
    ASSUME Inv, NEW w \in Writes, NEW h \in HandlerType,
           handler[w].step # "off",
           UNCHANGED <<failoverVars, masterVars, req, rpc, log, historyVars>>,
           store' \in [Servers -> [Files -> Writes \cup {Absent}]],
           handler' = [handler EXCEPT ![w] = h],
           h.step = "forward" => h.at \in 2..(Last(w) + 1),
           h.step \in {"log", "apply"} => h.at \in 1..Last(w),
           h.step # "off" =>
             /\ \A i \in Done(w)' : i \in Done(w) \/ ~ Up(Peers(w)[i])
             /\ Done(w) \subseteq Done(w)'
    PROVE  Inv'
<1>1. /\ handler \in [Writes -> HandlerType]
      /\ handler' \in [Writes -> HandlerType]
      /\ handler'[w] = h
      /\ \A v \in Writes \ {w} : handler'[v] = handler[v]
  BY DEF Inv, WritesTypeOK, HandlerType
<1>2. WritesTypeOK'
  BY <1>1 DEF Inv, WritesTypeOK, HandlerType, masterVars, historyVars
<1>3. rpc[w] # "new"
  BY DEF Inv, WriteInv, Placed
<1>4. \A s \in Servers : (Logged(s, w)' <=> Logged(s, w)) /\ (Up(s)' <=> Up(s))
  BY DEF Logged, Up, failoverVars
<1>5. Last(w)' = Last(w) /\ Peers(w)' = Peers(w)
  BY DEF Last, Peers
<1>6. Copied(w)'
  BY <1>5 DEF Inv, WriteInv, Copied, Live, Up, failoverVars
<1>7. Placed(w)'
  BY <1>1, <1>3, <1>5 DEF Placed
<1>8. Progress(w)'
  <2>1. \A i \in Done(w)' : Peers(w)[i] \in Servers /\ i \in 1..Last(w)
    BY <1>3, <1>5, RequestTyped DEF Done, Inv
  <2>2. ASSUME h.step # "off", NEW i \in Done(w)', Up(Peers(w)[i])'
        PROVE  Logged(Peers(w)[i], w)'
    <3>1. i \in Done(w) /\ Up(Peers(w)[i])
      BY <1>4, <1>5, <2>1, <2>2
    <3> QED
      BY <1>4, <1>5, <2>1, <2>2, <3>1 DEF Inv, WriteInv, Progress
  <2>3. ASSUME h.step # "off", NEW s \in Servers, Logged(s, w)'
        PROVE  \E i \in Done(w)' : Peers(w)[i] = s
    <3>1. PICK i \in Done(w) : Peers(w)[i] = s
      BY <1>4, <2>3 DEF Inv, WriteInv, Progress
    <3> QED
      BY <2>3, <3>1
  <2>4. ~ Suspects /\ rpc[w] = "ok" => \A s \in Live(req[w].group)' : Logged(s, w)'
    <3> SUFFICES ASSUME ~ Suspects, rpc[w] = "ok", NEW s \in Live(req[w].group)'
                 PROVE  Logged(s, w)'
      OBVIOUS
    <3>1. s \in Live(req[w].group)
      BY DEF Live, Up, failoverVars
    <3>2. Logged(s, w)
      BY <3>1 DEF Inv, WriteInv, Progress
    <3> QED
      BY <3>2 DEF Logged
  <2> QED
    BY <1>1, <1>3, <1>5, <2>2, <2>3, <2>4 DEF Progress
<1>9. WriteInv(w)'
  BY <1>6, <1>7, <1>8 DEF WriteInv
<1>10. UNCHANGED <<failoverVars, log>>
  OBVIOUS
<1> QED
  BY <1>1, <1>2, <1>9, <1>10, ThreadStep

(* Where the thread of a write stands.                                     *)
LEMMA HandlerTyped ==
    ASSUME Inv, NEW w \in Writes, handler[w].step # "off"
    PROVE  /\ handler[w] \in HandlerType
           /\ rpc[w] # "new"
           /\ Last(w) \in 1..GroupSize
           /\ GroupSize \in Nat
           /\ handler[w].step = "forward" => handler[w].at \in 2..(Last(w) + 1)
           /\ handler[w].step \in {"log", "apply"} => handler[w].at \in 1..Last(w)
           /\ PrimaryOf(w) = Peers(w)[1]
           /\ Target(w) = Peers(w)[handler[w].at]
           /\ store \in [Servers -> [Files -> Writes \cup {Absent}]]
<1>1. handler[w] \in HandlerType
  BY DEF Inv, WritesTypeOK, HandlerType
<1>2. Placed(w) /\ Copied(w)
  BY DEF Inv, WriteInv
<1>3. store \in [Servers -> [Files -> Writes \cup {Absent}]]
  BY DEF Inv, WritesTypeOK
<1> QED
  BY <1>1, <1>2, <1>3, WritesTypes DEF Placed, Copied, PrimaryOf, Target, Peers

LEMMA ForwardInv ==
    ASSUME Inv, NEW w \in Writes, Forward(w)
    PROVE  Inv'
<1> DEFINE k == handler[w].at
           L == Last(w)
<1>1. /\ handler[w].step = "forward"
      /\ UNCHANGED <<failoverVars, masterVars, req, rpc, store, log, historyVars>>
  BY DEF Forward
<1>2. /\ handler[w] \in HandlerType
      /\ L \in 1..GroupSize /\ GroupSize \in Nat
      /\ k \in 2..(L + 1)
      /\ Target(w) = Peers(w)[k]
      /\ store \in [Servers -> [Files -> Writes \cup {Absent}]]
  BY <1>1, HandlerTyped
<1>3. /\ Done(w) = {i \in 1..L : 2 <= i /\ i < k}
      /\ handler \in [Writes -> HandlerType]
      /\ L' = L
  BY <1>1 DEF Done, Inv, WritesTypeOK, HandlerType, Last
<1>4. CASE k > L
  <2> DEFINE h == [step |-> "log", at |-> 1, result |-> handler[w].result]
  <2>1. handler' = [handler EXCEPT ![w] = h]
    BY <1>1, <1>4, AtHandler DEF Forward, Inv
  <2>2. h \in HandlerType /\ h.at \in 1..L
    BY <1>2 DEF HandlerType
  <2>3. Done(w)' = {i \in 1..L : 2 <= i}
    BY <1>3, <2>1 DEF Done
  <2>4. Done(w)' = Done(w)
    BY <1>2, <1>3, <1>4, <2>3
  <2> QED
    BY <1>1, <1>2, <2>1, <2>2, <2>4, MoveInv
<1>5. CASE k <= L /\ Up(Target(w))
  <2> DEFINE h == [step |-> "log", at |-> k, result |-> handler[w].result]
  <2>1. handler' = [handler EXCEPT ![w] = h]
    BY <1>1, <1>2, <1>5, AtHandler DEF Forward, Inv
  <2>2. h \in HandlerType /\ h.at \in 1..L
    BY <1>2, <1>5 DEF HandlerType
  <2>3. Done(w)' = {i \in 1..L : 2 <= i /\ i < k}
    BY <1>2, <1>3, <2>1 DEF Done
  <2>4. Done(w)' = Done(w)
    BY <1>3, <2>3
  <2> QED
    BY <1>1, <1>2, <2>1, <2>2, <2>4, MoveInv
<1>6. CASE k <= L /\ ~ Up(Target(w))
  <2> DEFINE h == [step |-> "forward", at |-> k + 1, result |-> handler[w].result]
  <2>1. handler' = [handler EXCEPT ![w] = h]
    BY <1>1, <1>2, <1>6, AtHandler DEF Forward, Inv
  <2>2. h \in HandlerType /\ h.at \in 2..(L + 1)
    BY <1>2, <1>6 DEF HandlerType
  <2>3. Done(w)' = {i \in 1..L : 2 <= i /\ i < k + 1}
    BY <1>3, <2>1 DEF Done
  <2>4. \A i \in Done(w)' : i \in Done(w) \/ ~ Up(Peers(w)[i])
    BY <1>2, <1>3, <1>6, <2>3
  <2>5. Done(w) \subseteq Done(w)'
    BY <1>2, <1>3, <2>3
  <2> QED
    BY <1>1, <1>2, <2>1, <2>2, <2>4, <2>5, MoveInv
<1> QED
  BY <1>2, <1>4, <1>5, <1>6

LEMMA BrokenInv ==
    ASSUME Inv, NEW w \in Writes, Broken(w)
    PROVE  Inv'
<1> DEFINE k == handler[w].at
           L == Last(w)
           over == [step |-> "off", at |-> 1, result |-> handler[w].result]
           next == [step |-> "forward", at |-> k + 1, result |-> handler[w].result]
<1>1. /\ handler[w].step # "off"
      /\ UNCHANGED <<failoverVars, masterVars, req, rpc, store, log, historyVars>>
  BY DEF Broken
<1>2. /\ handler[w] \in HandlerType
      /\ L \in 1..GroupSize /\ GroupSize \in Nat
      /\ store \in [Servers -> [Files -> Writes \cup {Absent}]]
      /\ handler \in [Writes -> HandlerType]
  BY <1>1, HandlerTyped DEF Inv, WritesTypeOK, HandlerType
<1>3. CASE handler' = At(w, "off", 1)
  <2>1. handler' = [handler EXCEPT ![w] = over]
    BY <1>3, AtHandler DEF Inv
  <2>2. over \in HandlerType
    BY <1>2 DEF HandlerType
  <2> QED
    BY <1>1, <1>2, <2>1, <2>2, MoveInv
<1>4. CASE /\ handler[w].step \in {"log", "apply"}
           /\ ~ Up(Target(w)) /\ Up(PrimaryOf(w))
           /\ handler' = At(w, "forward", k + 1)
  <2>1. handler' = [handler EXCEPT ![w] = next]
    BY <1>4, AtHandler DEF Inv
  <2>2. k \in 2..L /\ ~ Up(Peers(w)[k])
    <3>1. k \in 1..L /\ PrimaryOf(w) = Peers(w)[1] /\ Target(w) = Peers(w)[k]
      BY <1>1, <1>4, HandlerTyped
    <3>2. k # 1
      BY <1>4, <3>1
    <3> QED
      BY <1>4, <3>1, <3>2
  <2>3. next \in HandlerType /\ next.at \in 2..(L + 1)
    BY <1>2, <2>2 DEF HandlerType
  <2>4. L' = L
    BY <1>1 DEF Last
  <2>5. Done(w)' = {i \in 1..L : 2 <= i /\ i < k + 1}
    BY <1>2, <2>1, <2>4 DEF Done
  <2>6. \A i \in Done(w)' : i \in Done(w) \/ ~ Up(Peers(w)[i])
    <3>1. \A i \in 1..L : 2 <= i /\ i < k => i \in Done(w)
      <4>1. k \in Nat /\ L \in Nat
        BY <1>2, <2>2
      <4>2. CASE handler[w].step = "log"
        BY <4>1, <4>2 DEF Done
      <4>3. CASE handler[w].step = "apply"
        BY <4>1, <4>3 DEF Done
      <4> QED
        BY <1>4, <4>2, <4>3
    <3>2. \A i \in Done(w)' : i \in 1..L /\ 2 <= i /\ (i < k \/ i = k)
      BY <1>2, <2>2, <2>5
    <3> QED
      BY <2>2, <3>1, <3>2
  <2>7. Done(w) \subseteq Done(w)'
    <3>1. \A i \in Done(w) : i \in 1..L /\ 2 <= i /\ i <= k
      <4>1. k # 1 /\ k \in Nat /\ L \in Nat
        BY <1>2, <2>2
      <4>2. CASE handler[w].step = "log"
        BY <4>1, <4>2 DEF Done
      <4>3. CASE handler[w].step = "apply"
        BY <4>1, <4>3 DEF Done
      <4> QED
        BY <1>4, <4>2, <4>3
    <3> QED
      BY <1>2, <2>2, <2>5, <3>1
  <2> QED
    BY <1>1, <1>2, <2>1, <2>3, <2>6, <2>7, MoveInv
<1> QED
  BY <1>3, <1>4 DEF Broken

LEMMA ApplyInv ==
    ASSUME Inv, NEW w \in Writes, Apply(w)
    PROVE  Inv'
<1> DEFINE k == handler[w].at
           L == Last(w)
           f == req[w].file
           ok == req[w].type = "PUT" \/ store[Target(w)][f] # Absent
<1>1. /\ handler[w].step = "apply"
      /\ UNCHANGED <<failoverVars, masterVars, req, rpc, log, historyVars>>
      /\ store' = [store EXCEPT ![Target(w)][f] = IF req[w].type = "PUT" THEN w ELSE Absent]
  BY DEF Apply
<1>2. /\ handler[w] \in HandlerType
      /\ L \in 1..GroupSize /\ GroupSize \in Nat
      /\ k \in 1..L
      /\ store \in [Servers -> [Files -> Writes \cup {Absent}]]
      /\ handler \in [Writes -> HandlerType]
      /\ L' = L
  BY <1>1, HandlerTyped DEF Inv, WritesTypeOK, HandlerType, Last
<1>3. store' \in [Servers -> [Files -> Writes \cup {Absent}]]
  BY <1>1, <1>2
<1>4. CASE k = 1
  <2> DEFINE h == [step |-> "replied", at |-> 1, result |-> ok]
  <2>1. handler' = [handler EXCEPT ![w] = h]
    BY <1>4 DEF Apply
  <2>2. h \in HandlerType
    BY <1>2 DEF HandlerType
  <2>3. Done(w)' = 1..L
    BY <1>2, <2>1 DEF Done
  <2>4. Done(w) = 1..L
    BY <1>1, <1>4 DEF Done
  <2> QED
    BY <1>1, <1>3, <2>1, <2>2, <2>3, <2>4, MoveInv
<1>5. CASE k # 1
  <2> DEFINE h == [step |-> "forward", at |-> k + 1, result |-> handler[w].result]
  <2>1. handler' = [handler EXCEPT ![w] = h]
    BY <1>5, AtHandler DEF Apply, Inv
  <2>2. h \in HandlerType /\ h.at \in 2..(L + 1)
    BY <1>2, <1>5 DEF HandlerType
  <2>3. Done(w)' = {i \in 1..L : 2 <= i /\ i < k + 1}
    BY <1>2, <2>1 DEF Done
  <2>4. Done(w) = {i \in 1..L : 2 <= i /\ i <= k}
    BY <1>1, <1>5 DEF Done
  <2>5. Done(w)' = Done(w)
    BY <1>2, <2>3, <2>4
  <2> QED
    BY <1>1, <1>3, <2>1, <2>2, <2>5, MoveInv
<1> QED
  BY <1>4, <1>5

(* The server the thread is at logs the write for the first time.          *)
LEMMA AppendLogInv ==
    ASSUME Inv, NEW w \in Writes, AppendLog(w)
    PROVE  Inv'
<1> DEFINE k == handler[w].at
           L == Last(w)
           h == [step |-> "apply", at |-> k, result |-> handler[w].result]
<1>1. /\ handler[w].step = "log"
      /\ UNCHANGED <<failoverVars, masterVars, req, rpc, store, historyVars>>
      /\ UNCHANGED heartbeatVars /\ UNCHANGED server
      /\ handler' = At(w, "apply", k)
  BY DEF AppendLog, failoverVars
<1>2. /\ handler[w] \in HandlerType
      /\ L \in 1..GroupSize /\ GroupSize \in Nat
      /\ k \in 1..L
      /\ Target(w) = Peers(w)[k]
      /\ rpc[w] # "new"
      /\ handler \in [Writes -> HandlerType]
      /\ L' = L
      /\ Peers(w)' = Peers(w)
  BY <1>1, HandlerTyped DEF Inv, WritesTypeOK, HandlerType, Last, Peers
<1> DEFINE peers == Peers(w)
<1>3. /\ \A i \in 1..L : peers[i] \in Servers
      /\ req[w].group \in Groups
      /\ req[w] \in Requests
  BY <1>2, RequestTyped DEF Inv
<1>t. PICK t \in Servers, e \in Commands :
        /\ t = peers[k]
        /\ e.write = w
        /\ log' = [log EXCEPT ![t] = Append(@, e)]
  <2> DEFINE entry_ == [write |-> w, file |-> req[w].file, type |-> req[w].type,
                        seqNum |-> req[w].seqNum]
  <2>1. entry_ \in Commands /\ entry_.write = w
    BY <1>3 DEF Requests, Commands
  <2>2. log' = [log EXCEPT ![peers[k]] = Append(@, entry_)]
    BY <1>2 DEF AppendLog
  <2> HIDE DEF entry_
  <2> QED
    BY <1>2, <1>3, <2>1, <2>2
<1>4. /\ \A s \in Servers, v \in Writes : Logged(s, v)' <=> Logged(s, v) \/ (s = t /\ v = w)
      /\ \A s \in Servers : s # t => log'[s] = log[s]
      /\ Len(log'[t]) = Len(log[t]) + 1
      /\ Len(log[t]) \in Nat
      /\ \A j \in 1..Len(log[t]) : log'[t][j] = log[t][j]
      /\ log'[t][Len(log[t]) + 1].write = w
  <2>1. WritesTypeOK
    BY DEF Inv
  <2>2. log' = [log EXCEPT ![t] = Append(@, e)]
    BY <1>t
  <2>3. /\ \A s \in Servers, v \in Writes :
             Logged(s, v)' <=> Logged(s, v) \/ (s = t /\ v = e.write)
        /\ \A s \in Servers : s # t => log'[s] = log[s]
        /\ Len(log'[t]) = Len(log[t]) + 1
        /\ Len(log[t]) \in Nat
        /\ \A j \in 1..Len(log[t]) : log'[t][j] = log[t][j]
        /\ log'[t][Len(log[t]) + 1] = e
    BY <2>1, <2>2, LoggedAppended, Zenon
  <2> QED
    BY <1>t, <2>3
<1>5. handler' = [handler EXCEPT ![w] = h] /\ h \in HandlerType
  BY <1>1, <1>2, AtHandler DEF Inv, HandlerType
<1>6. /\ Done(w) = {i \in 1..L : 2 <= i /\ (k = 1 \/ i < k)}
      /\ Done(w)' = {i \in 1..L : k = 1 \/ (2 <= i /\ i <= k)}
  BY <1>1, <1>2, <1>5 DEF Done
<1>7. k \notin Done(w) /\ Done(w)' = Done(w) \cup {k}
  BY <1>2, <1>6
<1>8. ~ Logged(t, w)
  <2>1. \A i \in Done(w) : Peers(w)[i] # t
    BY <1>2, <1>6, <1>7, <1>t DEF Inv, WriteInv, Copied
  <2> QED
    BY <1>1, <1>3, <2>1 DEF Inv, WriteInv, Progress
<1>9. \A s \in Servers : Up(s)' <=> Up(s)
  BY <1>1 DEF Up
<1>10. WriteInv(w)'
  <2>1. Copied(w)'
    BY <1>1, <1>2 DEF Inv, WriteInv, Copied, Live, Up
  <2>2. Placed(w)'
    BY <1>1, <1>2, <1>5 DEF Placed
  <2>3. \A i \in Done(w)' : Up(Peers(w)[i])' => Logged(Peers(w)[i], w)'
    <3>1. ASSUME NEW i \in 1..L, NEW s \in Servers, s = peers[i], i \in Done(w)', Up(s)'
          PROVE  Logged(s, w)'
      <4>1. CASE i = k
        BY <1>4, <1>t, <3>1, <4>1
      <4>2. CASE i # k
        <5>1. i \in Done(w) /\ Up(s)
          BY <1>7, <1>9, <3>1, <4>2
        <5>2. Logged(s, w)
          BY <1>1, <3>1, <5>1 DEF Inv, WriteInv, Progress
        <5> QED
          BY <1>4, <5>2
      <4> QED
        BY <4>1, <4>2
    <3>2. \A i \in Done(w)' : i \in 1..L /\ peers[i] \in Servers
      BY <1>3, <1>6
    <3>3. Peers(w)' = peers
      BY <1>2
    <3> QED
      BY <3>1, <3>2, <3>3 DEF Logged, Up
  <2>4. \A s \in Servers : Logged(s, w)' => \E i \in Done(w)' : Peers(w)[i] = s
    <3>1. \A s \in Servers : Logged(s, w) => \E i \in Done(w) : Peers(w)[i] = s
      BY <1>1 DEF Inv, WriteInv, Progress
    <3> QED
      BY <1>2, <1>4, <1>7, <1>t, <3>1
  <2>5. ~ Suspects /\ rpc[w] = "ok" => \A s \in Live(req[w].group)' : Logged(s, w)'
    <3> SUFFICES ASSUME ~ Suspects, rpc[w] = "ok", NEW s \in Live(req[w].group)'
                 PROVE  Logged(s, w)'
      OBVIOUS
    <3>1. s \in Live(req[w].group) /\ s \in Servers
      <4>1. s \in Live(req[w].group)
        BY <1>1 DEF Live, Up
      <4> QED
        BY <1>3, <4>1, LiveServers
    <3>2. Logged(s, w)
      BY <3>1 DEF Inv, WriteInv, Progress
    <3> QED
      BY <1>4, <3>1, <3>2
  <2>6. Progress(w)'
    BY <1>1, <1>2, <2>3, <2>4, <2>5 DEF Progress
  <2> QED
    BY <2>1, <2>2, <2>6 DEF WriteInv
<1>11. ASSUME NEW v \in Writes PROVE WriteInv(v)'
  <2>1. CASE v = w
    BY <1>10, <2>1
  <2>2. CASE v # w
    <3>1. req'[v] = req[v] /\ rpc'[v] = rpc[v] /\ handler'[v] = handler[v]
      BY <1>1, <1>2, <1>5, <2>2
    <3>2. \A s \in Servers : Logged(s, v)' <=> Logged(s, v)
      BY <1>4, <2>2
    <3> QED
      BY <1>9, <3>1, <3>2, OtherWrite DEF Inv
  <2> QED
    BY <2>1, <2>2
<1>12. LoggedOnce'
  <2> SUFFICES ASSUME NEW s \in Servers, NEW i \in 1..Len(log'[s]), NEW j \in 1..Len(log'[s]),
                      log'[s][i].write = log'[s][j].write
               PROVE  i = j
    BY DEF LoggedOnce
  <2>1. CASE s # t
    BY <1>4, <2>1 DEF Inv, LoggedOnce
  <2>2. CASE s = t
    <3> DEFINE n == Len(log[t])
    <3>1. \A m \in 1..n : log[t][m].write # w
      BY <1>8, Zenon DEF Logged
    <3>2. i \in 1..(n + 1) /\ j \in 1..(n + 1)
      BY <1>4, <2>2
    <3>3. CASE i \in 1..n /\ j \in 1..n
      <4>1. log[t][i].write = log[t][j].write
        BY <1>4, <2>2, <3>3
      <4> QED
        BY <3>3, <4>1 DEF Inv, LoggedOnce
    <3>4. CASE i = n + 1 /\ j \in 1..n
      BY <1>4, <2>2, <3>1, <3>4
    <3>5. CASE j = n + 1 /\ i \in 1..n
      BY <1>4, <2>2, <3>1, <3>5
    <3> QED
      BY <1>4, <3>2, <3>3, <3>4, <3>5
  <2> QED
    BY <2>1, <2>2
<1>13. WritesTypeOK'
  <2>1. Append(log[t], e) \in Seq(Commands)
    BY <1>t DEF Inv, WritesTypeOK
  <2>2. log' \in [Servers -> Seq(Commands)]
    BY <1>t, <2>1 DEF Inv, WritesTypeOK
  <2>3. handler' \in [Writes -> HandlerType]
    BY <1>2, <1>5
  <2> QED
    BY <1>1, <2>2, <2>3 DEF Inv, WritesTypeOK, HandlerType, masterVars, historyVars
<1>14. FailoverInv' /\ MissedAreDown'
  <2>1. FailoverInv'
    BY <1>1, ServerStepInv DEF Inv, FailoverInv, Types
  <2>2. MissedAreDown'
    BY <1>1 DEF Inv, MissedAreDown, Up, heartbeatVars
  <2> QED
    BY <2>1, <2>2
<1> QED
  BY <1>11, <1>12, <1>13, <1>14 DEF Inv

-----------------------------------------------------------------------------
(* The servers a deque holds when a write copies it: all that are alive.   *)
LEMMA DequeCopied ==
    ASSUME Inv, NEW g \in Groups
    PROVE  LET q == serverGroup[g]
           IN  /\ q \in Seq(Servers)
               /\ Len(q) \in 1..GroupSize
               /\ \A i \in 1..Len(q) : q[i] \in {g} \X (1..GroupSize)
               /\ \A i, j \in 1..Len(q) : q[i] = q[j] => i = j
               /\ ~ Suspects => \A s \in Live(g) : \E i \in 1..Len(q) : q[i] = s
<1> DEFINE q == serverGroup[g]
<1>1. Rotation(Members(g), g) /\ q \in Seq(Servers) /\ Len(q) \in Nat /\ oldPrimary \in Servers
  BY DEF Inv, FailoverInv, Types, Rotations
<1>2. GroupSize \in Nat /\ GroupSize > 1
  BY WritesTypes
<1>3. CASE pc = "push" /\ entry = g
  <2>1. Members(g) = Append(q, oldPrimary)
    BY <1>3 DEF Members
  <2>2. /\ Len(q) = GroupSize - 1
        /\ \A i \in 1..Len(q) : Members(g)[i] = q[i]
        /\ Members(g)[GroupSize] = oldPrimary
    <3>1. Len(Members(g)) = GroupSize
      BY <1>1 DEF Rotation
    <3> QED
      BY <1>1, <1>2, <2>1, <3>1
  <2>3. \A i \in 1..Len(q) : i \in 1..GroupSize
    BY <1>1, <1>2, <2>2
  <2>4. ASSUME ~ Suspects, NEW s \in Live(g)
        PROVE  \E i \in 1..Len(q) : q[i] = s
    <3>1. Up(s) /\ s # oldPrimary
      BY <1>3, <2>4 DEF Live, Inv, MissedAreDown
    <3>2. PICK i \in 1..GroupSize : Members(g)[i] = s
      BY <1>1 DEF Live, Rotation
    <3>3. i # GroupSize
      BY <2>2, <3>1, <3>2
    <3> QED
      BY <1>2, <2>2, <3>2, <3>3
  <2>5. /\ \A i \in 1..Len(q) : q[i] \in {g} \X (1..GroupSize)
        /\ \A i, j \in 1..Len(q) : q[i] = q[j] => i = j
    BY <1>1, <2>2, <2>3 DEF Rotation
  <2>6. Len(q) \in 1..GroupSize
    BY <1>1, <1>2, <2>2
  <2> HIDE DEF q
  <2>7. ~ Suspects => \A s \in Live(g) : \E i \in 1..Len(q) : q[i] = s
    BY <2>4
  <2>8. q \in Seq(Servers)
    BY <1>1
  <2> QED
    BY <2>5, <2>6, <2>7, <2>8 DEF q
<1>4. CASE ~ (pc = "push" /\ entry = g)
  <2>1. Members(g) = q
    BY <1>4 DEF Members
  <2>2. \A s \in Live(g) : \E i \in 1..Len(q) : q[i] = s
    BY <1>1, <2>1 DEF Live, Rotation
  <2> QED
    BY <1>1, <1>2, <2>1, <2>2 DEF Rotation
<1> QED
  BY <1>3, <1>4

LEMMA RequestWriteInv ==
    ASSUME Inv, NEW w \in Writes, NEW f \in Files, NEW type \in {"PUT", "DELETE"},
           RequestWrite(w, f, type)
    PROVE  Inv'
<1>1. PICK g \in Groups :
        /\ rpc[w] = "new"
        /\ req' = [req EXCEPT ![w] =
             [file |-> f, type |-> type, size |-> metadataMap[f].size, group |-> g,
              servers |-> serverGroup[g], seqNum |-> seqNumMap[g]]]
        /\ rpc' = [rpc EXCEPT ![w] = "calling"]
        /\ handler' = IF Up(Primary(g))
             THEN [handler EXCEPT ![w] = [step |-> "forward", at |-> 2, result |-> FALSE]]
             ELSE handler
        /\ seqNumMap' = [seqNumMap EXCEPT ![g] = @ + 1]
        /\ lastWrite' = [lastWrite EXCEPT ![f] = w]
        /\ overlap' = (overlap \/ Active # {})
        /\ UNCHANGED <<failoverVars, metadataMap, users, loadMap, store, log>>
  BY DEF RequestWrite
<1> DEFINE q == serverGroup[g]
           r == [file |-> f, type |-> type, size |-> metadataMap[f].size, group |-> g,
                 servers |-> q, seqNum |-> seqNumMap[g]]
<1>2. /\ q \in Seq(Servers)
      /\ Len(q) \in 1..GroupSize
      /\ GroupSize \in Nat
      /\ \A i \in 1..Len(q) : q[i] \in {g} \X (1..GroupSize)
      /\ \A i, j \in 1..Len(q) : q[i] = q[j] => i = j
      /\ ~ Suspects => \A s \in Live(g) : \E i \in 1..Len(q) : q[i] = s
  BY DequeCopied, WritesTypes
<1>3. /\ handler \in [Writes -> HandlerType]
      /\ handler[w].step = "off"
      /\ \A s \in Servers : ~ Logged(s, w)
  BY <1>1 DEF Inv, WritesTypeOK, HandlerType, WriteInv, Placed, Progress
<1>4. r \in Requests
  <2>1. metadataMap[f].size \in Nat
    BY DEF Inv, WritesTypeOK, NotStored
  <2>2. seqNumMap[g] \in Nat
    BY DEF Inv, WritesTypeOK
  <2> QED
    BY <1>2, <2>1, <2>2 DEF Requests
<1>5. /\ req'[w] = r
      /\ rpc'[w] = "calling"
      /\ \A v \in Writes \ {w} :
           req'[v] = req[v] /\ rpc'[v] = rpc[v] /\ handler'[v] = handler[v]
  BY <1>1, <1>3 DEF Inv, WritesTypeOK
<1>6. /\ handler' \in [Writes -> HandlerType]
      /\ handler'[w].step = "off" \/ (handler'[w].step = "forward" /\ handler'[w].at = 2)
  <2>1. [step |-> "forward", at |-> 2, result |-> FALSE] \in HandlerType
    BY WritesTypes DEF HandlerType
  <2> QED
    BY <1>1, <1>3, <2>1
<1>7. WritesTypeOK'
  <2>1. seqNumMap' \in [Groups -> Nat] /\ lastWrite' \in [Files -> Writes \cup {Absent}]
    BY <1>1 DEF Inv, WritesTypeOK
  <2>2. overlap' \in BOOLEAN
    BY <1>1 DEF Inv, WritesTypeOK
  <2>3. req' \in [Writes -> {NoRequest} \cup Requests]
    BY <1>1, <1>4 DEF Inv, WritesTypeOK
  <2>4. rpc' \in [Writes -> {"new", "calling", "ok", "failed"}]
    BY <1>1 DEF Inv, WritesTypeOK
  <2>5. \A v \in Writes : rpc'[v] # "new" => req'[v] \in Requests
    BY <1>4, <1>5 DEF Inv, WritesTypeOK
  <2> QED
    BY <1>1, <1>6, <2>1, <2>2, <2>3, <2>4, <2>5 DEF Inv, WritesTypeOK, HandlerType
<1>8. WriteInv(w)'
  <2>1. Last(w)' = Len(q) /\ Peers(w)' = q
    BY <1>5 DEF Last, Peers
  <2>2. Copied(w)'
    BY <1>1, <1>2, <1>5, <2>1 DEF Copied, Live, Up, failoverVars
  <2>3. Placed(w)'
    BY <1>2, <1>5, <1>6, <2>1 DEF Placed
  <2>4. Done(w)' = {}
    BY <1>2, <1>6, <2>1 DEF Done
  <2>5. \A s \in Servers : ~ Logged(s, w)'
    BY <1>1, <1>3 DEF Logged
  <2>6. Progress(w)'
    BY <1>5, <2>4, <2>5 DEF Progress
  <2> QED
    BY <2>2, <2>3, <2>6 DEF WriteInv
<1> QED
  BY <1>1, <1>5, <1>7, <1>8, ThreadStep

-----------------------------------------------------------------------------
(* The records of the master when the call for a write has succeeded.      *)
LEMMA RecordTypes ==
    ASSUME WritesTypeOK, NEW w \in Writes, rpc[w] # "new",
           RecordPut(w) \/ RecordDelete(w)
    PROVE  /\ metadataMap' \in [Files -> {NotStored} \cup [size : Nat \ {0}, group : Groups]]
           /\ users' \subseteq Users
           /\ \A f \in Files : metadataMap'[f] # NotStored => UserOf[f] \in users'
           /\ loadMap' \in [Groups -> Int]
<1>1. /\ req[w].file \in Files
      /\ req[w].group \in Groups
      /\ req[w].size \in Nat
      /\ SizeOf[w] \in Nat \ {0}
  BY RequestTyped, WritesTypes
<1>2. /\ metadataMap \in [Files -> {NotStored} \cup [size : Nat \ {0}, group : Groups]]
      /\ users \subseteq Users
      /\ \A f \in Files : metadataMap[f] # NotStored => UserOf[f] \in users
      /\ loadMap \in [Groups -> Int]
  BY DEF WritesTypeOK
<1>3. CASE RecordPut(w)
  <2> DEFINE stored == [size |-> SizeOf[w], group |-> req[w].group]
  <2>1. stored \in [size : Nat \ {0}, group : Groups]
    BY <1>1
  <2>2. /\ metadataMap' = [metadataMap EXCEPT ![req[w].file] = stored]
        /\ users' = users \cup {UserOf[req[w].file]}
    BY <1>3 DEF RecordPut
  <2> HIDE DEF stored
  <2>3. UserOf[req[w].file] \in Users
    BY <1>1 DEF Users
  <2>4. loadMap' \in [Groups -> Int]
    <3> DEFINE new == loadMap[req[w].group] + SizeOf[w] - req[w].size
                        + (IF UserOf[req[w].file] \in users THEN 0 ELSE 1)
    <3>1. new \in Int
      BY <1>1, <1>2
    <3>2. loadMap' = [loadMap EXCEPT ![req[w].group] = new]
      BY <1>3 DEF RecordPut
    <3> QED
      BY <1>2, <3>1, <3>2
  <2> QED
    BY <1>1, <1>2, <2>1, <2>2, <2>3, <2>4
<1>4. CASE RecordDelete(w)
  BY <1>1, <1>2, <1>4 DEF RecordDelete
<1> QED
  BY <1>3, <1>4

LEMMA ReturnInv ==
    ASSUME Inv, NEW w \in Writes, Return(w)
    PROVE  Inv'
<1> DEFINE over == [step |-> "off", at |-> 1, result |-> handler[w].result]
<1>1. /\ rpc[w] = "calling"
      /\ UNCHANGED <<failoverVars, seqNumMap, req, store, log, historyVars>>
      /\ \/ handler' = [handler EXCEPT ![w] = over]
         \/ handler' = handler /\ rpc' = [rpc EXCEPT ![w] = "failed"]
      /\ \/ rpc' = [rpc EXCEPT ![w] = "ok"] /\ handler[w].step = "replied"
         \/ rpc' = [rpc EXCEPT ![w] = "failed"]
      /\ RecordPut(w) \/ RecordDelete(w) \/ UNCHANGED <<metadataMap, users, loadMap>>
  BY AtHandler DEF Return, Inv
<1>2. /\ handler \in [Writes -> HandlerType]
      /\ rpc \in [Writes -> {"new", "calling", "ok", "failed"}]
  BY DEF Inv, WritesTypeOK, HandlerType
<1>3. over \in HandlerType
  BY <1>2, WritesTypes DEF HandlerType
<1>4. /\ handler' \in [Writes -> HandlerType]
      /\ rpc' \in [Writes -> {"new", "calling", "ok", "failed"}]
      /\ rpc'[w] \in {"ok", "failed"}
      /\ rpc'[w] = "ok" => handler[w].step = "replied" /\ handler'[w].step = "off"
      /\ handler'[w].step = "off" \/ handler'[w] = handler[w]
      /\ \A v \in Writes \ {w} :
           req'[v] = req[v] /\ rpc'[v] = rpc[v] /\ handler'[v] = handler[v]
  BY <1>1, <1>2, <1>3
<1>5. WritesTypeOK'
  <2>1. /\ metadataMap' \in [Files -> {NotStored} \cup [size : Nat \ {0}, group : Groups]]
        /\ users' \subseteq Users
        /\ \A f \in Files : metadataMap'[f] # NotStored => UserOf[f] \in users'
        /\ loadMap' \in [Groups -> Int]
    BY <1>1, RecordTypes DEF Inv, WritesTypeOK
  <2>2. \A v \in Writes : rpc'[v] # "new" => req'[v] \in Requests
    BY <1>1, <1>4 DEF Inv, WritesTypeOK
  <2> QED
    BY <1>1, <1>4, <2>1, <2>2 DEF Inv, WritesTypeOK, HandlerType, historyVars
<1>6. WriteInv(w)'
  <2>1. /\ Last(w)' = Last(w) /\ Peers(w)' = Peers(w)
        /\ \A s : Up(s)' <=> Up(s)
        /\ \A s : Logged(s, w)' <=> Logged(s, w)
        /\ \A g \in Groups : Live(g)' = Live(g)
        /\ req'[w] = req[w]
    BY <1>1 DEF Last, Peers, Up, Logged, Live, failoverVars
  <2>2. Copied(w)'
    <3>1. Copied(w) /\ rpc[w] # "new" /\ req[w].group \in Groups
      BY <1>1, RequestTyped DEF Inv, WriteInv
    <3> QED
      BY <2>1, <3>1 DEF Copied
  <2>3. Placed(w)'
    BY <1>1, <1>4, <2>1 DEF Inv, WriteInv, Placed
  <2>4. ASSUME handler'[w].step # "off"
        PROVE  /\ \A i \in Done(w)' : Up(Peers(w)[i])' => Logged(Peers(w)[i], w)'
               /\ \A s \in Servers : Logged(s, w)' => \E i \in Done(w)' : Peers(w)'[i] = s
    <3>1. handler'[w] = handler[w] /\ Done(w)' = Done(w)
      BY <1>4, <2>1, <2>4 DEF Done
    <3>2. /\ \A i \in Done(w) : Up(Peers(w)[i]) => Logged(Peers(w)[i], w)
          /\ \A s \in Servers : Logged(s, w) => \E i \in Done(w) : Peers(w)[i] = s
      BY <2>4, <3>1 DEF Inv, WriteInv, Progress
    <3>3. UNCHANGED <<server, log>>
      BY <1>1 DEF failoverVars
    <3> QED
      BY <2>1, <3>1, <3>2, <3>3 DEF Up, Logged
  <2>5. ASSUME ~ Suspects, rpc'[w] = "ok", NEW s \in Live(req[w].group)
        PROVE  Logged(s, w)
    <3>1. handler[w].step = "replied" /\ rpc[w] # "new"
      BY <1>1, <1>4, <2>5
    <3>2. PICK i \in 1..Last(w) : Peers(w)[i] = s
      BY <2>5, <3>1 DEF Inv, WriteInv, Copied
    <3>3. i \in Done(w)
      BY <3>1 DEF Done
    <3>4. Up(s)
      BY DEF Live
    <3> QED
      BY <3>1, <3>2, <3>3, <3>4 DEF Inv, WriteInv, Progress
  <2>6. Progress(w)'
    <3>1. \A s \in Live(req[w].group)' : s \in Live(req[w].group)
      BY <1>1 DEF Live, Up, failoverVars
    <3>2. ~ Suspects /\ rpc'[w] = "ok" => \A s \in Live(req[w].group)' : Logged(s, w)'
      BY <2>1, <2>5, <3>1
    <3> QED
      BY <1>4, <2>4, <3>2 DEF Progress
  <2> QED
    BY <2>2, <2>3, <2>6 DEF WriteInv
<1>7. UNCHANGED <<failoverVars, log>>
  BY <1>1
<1> QED
  BY <1>4, <1>5, <1>6, <1>7, ThreadStep

-----------------------------------------------------------------------------
(* A step of the master's thread, and the death of a server.               *)
LEMMA MissedInv ==
    ASSUME Inv, heartbeatThreadFn
    PROVE  MissedAreDown'
<1> SUFFICES ASSUME ~ Suspects
             PROVE  /\ pc' = "update" /\ newStatus' = "UNKNOWN" =>
                         ~ Up(serverGroup[entry][at])'
                    /\ pc' # "push" /\ primaryFailed' => ~ Up(serverGroup[entry][1])'
                    /\ pc' = "push" => ~ Up(oldPrimary)'
  BY DEF MissedAreDown
<1>1. /\ Types /\ Rotations /\ FailureSeen
      /\ pc = "update" /\ newStatus = "UNKNOWN" => ~ Up(serverGroup[entry][at])
      /\ pc # "push" /\ primaryFailed => ~ Up(serverGroup[entry][1])
  BY DEF Inv, FailoverInv, MissedAreDown
<1>2. CASE Heartbeat
  <2>1. serverGroup[entry][at] \in Servers
    BY <1>1, <1>2, AtServer DEF Heartbeat
  <2>2. newStatus' = "UNKNOWN" => server[serverGroup[entry][at]] = "DOWN"
    BY <1>1, <1>2, <2>1 DEF Heartbeat, Answers, Types
  <2> QED
    BY <1>1, <1>2, <2>2 DEF Heartbeat, Up
<1>3. CASE Update
  <2>1. FailedNow(serverGroup[entry][at]) => ~ Up(serverGroup[entry][1])
    BY <1>1, <1>3 DEF Update, FailedNow
  <2>2. /\ pc = "update" /\ pc' \in {"heartbeat", "pop"}
        /\ primaryFailed' => /\ primaryFailed \/ FailedNow(serverGroup[entry][at])
                             /\ entry' = entry
        /\ UNCHANGED <<server, serverGroup>>
    BY <1>3 DEF Update, NextGroup
  <2>3. primaryFailed' => ~ Up(serverGroup[entry][1])
    BY <1>1, <2>1, <2>2
  <2> QED
    BY <2>2, <2>3 DEF Up
<1>4. CASE PopFront
  <2>1. ~ Up(serverGroup[entry][1])
    BY <1>1, <1>4 DEF PopFront, FailureSeen
  <2>2. Head(serverGroup[entry]) = serverGroup[entry][1]
    BY <1>1, <1>4, AtServer, RotationMoved DEF PopFront, Types
  <2> QED
    BY <1>4, <2>1, <2>2 DEF PopFront, Primary, Up
<1>5. CASE PushBack
  BY <1>5 DEF PushBack, NextGroup
<1> QED
  BY <1>2, <1>3, <1>4, <1>5 DEF heartbeatThreadFn

LEMMA FailoverPartInv ==
    ASSUME Inv, heartbeatThreadFn \/ (\E s \in Servers : Die(s)),
           UNCHANGED <<masterVars, req, rpc, backendVars, historyVars>>
    PROVE  Inv'
<1>1. FailoverInv'
  BY ThreadInv, DieInv DEF Inv
<1>2. WritesTypeOK'
  BY DEF Inv, WritesTypeOK, masterVars, backendVars, historyVars
<1>3. \A s \in Servers : Up(s)' => Up(s)
  <2>1. CASE heartbeatThreadFn
    BY <2>1 DEF heartbeatThreadFn, Heartbeat, Update, PopFront, PushBack, Up
  <2>2. CASE \E s \in Servers : Die(s)
    BY <2>2 DEF Die, Up, Inv, FailoverInv, Types
  <2> QED
    BY <2>1, <2>2
<1>4. MissedAreDown'
  <2>1. CASE heartbeatThreadFn
    BY <2>1, MissedInv
  <2>2. CASE \E s \in Servers : Die(s)
    <3>1. /\ UNCHANGED <<serverGroup, status, pc, entry, at, newStatus, primaryFailed,
                         oldPrimary>>
          /\ \E t \in Servers : server' = [server EXCEPT ![t] = "DOWN"]
      BY <2>2 DEF Die, heartbeatVars
    <3>2. pc # "push" => serverGroup[entry][at] \in Servers /\ serverGroup[entry][1] \in Servers
      BY AtServer DEF Inv, FailoverInv
    <3>3. oldPrimary \in Servers /\ server \in [Servers -> {"DOWN", "RUNNING", "RECOVERING"}]
      BY DEF Inv, FailoverInv, Types
    <3> QED
      BY <3>1, <3>2, <3>3 DEF Inv, MissedAreDown, Up
  <2> QED
    BY <2>1, <2>2
<1>5. ASSUME NEW w \in Writes PROVE WriteInv(w)'
  <2>1. req'[w] = req[w] /\ rpc'[w] = rpc[w] /\ handler'[w] = handler[w]
    BY DEF backendVars
  <2>2. \A s \in Servers : Logged(s, w)' <=> Logged(s, w)
    BY DEF Logged, backendVars
  <2> QED
    BY <1>3, <2>1, <2>2, OtherWrite DEF Inv
<1>6. LoggedOnce'
  BY DEF Inv, LoggedOnce, backendVars
<1> QED
  BY <1>1, <1>2, <1>4, <1>5, <1>6 DEF Inv

LEMMA StutterInv ==
    ASSUME Inv, UNCHANGED vars
    PROVE  Inv'
<1>1. UNCHANGED <<failoverVars, masterVars, req, rpc, backendVars, historyVars>>
  BY DEF vars
<1>2. WritesTypeOK'
  BY <1>1 DEF Inv, WritesTypeOK, masterVars, backendVars, historyVars
<1>3. UNCHANGED heartbeatVars /\ UNCHANGED server
  BY <1>1 DEF failoverVars
<1>4. FailoverInv' /\ MissedAreDown' /\ LoggedOnce'
  <2>1. FailoverInv'
    BY <1>3, ServerStepInv DEF Inv, FailoverInv, Types
  <2> QED
    BY <1>1, <1>3, <2>1 DEF Inv, MissedAreDown, LoggedOnce, Up, heartbeatVars, backendVars
<1>5. ASSUME NEW w \in Writes PROVE WriteInv(w)'
  <2>1. \A s \in Servers : (Logged(s, w)' <=> Logged(s, w)) /\ (Up(s)' => Up(s))
    BY <1>1, <1>3 DEF Logged, Up, backendVars
  <2> QED
    BY <1>1, <2>1, OtherWrite DEF Inv, backendVars
<1> QED
  BY <1>2, <1>4, <1>5 DEF Inv

LEMMA WritesStepInv ==
    ASSUME Inv, [Next]_vars
    PROVE  Inv'
<1>1. CASE \E w \in Writes, f \in Files, type \in {"PUT", "DELETE"} : RequestWrite(w, f, type)
  BY <1>1, RequestWriteInv
<1>2. ASSUME NEW w \in Writes,
             Forward(w) \/ AppendLog(w) \/ Apply(w) \/ Broken(w) \/ Return(w)
      PROVE  Inv'
  BY <1>2, ForwardInv, AppendLogInv, ApplyInv, BrokenInv, ReturnInv
<1>3. CASE /\ heartbeatThreadFn \/ (\E s \in Servers : Die(s))
           /\ UNCHANGED <<masterVars, req, rpc, backendVars, historyVars>>
  BY <1>3, FailoverPartInv
<1> QED
  BY <1>1, <1>2, <1>3, StutterInv DEF Next

(* The master, its thread and the back-end servers have the values the     *)
(* program can give them (MasterServiceImpl.cc, WriteServiceImpl.cc).      *)
THEOREM WritePathTyped == Spec => []TypeOK
<1>1. Inv /\ [Next]_vars => Inv'
  BY WritesStepInv
<1>2. Inv => TypeOK
  BY InvTypeOK DEF Inv, TypeOK
<1> QED
  BY WritesInit, <1>1, <1>2, PTL DEF Spec

(* No server logs a write twice, whatever writes run at the same time,     *)
(* whoever dies, and also if running servers are taken for dead            *)
(* (WriteCommand of WriteServiceImpl.cc).                                  *)
THEOREM LoggedOnceHolds == Spec => []LoggedOnce
<1>1. Inv /\ [Next]_vars => Inv'
  BY WritesStepInv
<1>2. Inv => LoggedOnce
  BY DEF Inv
<1> QED
  BY WritesInit, <1>1, <1>2, PTL DEF Spec

(* If no running server misses a heartbeat, a write the master reported as *)
(* done is in the log of every server of its group that is alive           *)
(* (RequestWrite of MasterServiceImpl.cc, WriteCommand).                   *)
THEOREM AckedInLogsHolds ==
    ASSUME ~ Suspects
    PROVE  Spec => []AckedInLogs
<1>1. Inv /\ [Next]_vars => Inv'
  BY WritesStepInv
<1>2. Inv => AckedInLogs
  BY DEF Inv, AckedInLogs, WriteInv, Progress
<1> QED
  BY WritesInit, <1>1, <1>2, PTL DEF Spec

-----------------------------------------------------------------------------
(* Writes made one at a time.                                              *)

(* What a write leaves in the cell of its file.                            *)
Wanted(w) == IF req[w].type = "PUT" THEN w ELSE Absent

(* The positions in its copy of the deque that a write has been applied    *)
(* at, or that were passed over.                                           *)
Applied(w) ==
    LET k == handler[w].at
    IN  {i \in 1..Last(w) :
           \/ handler[w].step = "forward" /\ 2 <= i /\ i < k
           \/ handler[w].step \in {"log", "apply"} /\ 2 <= i /\ (k = 1 \/ i < k)
           \/ handler[w].step = "replied"}

(* The last write requested for a file is a write to it.                   *)
LastRequested ==
    \A f \in Files : lastWrite[f] # Absent =>
        rpc[lastWrite[f]] # "new" /\ req[lastWrite[f]].file = f

(* A write in progress is the last one of its file.                        *)
ActiveLast == ~ overlap => \A w \in Active : lastWrite[req[w].file] = w

(* The servers it is done with hold what it wrote, if they are alive.      *)
AppliedHeld ==
    ~ overlap =>
        \A w \in Active : \A i \in Applied(w) :
            Up(Peers(w)[i]) => store[Peers(w)[i]][req[w].file] = Wanted(w)

(* Once it is reported as done, all of its group that are alive do.        *)
AckedHeld ==
    ~ Suspects /\ ~ overlap =>
        \A f \in Files : lastWrite[f] # Absent /\ rpc[lastWrite[f]] = "ok" =>
            \A s \in Live(req[lastWrite[f]].group) : store[s][f] = Wanted(lastWrite[f])

AloneInv == LastRequested /\ ActiveLast /\ AppliedHeld /\ AckedHeld

LEMMA AppliedServers ==
    ASSUME Inv, NEW w \in Writes
    PROVE  /\ \A i \in Applied(w) : i \in 1..Last(w) /\ Peers(w)[i] \in Servers
           /\ Applied(w) # {} => handler[w].step # "off"
           /\ w \in Active => rpc[w] # "new" /\ req[w].file \in Files
           /\ handler[w].step # "off" => w \in Active
<1>1. \A i \in Applied(w) : i \in 1..Last(w) /\ handler[w].step # "off"
  BY DEF Applied
<1>2. handler[w].step # "off" => rpc[w] # "new"
  BY HandlerTyped
<1>3. rpc[w] # "new" =>
        req[w].file \in Files /\ \A i \in 1..Last(w) : Peers(w)[i] \in Servers
  BY RequestTyped DEF Inv
<1> QED
  BY <1>1, <1>2, <1>3 DEF Active

LEMMA AloneInit == Init => AloneInv
<1> SUFFICES ASSUME Init PROVE AloneInv
  OBVIOUS
<1>1. \A f \in Files : lastWrite[f] = Absent
  BY DEF Init
<1>2. \A w \in Writes : rpc[w] = "new" /\ handler[w].step = "off"
  BY DEF Init, NoHandler
<1>3. Active = {}
  BY <1>2 DEF Active
<1> QED
  BY <1>1, <1>3 DEF AloneInv, LastRequested, ActiveLast, AppliedHeld, AckedHeld

(* A step that changes no cell, and after which a write is only done with  *)
(* more servers when those are down.                                       *)
LEMMA NoCellChanged ==
    ASSUME Inv, AloneInv, UNCHANGED <<req, rpc, store, lastWrite, overlap>>,
           \A s \in Servers : Up(s)' => Up(s),
           \A w \in Writes : handler'[w].step # "off" => handler[w].step # "off",
           \A w \in Writes : \A i \in Applied(w)' :
              i \in Applied(w) \/ (i \in 1..Last(w) /\ ~ Up(Peers(w)[i]))
    PROVE  AloneInv'
<1>1. LastRequested'
  BY DEF AloneInv, LastRequested
<1>2. \A w \in Active' : w \in Active /\ w \in Writes
  BY DEF Active
<1>3. ActiveLast'
  BY <1>2 DEF AloneInv, ActiveLast
<1>4. AppliedHeld'
  <2> SUFFICES ASSUME ~ overlap, NEW w \in Active', NEW i \in Applied(w)',
                      Up(Peers(w)[i])'
               PROVE  store[Peers(w)[i]][req[w].file] = Wanted(w)
    BY DEF AppliedHeld, Peers, Wanted
  <2>1. w \in Active /\ w \in Writes
    BY <1>2
  <2>2. i \in 1..Last(w) /\ rpc[w] # "new"
    BY <2>1, AppliedServers
  <2>3. Peers(w)[i] \in Servers
    BY <2>1, <2>2, RequestTyped DEF Inv
  <2>4. Up(Peers(w)[i])
    BY <2>3 DEF Up, Peers
  <2>5. i \in Applied(w)
    BY <2>1, <2>4
  <2> QED
    BY <2>1, <2>4, <2>5 DEF AloneInv, AppliedHeld
<1>5. AckedHeld'
  <2> SUFFICES ASSUME ~ Suspects, ~ overlap, NEW f \in Files,
                      lastWrite[f] # Absent, rpc[lastWrite[f]] = "ok",
                      NEW s \in Live(req[lastWrite[f]].group)'
               PROVE  store[s][f] = Wanted(lastWrite[f])
    BY DEF AckedHeld, Wanted
  <2> DEFINE w == lastWrite[f]
  <2>1. w \in Writes
    BY DEF Inv, WritesTypeOK
  <2>2. req[w].group \in Groups
    BY <2>1, RequestTyped DEF Inv
  <2>3. s \in {req[w].group} \X (1..GroupSize) /\ Up(s)'
    BY DEF Live
  <2>4. s \in Servers
    BY <2>2, <2>3, WritesTypes
  <2>5. s \in Live(req[w].group)
    BY <2>3, <2>4 DEF Live
  <2> QED
    BY <2>5 DEF AloneInv, AckedHeld
<1> QED
  BY <1>1, <1>3, <1>4, <1>5 DEF AloneInv

(* The positions the thread is done with after a step: never more than it  *)
(* was, but for those passed over.                                         *)
LEMMA ForwardApplied ==
    ASSUME Inv, NEW w \in Writes, Forward(w)
    PROVE  \A i \in Applied(w)' :
             i \in Applied(w) \/ (i \in 1..Last(w) /\ ~ Up(Peers(w)[i]))
<1> DEFINE k == handler[w].at
           L == Last(w)
<1>1. handler[w].step = "forward" /\ req' = req
  BY DEF Forward
<1>2. /\ handler \in [Writes -> HandlerType]
      /\ L \in Nat /\ k \in 2..(L + 1)
      /\ Target(w) = Peers(w)[k]
      /\ L' = L
  BY <1>1, HandlerTyped DEF Inv, WritesTypeOK, HandlerType, Last
<1>3. Applied(w) = {i \in 1..L : 2 <= i /\ i < k}
  BY <1>1 DEF Applied
<1>4. CASE k > L
  <2>1. handler'[w].step = "log" /\ handler'[w].at = 1
    BY <1>2, <1>4, AtHandler DEF Forward, Inv
  <2>2. Applied(w)' = {i \in 1..L : 2 <= i}
    BY <1>2, <2>1 DEF Applied
  <2> QED
    BY <1>2, <1>3, <1>4, <2>2
<1>5. CASE k <= L /\ Up(Target(w))
  <2>1. handler'[w].step = "log" /\ handler'[w].at = k
    BY <1>2, <1>5, AtHandler DEF Forward, Inv
  <2>2. Applied(w)' = {i \in 1..L : 2 <= i /\ i < k}
    BY <1>2, <2>1 DEF Applied
  <2> QED
    BY <1>3, <2>2
<1>6. CASE k <= L /\ ~ Up(Target(w))
  <2>1. handler'[w].step = "forward" /\ handler'[w].at = k + 1
    BY <1>2, <1>6, AtHandler DEF Forward, Inv
  <2>2. Applied(w)' = {i \in 1..L : 2 <= i /\ i < k + 1}
    BY <1>2, <2>1 DEF Applied
  <2>3. \A i \in Applied(w)' : i \in Applied(w) \/ i = k
    BY <1>2, <1>3, <2>2
  <2> QED
    BY <1>2, <1>6, <2>3
<1> QED
  BY <1>2, <1>4, <1>5, <1>6

LEMMA BrokenApplied ==
    ASSUME Inv, NEW w \in Writes, Broken(w)
    PROVE  \A i \in Applied(w)' :
             i \in Applied(w) \/ (i \in 1..Last(w) /\ ~ Up(Peers(w)[i]))
<1> DEFINE k == handler[w].at
           L == Last(w)
<1>1. handler[w].step # "off" /\ req' = req
  BY DEF Broken
<1>2. /\ handler \in [Writes -> HandlerType]
      /\ L \in Nat
      /\ Target(w) = Peers(w)[k]
      /\ PrimaryOf(w) = Peers(w)[1]
      /\ L' = L
  BY <1>1, HandlerTyped DEF Inv, WritesTypeOK, HandlerType, Last
<1>3. CASE handler' = At(w, "off", 1)
  <2>1. handler'[w].step = "off"
    BY <1>2, <1>3, AtHandler DEF Inv
  <2> QED
    BY <2>1 DEF Applied
<1>4. CASE /\ handler[w].step \in {"log", "apply"}
           /\ ~ Up(Target(w)) /\ Up(PrimaryOf(w))
           /\ handler' = At(w, "forward", k + 1)
  <2>1. handler'[w].step = "forward" /\ handler'[w].at = k + 1
    BY <1>2, <1>4, AtHandler DEF Inv
  <2>2. k \in 1..L
    BY <1>1, <1>4, HandlerTyped
  <2>3. k \in 2..L /\ ~ Up(Peers(w)[k])
    <3>1. k # 1
      BY <1>2, <1>4
    <3> QED
      BY <1>2, <1>4, <2>2, <3>1
  <2>4. Applied(w)' = {i \in 1..L : 2 <= i /\ i < k + 1}
    BY <1>2, <2>1 DEF Applied
  <2>5. \A i \in 1..L : 2 <= i /\ i < k => i \in Applied(w)
    BY <1>4 DEF Applied
  <2>6. \A i \in Applied(w)' : i \in Applied(w) \/ i = k
    BY <1>2, <2>3, <2>4, <2>5
  <2> QED
    BY <2>3, <2>6
<1> QED
  BY <1>3, <1>4 DEF Broken

LEMMA AppendLogApplied ==
    ASSUME Inv, NEW w \in Writes, AppendLog(w)
    PROVE  Applied(w)' = Applied(w)
<1> DEFINE k == handler[w].at
<1>1. handler[w].step = "log" /\ req' = req /\ handler' = At(w, "apply", k)
  BY DEF AppendLog
<1>2. handler \in [Writes -> HandlerType]
  BY DEF Inv, WritesTypeOK, HandlerType
<1>3. handler'[w].step = "apply" /\ handler'[w].at = k
  BY <1>1, <1>2, AtHandler DEF Inv
<1> QED
  BY <1>1, <1>3 DEF Applied, Last

(* A step of the thread of a write that changes no cell.                   *)
LEMMA ThreadAlone ==
    ASSUME Inv, AloneInv, NEW w \in Writes, Forward(w) \/ Broken(w) \/ AppendLog(w)
    PROVE  AloneInv'
<1>1. /\ handler[w].step # "off"
      /\ UNCHANGED <<failoverVars, req, rpc, store, historyVars>>
      /\ \E step \in {"forward", "log", "apply", "off"}, k \in Nat :
           handler' = At(w, step, k)
  <2>1. handler[w].step # "off" => handler[w].at \in Nat /\ handler[w].at + 1 \in Nat
    BY HandlerTyped DEF HandlerType
  <2> QED
    BY <2>1 DEF Forward, Broken, AppendLog
<1>2. \A v \in Writes \ {w} : handler'[v] = handler[v]
  BY <1>1, AtHandler DEF Inv, WritesTypeOK
<1>3. \A v \in Writes : handler'[v].step # "off" => handler[v].step # "off"
  BY <1>1, <1>2
<1>4. ASSUME NEW v \in Writes, NEW i \in Applied(v)'
      PROVE  i \in Applied(v) \/ (i \in 1..Last(v) /\ ~ Up(Peers(v)[i]))
  <2>1. CASE v = w
    BY <1>4, <2>1, ForwardApplied, BrokenApplied, AppendLogApplied
  <2>2. CASE v # w
    BY <1>1, <1>2, <1>4, <2>2 DEF Applied, Last
  <2> QED
    BY <2>1, <2>2
<1>5. \A s \in Servers : Up(s)' => Up(s)
  BY <1>1 DEF Up, failoverVars
<1>6. UNCHANGED <<req, rpc, store, lastWrite, overlap>>
  BY <1>1 DEF historyVars
<1> QED
  BY <1>3, <1>4, <1>5, <1>6, NoCellChanged

(* A server's handler changes the cell: the write is the last one of its   *)
(* file, so no other write is deprived of what it has done.                *)
LEMMA ApplyAlone ==
    ASSUME Inv, AloneInv, NEW w \in Writes, Apply(w)
    PROVE  AloneInv'
<1> DEFINE k == handler[w].at
           L == Last(w)
           t == Target(w)
           f == req[w].file
<1>1. /\ handler[w].step = "apply"
      /\ UNCHANGED <<failoverVars, req, rpc, historyVars>>
      /\ store' = [store EXCEPT ![t][f] = Wanted(w)]
  BY DEF Apply, Wanted
<1>2. /\ handler \in [Writes -> HandlerType]
      /\ L \in Nat
      /\ k \in 1..L
      /\ t = Peers(w)[k]
      /\ L' = L
      /\ store \in [Servers -> [Files -> Writes \cup {Absent}]]
  BY <1>1, HandlerTyped DEF Inv, WritesTypeOK, HandlerType, Last
<1>3. /\ \/ k = 1 /\ handler'[w].step = "replied"
         \/ k # 1 /\ handler'[w].step = "forward" /\ handler'[w].at = k + 1
      /\ \A v \in Writes \ {w} : handler'[v] = handler[v]
  <2>1. CASE k = 1
    BY <1>2, <2>1 DEF Apply
  <2>2. CASE k # 1
    BY <1>2, <2>2, AtHandler DEF Apply, Inv
  <2> QED
    BY <2>1, <2>2
<1>4. \A i \in Applied(w)' : i \in Applied(w) \/ i = k
  <2>1. CASE k = 1
    <3>1. \A i \in 1..L : 2 <= i => i \in Applied(w)
      BY <1>1, <2>1 DEF Applied
    <3>2. \A i \in Applied(w)' : i \in 1..L
      BY <1>2 DEF Applied
    <3> QED
      BY <1>2, <2>1, <3>1, <3>2
  <2>2. CASE k # 1
    <3>1. \A i \in 1..L : 2 <= i /\ i < k => i \in Applied(w)
      BY <1>1 DEF Applied
    <3>2. Applied(w)' = {i \in 1..L : 2 <= i /\ i < k + 1}
      BY <1>2, <1>3, <2>2 DEF Applied
    <3> QED
      BY <1>2, <3>1, <3>2
  <2> QED
    BY <2>1, <2>2
<1>5. w \in Active /\ Active' = Active /\ f \in Files /\ rpc[w] # "new"
  <2>1. w \in Active /\ f \in Files /\ rpc[w] # "new"
    BY <1>1, AppliedServers
  <2>2. \A v \in Writes : handler'[v].step # "off" <=> handler[v].step # "off"
    BY <1>1, <1>3
  <2> QED
    BY <1>1, <2>1, <2>2 DEF Active
<1>6. t \in Servers
  BY <1>2, <1>5, RequestTyped DEF Inv
<1>7. \A s \in Servers, g \in Files :
        store'[s][g] = IF s = t /\ g = f THEN Wanted(w) ELSE store[s][g]
  BY <1>1, <1>2, <1>5, <1>6
<1>8. LastRequested' /\ ActiveLast'
  BY <1>1, <1>5 DEF AloneInv, LastRequested, ActiveLast, historyVars
<1>9. ~ overlap => lastWrite[f] = w
  BY <1>5 DEF AloneInv, ActiveLast
<1>10. \A s \in Servers : Up(s)' <=> Up(s)
  BY <1>1 DEF Up, failoverVars
<1>11. AppliedHeld'
  <2> SUFFICES ASSUME ~ overlap, NEW v \in Active, NEW i \in Applied(v)',
                      Up(Peers(v)[i])'
               PROVE  store'[Peers(v)[i]][req[v].file] = Wanted(v)
    BY <1>1, <1>5 DEF AppliedHeld, Peers, Wanted, historyVars
  <2>1. v \in Writes /\ req[v].file \in Files /\ rpc[v] # "new"
    BY AppliedServers DEF Active
  <2>2. i \in Applied(v) \/ (v = w /\ i = k)
    <3>1. CASE v = w
      BY <1>4, <3>1
    <3>2. CASE v # w
      BY <1>1, <1>3, <2>1, <3>2 DEF Applied, Last
    <3> QED
      BY <3>1, <3>2
  <2>3. i \in 1..Last(v)
    BY <1>2, <2>1, <2>2, AppliedServers
  <2>4. Peers(v)[i] \in Servers
    BY <2>1, <2>3, RequestTyped DEF Inv
  <2>5. CASE req[v].file = f
    <3>1. v = w
      BY <1>9, <2>5 DEF AloneInv, ActiveLast
    <3>2. CASE Peers(v)[i] = t
      BY <1>5, <1>6, <1>7, <3>1, <3>2
    <3>3. CASE Peers(v)[i] # t
      <4>1. i \in Applied(v) /\ Up(Peers(v)[i])
        BY <1>1, <1>2, <1>10, <2>2, <2>4, <3>1, <3>3 DEF Peers
      <4>2. store[Peers(v)[i]][req[v].file] = Wanted(v)
        BY <4>1 DEF AloneInv, AppliedHeld
      <4> QED
        BY <1>7, <2>1, <2>4, <3>3, <4>2
    <3> QED
      BY <3>2, <3>3
  <2>6. CASE req[v].file # f
    <3>1. i \in Applied(v) /\ Up(Peers(v)[i])
      BY <1>1, <1>10, <2>2, <2>4, <2>6 DEF Peers
    <3>2. store[Peers(v)[i]][req[v].file] = Wanted(v)
      BY <3>1 DEF AloneInv, AppliedHeld
    <3> QED
      BY <1>7, <2>1, <2>4, <2>6, <3>2
  <2> QED
    BY <2>5, <2>6
<1>12. AckedHeld'
  <2> SUFFICES ASSUME ~ Suspects, ~ overlap, NEW g \in Files,
                      lastWrite[g] # Absent, rpc[lastWrite[g]] = "ok",
                      NEW s \in Live(req[lastWrite[g]].group)'
               PROVE  store'[s][g] = Wanted(lastWrite[g])
    BY <1>1 DEF AckedHeld, Wanted, historyVars
  <2>1. lastWrite[g] \in Writes
    BY DEF Inv, WritesTypeOK
  <2>2. req[lastWrite[g]].group \in Groups
    BY <2>1, RequestTyped DEF Inv
  <2>3. s \in Live(req[lastWrite[g]].group)
    BY <1>1 DEF Live, Up, failoverVars, historyVars
  <2>4. s \in Servers
    <3>1. s \in {req[lastWrite[g]].group} \X (1..GroupSize)
      BY <2>3 DEF Live
    <3> QED
      BY <2>2, <3>1, WritesTypes
  <2>5. store[s][g] = Wanted(lastWrite[g])
    BY <2>3 DEF AloneInv, AckedHeld
  <2>6. CASE s = t /\ g = f
    BY <1>7, <1>9, <2>4, <2>6
  <2>7. CASE ~ (s = t /\ g = f)
    BY <1>7, <2>4, <2>5, <2>7
  <2> QED
    BY <2>6, <2>7
<1> QED
  BY <1>8, <1>11, <1>12 DEF AloneInv

(* The call returns: a write that has been replied has been applied at     *)
(* every server of its group that is alive.                                *)
LEMMA ReturnAlone ==
    ASSUME Inv, AloneInv, NEW w \in Writes, Return(w)
    PROVE  AloneInv'
<1>1. /\ rpc[w] = "calling"
      /\ UNCHANGED <<failoverVars, req, store, historyVars>>
      /\ \/ rpc' = [rpc EXCEPT ![w] = "ok"] /\ handler[w].step = "replied"
         \/ rpc' = [rpc EXCEPT ![w] = "failed"]
      /\ handler' = At(w, "off", 1) \/ handler' = handler
  BY DEF Return
<1>2. /\ rpc \in [Writes -> {"new", "calling", "ok", "failed"}]
      /\ handler \in [Writes -> HandlerType]
  BY DEF Inv, WritesTypeOK, HandlerType
<1>3. /\ rpc'[w] \in {"ok", "failed"}
      /\ rpc'[w] = "ok" => handler[w].step = "replied"
      /\ \A v \in Writes \ {w} : rpc'[v] = rpc[v]
      /\ \A v \in Writes : handler'[v] = handler[v] \/ handler'[v].step = "off"
  <2>1. \A v \in Writes : handler'[v] = handler[v] \/ handler'[v].step = "off"
    BY <1>1, <1>2, AtHandler DEF Inv
  <2> QED
    BY <1>1, <1>2, <2>1
<1>4. \A v \in Active' : v \in Active /\ v \in Writes
  BY <1>1, <1>3 DEF Active
<1>5. LastRequested'
  <2>1. \A f \in Files : lastWrite[f] # Absent => lastWrite[f] \in Writes
    BY DEF Inv, WritesTypeOK
  <2>2. \A v \in Writes : rpc[v] # "new" => rpc'[v] # "new"
    BY <1>3
  <2> QED
    BY <1>1, <2>1, <2>2 DEF AloneInv, LastRequested, historyVars
<1>6. ActiveLast'
  BY <1>1, <1>4 DEF AloneInv, ActiveLast, historyVars
<1>7. AppliedHeld'
  <2> SUFFICES ASSUME ~ overlap, NEW v \in Active', NEW i \in Applied(v)',
                      Up(Peers(v)[i])
               PROVE  store[Peers(v)[i]][req[v].file] = Wanted(v)
    BY <1>1 DEF AppliedHeld, Peers, Wanted, Up, failoverVars, historyVars
  <2>1. v \in Active /\ v \in Writes
    BY <1>4
  <2>2. handler'[v].step # "off"
    BY DEF Applied
  <2>3. handler'[v] = handler[v]
    BY <1>3, <2>1, <2>2
  <2>4. i \in Applied(v)
    BY <1>1, <2>3 DEF Applied, Last
  <2> QED
    BY <2>1, <2>4 DEF AloneInv, AppliedHeld
<1>8. AckedHeld'
  <2> SUFFICES ASSUME ~ Suspects, ~ overlap, NEW f \in Files,
                      lastWrite[f] # Absent, rpc'[lastWrite[f]] = "ok",
                      NEW s \in Live(req[lastWrite[f]].group)
               PROVE  store[s][f] = Wanted(lastWrite[f])
    BY <1>1 DEF AckedHeld, Wanted, Live, Up, failoverVars, historyVars
  <2>1. lastWrite[f] \in Writes
    BY DEF Inv, WritesTypeOK
  <2>2. CASE lastWrite[f] # w
    <3>1. rpc[lastWrite[f]] = "ok"
      BY <1>3, <2>1, <2>2
    <3> QED
      BY <3>1 DEF AloneInv, AckedHeld
  <2>3. CASE lastWrite[f] = w
    <3>1. handler[w].step = "replied" /\ w \in Active
      BY <1>1, <1>3, <2>3 DEF Active
    <3>2. req[w].file = f
      BY <2>3 DEF AloneInv, LastRequested
    <3>3. PICK i \in 1..Last(w) : Peers(w)[i] = s
      BY <1>1, <2>3 DEF Inv, WriteInv, Copied
    <3>4. i \in Applied(w)
      BY <3>1 DEF Applied
    <3>5. Up(s)
      BY DEF Live
    <3> QED
      BY <2>3, <3>1, <3>2, <3>3, <3>4, <3>5 DEF AloneInv, AppliedHeld
  <2> QED
    BY <2>2, <2>3
<1> QED
  BY <1>5, <1>6, <1>7, <1>8 DEF AloneInv

(* A write is requested: if two have never been in progress, none is now.  *)
LEMMA RequestAlone ==
    ASSUME Inv, AloneInv, NEW w \in Writes, NEW f \in Files,
           NEW type \in {"PUT", "DELETE"}, RequestWrite(w, f, type)
    PROVE  AloneInv'
<1>1. PICK g \in Groups : req' = [req EXCEPT ![w] =
        [file |-> f, type |-> type, size |-> metadataMap[f].size, group |-> g,
         servers |-> serverGroup[g], seqNum |-> seqNumMap[g]]]
  BY DEF RequestWrite
<1>2. /\ rpc[w] = "new"
      /\ rpc' = [rpc EXCEPT ![w] = "calling"]
      /\ \/ handler' = [handler EXCEPT ![w] = [step |-> "forward", at |-> 2, result |-> FALSE]]
         \/ handler' = handler
      /\ lastWrite' = [lastWrite EXCEPT ![f] = w]
      /\ overlap' = (overlap \/ Active # {})
      /\ UNCHANGED <<failoverVars, store>>
  BY DEF RequestWrite
<1>3. /\ rpc \in [Writes -> {"new", "calling", "ok", "failed"}]
      /\ handler \in [Writes -> HandlerType]
      /\ req \in [Writes -> {NoRequest} \cup Requests]
      /\ lastWrite \in [Files -> Writes \cup {Absent}]
  BY DEF Inv, WritesTypeOK, HandlerType
<1>4. /\ req'[w].file = f /\ rpc'[w] = "calling" /\ lastWrite'[f] = w
      /\ \A v \in Writes \ {w} :
           req'[v] = req[v] /\ rpc'[v] = rpc[v] /\ handler'[v] = handler[v]
      /\ \A h \in Files \ {f} : lastWrite'[h] = lastWrite[h]
  BY <1>1, <1>2, <1>3
<1>5. ~ overlap' => ~ overlap /\ Active' = {w}
  <2>1. ~ overlap' => ~ overlap /\ Active = {}
    BY <1>2
  <2>2. \A v \in Writes \ {w} : v \in Active' <=> v \in Active
    BY <1>4 DEF Active
  <2>3. w \in Active' /\ Active' \subseteq Writes
    BY <1>4 DEF Active
  <2> QED
    BY <2>1, <2>2, <2>3
<1>6. LastRequested'
  <2> SUFFICES ASSUME NEW h \in Files, lastWrite'[h] # Absent
               PROVE  rpc'[lastWrite'[h]] # "new" /\ req'[lastWrite'[h]].file = h
    BY DEF LastRequested
  <2>1. CASE h = f
    BY <1>4, <2>1
  <2>2. CASE h # f
    <3>1. /\ lastWrite'[h] = lastWrite[h] /\ lastWrite[h] \in Writes
          /\ rpc[lastWrite[h]] # "new" /\ req[lastWrite[h]].file = h
      BY <1>3, <1>4, <2>2 DEF AloneInv, LastRequested
    <3>2. lastWrite[h] # w
      BY <1>2, <3>1
    <3> QED
      BY <1>4, <3>1, <3>2
  <2> QED
    BY <2>1, <2>2
<1>7. ActiveLast'
  BY <1>4, <1>5 DEF ActiveLast
<1>8. AppliedHeld'
  <2>1. Applied(w)' = {}
    <3>1. handler[w].step = "off"
      BY <1>2 DEF Inv, WriteInv, Placed
    <3>2. handler'[w].step = "off" \/ (handler'[w].step = "forward" /\ handler'[w].at = 2)
      BY <1>2, <1>3, <3>1
    <3> QED
      BY <3>2 DEF Applied
  <2> QED
    BY <1>5, <2>1 DEF AppliedHeld
<1>9. AckedHeld'
  <2>1. ASSUME NEW h \in Files, lastWrite'[h] # Absent, rpc'[lastWrite'[h]] = "ok"
        PROVE  /\ lastWrite'[h] = lastWrite[h] /\ lastWrite[h] # w
               /\ rpc[lastWrite[h]] = "ok"
               /\ req'[lastWrite[h]] = req[lastWrite[h]]
    <3>1. lastWrite'[h] # w
      BY <1>4, <2>1
    <3>2. lastWrite'[h] = lastWrite[h] /\ lastWrite[h] \in Writes
      BY <1>3, <1>4, <2>1, <3>1
    <3> QED
      BY <1>4, <2>1, <3>1, <3>2
  <2> SUFFICES ASSUME ~ Suspects, ~ overlap', NEW h \in Files,
                      lastWrite'[h] # Absent, rpc'[lastWrite'[h]] = "ok",
                      NEW s, s \in Live(req[lastWrite[h]].group)
               PROVE  store[s][h] = Wanted(lastWrite[h])
    BY <1>2, <2>1 DEF AckedHeld, Wanted, Live, Up, failoverVars
  <2> QED
    BY <1>5, <2>1 DEF AloneInv, AckedHeld
<1> QED
  BY <1>6, <1>7, <1>8, <1>9 DEF AloneInv

LEMMA AloneStep ==
    ASSUME Inv, AloneInv, [Next]_vars
    PROVE  AloneInv'
<1>1. CASE \E w \in Writes, f \in Files, type \in {"PUT", "DELETE"} : RequestWrite(w, f, type)
  BY <1>1, RequestAlone
<1>2. ASSUME NEW w \in Writes,
             Forward(w) \/ AppendLog(w) \/ Apply(w) \/ Broken(w) \/ Return(w)
      PROVE  AloneInv'
  BY <1>2, ThreadAlone, ApplyAlone, ReturnAlone
<1>3. ASSUME UNCHANGED <<req, rpc, handler, store, lastWrite, overlap>>,
             \A s \in Servers : Up(s)' => Up(s)
      PROVE  AloneInv'
  <2>1. \A w \in Writes : Applied(w)' = Applied(w)
    BY <1>3 DEF Applied, Last
  <2> QED
    BY <1>3, <2>1, NoCellChanged
<1>4. CASE /\ heartbeatThreadFn \/ (\E s \in Servers : Die(s))
           /\ UNCHANGED <<masterVars, req, rpc, backendVars, historyVars>>
  <2>1. \A s \in Servers : Up(s)' => Up(s)
    <3>1. CASE heartbeatThreadFn
      BY <3>1 DEF heartbeatThreadFn, Heartbeat, Update, PopFront, PushBack, Up
    <3>2. CASE \E s \in Servers : Die(s)
      BY <3>2 DEF Die, Up, Inv, FailoverInv, Types
    <3> QED
      BY <1>4, <3>1, <3>2
  <2> QED
    BY <1>3, <1>4, <2>1 DEF backendVars, historyVars
<1>5. CASE UNCHANGED vars
  BY <1>3, <1>5 DEF vars, failoverVars, backendVars, historyVars, Up
<1> QED
  BY <1>1, <1>2, <1>4, <1>5 DEF Next

(* If no running server misses a heartbeat and writes are made one at a    *)
(* time, every server that is alive holds what the last write to a file,   *)
(* reported as done, has written, whoever has died or been made the        *)
(* primary (RequestWrite of MasterServiceImpl.cc, WriteCommand).           *)
THEOREM AckedReadableHolds ==
    ASSUME ~ Suspects
    PROVE  Spec => []AckedReadable
<1>1. Init => Inv /\ AloneInv
  BY WritesInit, AloneInit
<1>2. (Inv /\ AloneInv) /\ [Next]_vars => (Inv /\ AloneInv)'
  BY WritesStepInv, AloneStep
<1>3. Inv /\ AloneInv => AckedReadable
  BY DEF AloneInv, AckedHeld, AckedReadable, OneAtATime, Wanted
<1> QED
  BY <1>1, <1>2, <1>3, PTL DEF Spec

(* Sums over finite sets.  What MapThenSumSet computes is defined by a     *)
(* recursive function on the subsets; facts about it follow from the       *)
(* smallest subset for which they fail.                                    *)
Sum(h, S) == MapThenSumSet(LAMBDA x : h[x], S)

Picked(s) == CHOOSE x \in s : TRUE

SumsOf(sums, h, S) ==
    sums = [s \in SUBSET S |->
              IF s = {} THEN 0 ELSE h[Picked(s)] + sums[s \ {Picked(s)}]]

LEMMA SmallestNumber ==
    ASSUME NEW T \in SUBSET Nat, T # {}
    PROVE  \E x \in T : \A y \in T : x <= y
<1>1. PICK x \in T : \A y \in T : ~ (<<y, x>> \in OpToRel(<, Nat))
  <2>1. \E x \in T : \A y \in T : ~ (<<y, x>> \in OpToRel(<, Nat))
    BY NatLessThanWellFounded, WFMin, Zenon
  <2> QED
    BY <2>1, Zenon
<1>2. \A y \in T : ~ (y < x)
  BY <1>1, Zenon DEF OpToRel
<1> QED
  BY <1>2

(* Of the finite sets in a set of sets, one has no proper part in it.      *)
LEMMA SmallestSet ==
    ASSUME NEW D, D # {}, \A s \in D : IsFiniteSet(s)
    PROVE  \E s \in D : \A x \in s : s \ {x} \notin D
<1> DEFINE T == {Cardinality(s) : s \in D}
<1>1. T \subseteq Nat /\ T # {}
  BY FS_CardinalityType
<1>2. PICK n \in T : \A m \in T : n <= m
  BY <1>1, SmallestNumber
<1>3. PICK s \in D : n = Cardinality(s)
  BY <1>2
<1>4. ASSUME NEW x \in s, s \ {x} \in D PROVE FALSE
  <2>1. Cardinality(s \ {x}) = Cardinality(s) - 1
    BY <1>4, FS_RemoveElement
  <2>2. n <= Cardinality(s \ {x})
    BY <1>2, <1>4
  <2>3. n \in Nat
    BY <1>1, <1>2
  <2> HIDE DEF T
  <2> QED
    BY <1>3, <2>1, <2>2, <2>3
<1> QED
  BY <1>3, <1>4

LEMMA SumsUnique ==
    ASSUME NEW S, IsFiniteSet(S), NEW h, NEW a, NEW b, SumsOf(a, h, S), SumsOf(b, h, S)
    PROVE  a = b
<1> DEFINE D == {s \in SUBSET S : a[s] # b[s]}
<1>1. D = {}
  <2> SUFFICES ASSUME D # {} PROVE FALSE
    OBVIOUS
  <2>1. \A s \in D : IsFiniteSet(s)
    BY FS_Subset
  <2>2. PICK s \in D : \A x \in s : s \ {x} \notin D
    BY <2>1, SmallestSet
  <2>3. a[{}] = 0 /\ b[{}] = 0
    BY DEF SumsOf
  <2>4. s # {} /\ Picked(s) \in s
    BY <2>3 DEF Picked
  <2>5. a[s \ {Picked(s)}] = b[s \ {Picked(s)}]
    BY <2>2, <2>4
  <2>6. /\ a[s] = h[Picked(s)] + a[s \ {Picked(s)}]
        /\ b[s] = h[Picked(s)] + b[s \ {Picked(s)}]
    BY <2>4 DEF SumsOf
  <2> QED
    BY <2>5, <2>6
<1>2. a = [s \in SUBSET S |-> a[s]] /\ b = [s \in SUBSET S |-> b[s]]
  BY DEF SumsOf
<1> QED
  BY <1>1, <1>2

LEMMA SumsExist ==
    ASSUME NEW S, IsFiniteSet(S), NEW h, \A x \in S : h[x] \in Int
    PROVE  \E a \in [SUBSET S -> Int] : SumsOf(a, h, S)
<1> DEFINE Part(n) == {s \in SUBSET S : Cardinality(s) <= n}
           Next1(a, s) == IF s = {} THEN 0 ELSE h[Picked(s)] + a[s \ {Picked(s)}]
           Good(n) == \E a \in [Part(n) -> Int] : \A s \in Part(n) : a[s] = Next1(a, s)
           Bad == {n \in Nat : ~ Good(n)}
<1>1. \A s \in SUBSET S : IsFiniteSet(s) /\ Cardinality(s) \in Nat
  BY FS_Subset, FS_CardinalityType
<1>10. ASSUME NEW s \in SUBSET S, s # {}
       PROVE  /\ Picked(s) \in s
              /\ Cardinality(s \ {Picked(s)}) = Cardinality(s) - 1
              /\ h[Picked(s)] \in Int
  <2>1. Picked(s) \in s
    BY <1>10 DEF Picked
  <2> QED
    BY <1>1, <2>1, FS_RemoveElement
<1>2. Good(0)
  <2>1. ASSUME NEW s \in Part(0) PROVE s = {}
    <3>1. IsFiniteSet(s) /\ Cardinality(s) = 0
      BY <1>1
    <3> QED
      BY <3>1, FS_EmptySet
  <2>2. [s \in Part(0) |-> 0] \in [Part(0) -> Int]
    OBVIOUS
  <2> QED
    BY <2>1, <2>2
<1>3. ASSUME NEW n \in Nat, Good(n) PROVE Good(n + 1)
  <2>1. PICK a \in [Part(n) -> Int] : \A s \in Part(n) : a[s] = Next1(a, s)
    BY <1>3
  <2> DEFINE b == [s \in Part(n + 1) |-> IF s \in Part(n) THEN a[s] ELSE Next1(a, s)]
  <2>2. ASSUME NEW s \in Part(n + 1), s # {} PROVE s \ {Picked(s)} \in Part(n)
    <3>1. s \in SUBSET S /\ Cardinality(s) <= n + 1
      OBVIOUS
    <3>2. Cardinality(s \ {Picked(s)}) <= n
      BY <1>1, <1>10, <2>2, <3>1
    <3>3. s \ {Picked(s)} \in SUBSET S
      BY <3>1
    <3> QED
      BY <3>2, <3>3
  <2>3. \A s \in Part(n) : s \in Part(n + 1)
    BY <1>1
  <2>4. \A s \in Part(n + 1) : Next1(a, s) \in Int
    BY <1>10, <2>1, <2>2
  <2>5. b \in [Part(n + 1) -> Int]
    BY <2>1, <2>4
  <2>6. \A s \in Part(n) : b[s] = a[s]
    BY <2>3
  <2>7. ASSUME NEW s \in Part(n + 1) PROVE b[s] = Next1(a, s)
    <3>1. b[s] = IF s \in Part(n) THEN a[s] ELSE Next1(a, s)
      OBVIOUS
    <3> QED
      BY <2>1, <3>1
  <2> HIDE DEF b, Part
  <2>8. \A s \in Part(n + 1) : b[s] = Next1(b, s)
    BY <2>2, <2>6, <2>7
  <2> QED
    BY <2>5, <2>8
<1> HIDE DEF Good
<1>4. Bad = {}
  <2> SUFFICES ASSUME Bad # {} PROVE FALSE
    OBVIOUS
  <2>1. PICK n \in Bad : \A m \in Bad : n <= m
    BY SmallestNumber
  <2>2. n \in Nat /\ n # 0
    BY <1>2
  <2>3. n - 1 \in Nat /\ n - 1 \notin Bad
    BY <2>1, <2>2
  <2>4. Good(n - 1)
    BY <2>3
  <2>5. Good((n - 1) + 1)
    BY <1>3, <2>3, <2>4
  <2>6. (n - 1) + 1 = n
    BY <2>2
  <2>7. Good(n)
    BY <2>5, <2>6
  <2> QED
    BY <2>1, <2>7
<1> DEFINE c == Cardinality(S)
<1>5. c \in Nat
  BY FS_CardinalityType
<1>6. PICK a \in [Part(c) -> Int] : \A s \in Part(c) : a[s] = Next1(a, s)
  BY <1>4, <1>5 DEF Good
<1>7. Part(c) = SUBSET S
  <2>1. \A s \in SUBSET S : Cardinality(s) <= c
    BY FS_Subset
  <2> QED
    BY <2>1
<1>8. a \in [SUBSET S -> Int] /\ \A s \in SUBSET S : a[s] = Next1(a, s)
  BY <1>6, <1>7
<1> HIDE DEF Part, c
<1>9. SumsOf(a, h, S)
  BY <1>8 DEF SumsOf
<1> QED
  BY <1>8, <1>9

LEMMA SumIs ==
    ASSUME NEW S, IsFiniteSet(S), NEW h, NEW a, SumsOf(a, h, S)
    PROVE  Sum(h, S) = a[S]
<1>1. \A b : SumsOf(b, h, S) => b = a
  BY SumsUnique
<1> QED
  BY <1>1, Zenon DEF Sum, MapThenSumSet, MapThenFoldSet, SumsOf, Picked

LEMMA SumUnfolds ==
    ASSUME NEW S, IsFiniteSet(S), NEW h, \A x \in S : h[x] \in Int
    PROVE  /\ Sum(h, S) \in Int
           /\ S = {} => Sum(h, S) = 0
           /\ S # {} => /\ Picked(S) \in S
                        /\ Sum(h, S) = h[Picked(S)] + Sum(h, S \ {Picked(S)})
<1>1. PICK a \in [SUBSET S -> Int] : SumsOf(a, h, S)
  BY SumsExist
<1>2. Sum(h, S) = a[S]
  BY <1>1, SumIs
<1>3. S = {} => a[S] = 0
  BY <1>1 DEF SumsOf
<1>4. ASSUME S # {} PROVE Picked(S) \in S /\ a[S] = h[Picked(S)] + Sum(h, S \ {Picked(S)})
  <2> DEFINE T == S \ {Picked(S)}
             b == [s \in SUBSET T |-> a[s]]
  <2>1. Picked(S) \in S
    BY <1>4 DEF Picked
  <2>2. a[S] = h[Picked(S)] + a[T]
    BY <1>1, <1>4 DEF SumsOf
  <2>3. ASSUME NEW s \in SUBSET T
        PROVE  b[s] = IF s = {} THEN 0 ELSE h[Picked(s)] + b[s \ {Picked(s)}]
    <3>1. s \in SUBSET S
      OBVIOUS
    <3>2. a[s] = IF s = {} THEN 0 ELSE h[Picked(s)] + a[s \ {Picked(s)}]
      BY <1>1, <3>1 DEF SumsOf
    <3>3. s \ {Picked(s)} \in SUBSET T
      OBVIOUS
    <3>4. b[s] = a[s] /\ b[s \ {Picked(s)}] = a[s \ {Picked(s)}]
      BY <3>3
    <3> QED
      BY <3>2, <3>4
  <2>4. SumsOf(b, h, T)
    <3>1. b = [s \in SUBSET T |-> b[s]]
      OBVIOUS
    <3> HIDE DEF b, T
    <3> QED
      BY <2>3, <3>1 DEF SumsOf
  <2>5. IsFiniteSet(T)
    BY FS_Subset
  <2>6. Sum(h, T) = b[T] /\ b[T] = a[T]
    BY <2>4, <2>5, SumIs
  <2> QED
    BY <2>1, <2>2, <2>6
<1> QED
  BY <1>1, <1>2, <1>3, <1>4

(* The elements can be taken in any order. *)
LEMMA SumWithout ==
    ASSUME NEW S, IsFiniteSet(S), NEW h, \A x \in S : h[x] \in Int, NEW x \in S
    PROVE  Sum(h, S) = h[x] + Sum(h, S \ {x})
<1> DEFINE D == {s \in SUBSET S : \E y \in s : Sum(h, s) # h[y] + Sum(h, s \ {y})}
<1>1. D = {}
  <2> SUFFICES ASSUME D # {} PROVE FALSE
    OBVIOUS
  <2>1. \A s \in D : IsFiniteSet(s)
    BY FS_Subset
  <2>2. PICK s \in D : \A y \in s : s \ {y} \notin D
    BY <2>1, SmallestSet
  <2>3. PICK y \in s : Sum(h, s) # h[y] + Sum(h, s \ {y})
    BY <2>2
  <2> DEFINE p == Picked(s)
  <2>4. /\ IsFiniteSet(s) /\ IsFiniteSet(s \ {p}) /\ IsFiniteSet(s \ {y})
        /\ IsFiniteSet((s \ {p}) \ {y})
    BY FS_Subset
  <2>5. p \in s /\ Sum(h, s) = h[p] + Sum(h, s \ {p})
    BY <2>3, <2>4, SumUnfolds
  <2>6. p # y
    BY <2>3, <2>5
  <2>7. Sum(h, s \ {p}) = h[y] + Sum(h, (s \ {p}) \ {y})
    BY <2>2, <2>5, <2>6
  <2>8. Sum(h, s \ {y}) = h[p] + Sum(h, (s \ {y}) \ {p})
    BY <2>2, <2>3, <2>5, <2>6
  <2>9. (s \ {p}) \ {y} = (s \ {y}) \ {p}
    OBVIOUS
  <2>10. h[p] \in Int /\ h[y] \in Int /\ Sum(h, (s \ {p}) \ {y}) \in Int
    BY <2>4, <2>5, SumUnfolds
  <2> HIDE DEF p
  <2> QED
    BY <2>3, <2>5, <2>7, <2>8, <2>9, <2>10
<1> QED
  BY <1>1

LEMMA SumSame ==
    ASSUME NEW S, IsFiniteSet(S), NEW h, NEW k,
           \A x \in S : h[x] \in Int /\ h[x] = k[x]
    PROVE  Sum(h, S) = Sum(k, S)
<1>1. PICK a \in [SUBSET S -> Int] : SumsOf(a, h, S)
  BY SumsExist
<1>2. \A s \in SUBSET S : s # {} => h[Picked(s)] = k[Picked(s)]
  BY DEF Picked
<1>3. SumsOf(a, k, S)
  BY <1>1, <1>2 DEF SumsOf
<1> QED
  BY <1>1, <1>3, SumIs

(* A change at one element.                                                *)
LEMMA SumChanged ==
    ASSUME NEW S, IsFiniteSet(S), NEW h, NEW k, NEW x \in S,
           \A y \in S : h[y] \in Int /\ k[y] \in Int,
           \A y \in S \ {x} : h[y] = k[y]
    PROVE  Sum(k, S) = Sum(h, S) - h[x] + k[x]
<1>1. Sum(h, S) = h[x] + Sum(h, S \ {x}) /\ Sum(k, S) = k[x] + Sum(k, S \ {x})
  BY SumWithout
<1>2. IsFiniteSet(S \ {x})
  BY FS_Subset
<1>3. Sum(h, S \ {x}) = Sum(k, S \ {x}) /\ Sum(h, S \ {x}) \in Int
  BY <1>2, SumSame, SumUnfolds
<1> QED
  BY <1>1, <1>3

LEMMA SumOfZeros ==
    ASSUME NEW S, IsFiniteSet(S), NEW h, \A x \in S : h[x] = 0
    PROVE  Sum(h, S) = 0
<1> DEFINE z == [s \in SUBSET S |-> 0]
<1>1. \A s \in SUBSET S : s # {} => h[Picked(s)] = 0 /\ s \ {Picked(s)} \in SUBSET S
  BY DEF Picked
<1>2. SumsOf(z, h, S)
  BY <1>1 DEF SumsOf
<1>3. Sum(h, S) = z[S]
  BY <1>2, SumIs
<1> QED
  BY <1>3

-----------------------------------------------------------------------------
(* The master's loads, as sums.                                            *)
Records      == {NotStored} \cup [size : Nat \ {0}, group : Groups]
FilesOf(m, g) == {f \in Files : m[f].group = g}
StoredFiles(m) == {f \in Files : m[f] # NotStored}
SizeFn(m)    == [f \in Files |-> m[f].size]
SizesOf(m, g) ==
    MapThenSumSet(LAMBDA f : m[f].size, {f \in Files : m[f].group = g})
ExtraFn(load, m) == [g \in Groups |-> load[g] - SizesOf(m, g)]

(* Sizes in m and numbers of users in us are covered by load.              *)
LoadsFit(load, m, us) ==
    /\ \A g \in Groups : load[g] >= SizesOf(m, g)
    /\ Sum(ExtraFn(load, m), Groups) = Cardinality(us)

LEMMA SizesSum ==
    ASSUME NEW m, NEW g, IsFiniteSet(FilesOf(m, g)), \A f \in Files : m[f].size \in Int
    PROVE  SizesOf(m, g) = Sum(SizeFn(m), FilesOf(m, g)) /\ SizesOf(m, g) \in Int
<1> DEFINE F == FilesOf(m, g)
<1>1. F \subseteq Files /\ \A f \in F : SizeFn(m)[f] = m[f].size /\ SizeFn(m)[f] \in Int
  BY DEF FilesOf, SizeFn
<1>2. PICK a \in [SUBSET F -> Int] : SumsOf(a, SizeFn(m), F)
  BY <1>1, SumsExist
<1>3. \A s \in SUBSET F : s # {} => SizeFn(m)[Picked(s)] = m[Picked(s)].size
  BY <1>1 DEF Picked
<1>4. \A b : b = [s \in SUBSET F |->
                    IF s = {} THEN 0 ELSE m[Picked(s)].size + b[s \ {Picked(s)}]]
               => SumsOf(b, SizeFn(m), F)
  BY <1>3 DEF SumsOf
<1>5. \A b : b = [s \in SUBSET F |->
                    IF s = {} THEN 0 ELSE m[Picked(s)].size + b[s \ {Picked(s)}]]
               => b = a
  BY <1>2, <1>4, SumsUnique
<1>6. a = [s \in SUBSET F |->
             IF s = {} THEN 0 ELSE m[Picked(s)].size + a[s \ {Picked(s)}]]
  BY <1>2, <1>3 DEF SumsOf
<1>7. SizesOf(m, g) = a[F]
  BY <1>5, <1>6, Zenon DEF SizesOf, MapThenSumSet, MapThenFoldSet, FilesOf, Picked
<1>8. Sum(SizeFn(m), F) = a[F]
  BY <1>2, SumIs
<1>9. a[F] \in Int
  BY <1>2
<1> QED
  BY <1>7, <1>8, <1>9

LEMMA LoadMatchesSum ==
    ASSUME NEW load, NEW m, \A g \in Groups : load[g] \in Int /\ SizesOf(m, g) \in Int
    PROVE  MapThenSumSet(LAMBDA g : load[g] - SizesOf(m, g), Groups)
             = Sum(ExtraFn(load, m), Groups)
<1> DEFINE h == ExtraFn(load, m)
<1>1. IsFiniteSet(Groups)
  BY GroupsAssumption, FS_Interval DEF Groups
<1>2. \A g \in Groups : h[g] = load[g] - SizesOf(m, g) /\ h[g] \in Int
  BY DEF ExtraFn
<1> HIDE DEF h
<1>3. PICK a \in [SUBSET Groups -> Int] : SumsOf(a, h, Groups)
  BY <1>1, <1>2, SumsExist
<1>4. \A s \in SUBSET Groups : s # {} => h[Picked(s)] = load[Picked(s)] - SizesOf(m, Picked(s))
  BY <1>2 DEF Picked
<1>5. \A b : b = [s \in SUBSET Groups |->
                    IF s = {} THEN 0
                    ELSE (load[Picked(s)] - SizesOf(m, Picked(s))) + b[s \ {Picked(s)}]]
               => SumsOf(b, h, Groups)
  BY <1>4 DEF SumsOf
<1>6. \A b : b = [s \in SUBSET Groups |->
                    IF s = {} THEN 0
                    ELSE (load[Picked(s)] - SizesOf(m, Picked(s))) + b[s \ {Picked(s)}]]
               => b = a
  BY <1>1, <1>3, <1>5, SumsUnique
<1>7. a = [s \in SUBSET Groups |->
             IF s = {} THEN 0
             ELSE (load[Picked(s)] - SizesOf(m, Picked(s))) + a[s \ {Picked(s)}]]
  BY <1>3, <1>4 DEF SumsOf
<1>8. MapThenSumSet(LAMBDA g : load[g] - SizesOf(m, g), Groups) = a[Groups]
  BY <1>6, <1>7, Zenon DEF MapThenSumSet, MapThenFoldSet, Picked
<1>9. Sum(h, Groups) = a[Groups]
  BY <1>1, <1>3, SumIs
<1> QED
  BY <1>8, <1>9 DEF h

LEMMA RecordsTypes ==
    ASSUME NEW m \in [Files -> Records], IsFiniteSet(StoredFiles(m)), NEW g \in Groups
    PROVE  /\ \A f \in Files : m[f].size \in Nat
           /\ FilesOf(m, g) \subseteq StoredFiles(m)
           /\ IsFiniteSet(FilesOf(m, g))
           /\ SizesOf(m, g) \in Int
<1>1. \A f \in Files : m[f].size \in Nat
  BY DEF Records, NotStored
<1>2. FilesOf(m, g) \subseteq StoredFiles(m)
  BY GroupsAssumption DEF FilesOf, StoredFiles, NotStored, Groups
<1>3. IsFiniteSet(FilesOf(m, g))
  BY <1>2, FS_Subset
<1> QED
  BY <1>1, <1>2, <1>3, SizesSum

(* A file that is not stored elsewhere can be counted in.                  *)
LEMMA SizesWith ==
    ASSUME NEW m \in [Files -> Records], IsFiniteSet(StoredFiles(m)), NEW g \in Groups,
           NEW f \in Files, m[f] = NotStored \/ m[f].group = g
    PROVE  /\ IsFiniteSet(FilesOf(m, g) \cup {f})
           /\ SizesOf(m, g) = Sum(SizeFn(m), FilesOf(m, g) \cup {f})
<1> DEFINE F == FilesOf(m, g) \cup {f}
           h == SizeFn(m)
<1>1. \A e \in Files : m[e].size \in Nat /\ h[e] = m[e].size
  BY RecordsTypes DEF SizeFn
<1>2. IsFiniteSet(FilesOf(m, g)) /\ IsFiniteSet(F)
  BY RecordsTypes, FS_AddElement
<1>3. SizesOf(m, g) = Sum(h, FilesOf(m, g)) /\ SizesOf(m, g) \in Int
  BY <1>1, <1>2, SizesSum
<1>4. CASE f \in FilesOf(m, g)
  <2>1. F = FilesOf(m, g)
    BY <1>4
  <2> QED
    BY <1>2, <1>3, <2>1
<1>5. CASE f \notin FilesOf(m, g)
  <2>1. m[f] = NotStored
    BY <1>5 DEF FilesOf
  <2>5. m[f].size = 0 /\ h[f] = 0
    BY <1>1, <2>1 DEF NotStored
  <2>2. F \ {f} = FilesOf(m, g)
    BY <1>5
  <2>3. \A e \in F : h[e] \in Int
    BY <1>1 DEF FilesOf
  <2> HIDE DEF h
  <2>4. Sum(h, F) = h[f] + Sum(h, F \ {f})
    BY <1>2, <2>3, SumWithout
  <2>6. Sum(h, F \ {f}) = SizesOf(m, g)
    BY <1>3, <2>2
  <2>7. Sum(h, F) = SizesOf(m, g)
    BY <1>3, <2>4, <2>5, <2>6
  <2> QED
    BY <1>2, <2>7 DEF h
<1> QED
  BY <1>4, <1>5

(* The record of one file changes, and the load of its group by as much    *)
(* and one for each user that is new: the loads still cover the sizes.     *)
LEMMA LoadsKept ==
    ASSUME NEW m \in [Files -> Records], IsFiniteSet(StoredFiles(m)),
           NEW f \in Files, NEW g \in Groups, m[f] = NotStored \/ m[f].group = g,
           NEW r \in Records, r = NotStored \/ r.group = g,
           NEW load \in [Groups -> Int], NEW d \in Nat,
           NEW us, NEW vs, Cardinality(us) \in Nat, Cardinality(vs) = Cardinality(us) + d,
           LoadsFit(load, m, us)
    PROVE  LoadsFit([load EXCEPT ![g] = @ + r.size - m[f].size + d], [m EXCEPT ![f] = r], vs)
<1> DEFINE F == FilesOf(m, g) \cup {f}
<1>1. PICK n : n = [m EXCEPT ![f] = r]
  OBVIOUS
<1>2. PICK new : new = [load EXCEPT ![g] = @ + r.size - m[f].size + d]
  OBVIOUS
<1>3. n \in [Files -> Records] /\ n[f] = r /\ \A e \in Files \ {f} : n[e] = m[e]
  BY <1>1
<1>4. IsFiniteSet(StoredFiles(n))
  <2>1. StoredFiles(n) \subseteq StoredFiles(m) \cup {f}
    BY <1>3 DEF StoredFiles
  <2>2. IsFiniteSet(StoredFiles(m) \cup {f})
    BY FS_AddElement
  <2> QED
    BY <2>1, <2>2, FS_Subset
<1>5. \A e \in Files : m[e].size \in Nat /\ n[e].size \in Nat
  BY <1>3, <1>4, RecordsTypes
<1>6. \A h \in Groups : SizesOf(m, h) \in Int /\ SizesOf(n, h) \in Int
  BY <1>3, <1>4, RecordsTypes
<1>7. 0 \notin Groups /\ \A e \in Files : m[e] = NotStored => m[e].group = 0
  BY GroupsAssumption DEF Groups, NotStored
<1>8. m[f].group \in {0, g} /\ r.group \in {0, g}
  BY DEF NotStored
<1>9. ASSUME NEW h \in Groups, h # g PROVE SizesOf(n, h) = SizesOf(m, h)
  <2>1. m[f].group # h /\ n[f].group # h
    BY <1>3, <1>7, <1>8, <1>9
  <2>2. FilesOf(n, h) = FilesOf(m, h) /\ f \notin FilesOf(m, h)
    BY <1>3, <2>1 DEF FilesOf
  <2>3. IsFiniteSet(FilesOf(m, h))
    BY RecordsTypes
  <2>4. \A e \in FilesOf(m, h) : /\ SizeFn(m)[e] \in Int
                                 /\ SizeFn(m)[e] = SizeFn(n)[e]
    BY <1>3, <1>5, <2>2 DEF FilesOf, SizeFn
  <2>5. Sum(SizeFn(m), FilesOf(m, h)) = Sum(SizeFn(n), FilesOf(m, h))
    BY <2>3, <2>4, SumSame
  <2>6. /\ SizesOf(m, h) = Sum(SizeFn(m), FilesOf(m, h))
        /\ SizesOf(n, h) = Sum(SizeFn(n), FilesOf(n, h))
    BY <1>5, <2>2, <2>3, SizesSum
  <2> QED
    BY <2>2, <2>5, <2>6
<1>10. SizesOf(n, g) = SizesOf(m, g) - m[f].size + r.size
  <2>1. FilesOf(n, g) \cup {f} = F
    BY <1>3 DEF FilesOf
  <2>2. IsFiniteSet(F) /\ SizesOf(m, g) = Sum(SizeFn(m), F)
    BY SizesWith
  <2>3. SizesOf(n, g) = Sum(SizeFn(n), F)
    <3>1. ASSUME NEW p \in [Files -> Records], IsFiniteSet(StoredFiles(p)),
                 p[f] = NotStored \/ p[f].group = g
          PROVE  SizesOf(p, g) = Sum(SizeFn(p), FilesOf(p, g) \cup {f})
      <4>1. p \in [Files -> Records] /\ f \in Files /\ g \in Groups
        OBVIOUS
      <4>2. p[f] = NotStored \/ p[f].group = g
        BY <3>1
      <4> QED
        BY <3>1, <4>1, <4>2, SizesWith, Z3T(30)
    <3>2. n[f] = NotStored \/ n[f].group = g
      BY <1>3
    <3> QED
      BY <1>3, <1>4, <2>1, <3>1, <3>2
  <2>4. \A e \in F : SizeFn(m)[e] \in Int /\ SizeFn(n)[e] \in Int
    BY <1>5 DEF FilesOf, SizeFn
  <2>5. \A e \in F \ {f} : SizeFn(m)[e] = SizeFn(n)[e]
    BY <1>3 DEF FilesOf, SizeFn
  <2>6. SizeFn(m)[f] = m[f].size /\ SizeFn(n)[f] = r.size
    BY <1>3 DEF SizeFn
  <2> HIDE DEF F
  <2>7. f \in F
    BY DEF F
  <2>8. Sum(SizeFn(n), F) = Sum(SizeFn(m), F) - SizeFn(m)[f] + SizeFn(n)[f]
    BY <2>2, <2>4, <2>5, <2>7, SumChanged
  <2> QED
    BY <2>2, <2>3, <2>6, <2>8
<1>11. /\ new[g] = load[g] + r.size - m[f].size + d
      /\ new[g] \in Int /\ load[g] \in Int
      /\ \A h \in Groups \ {g} : new[h] = load[h]
  BY <1>3, <1>5, <1>2
<1>12. new[g] - SizesOf(n, g) = load[g] - SizesOf(m, g) + d
  BY <1>3, <1>5, <1>6, <1>10, <1>11
<1>13. \A h \in Groups : new[h] >= SizesOf(n, h)
  <2>1. load[g] >= SizesOf(m, g)
    BY DEF LoadsFit
  <2>2. new[g] >= SizesOf(n, g)
    BY <1>6, <1>11, <1>12, <2>1
  <2>3. \A h \in Groups \ {g} : new[h] >= SizesOf(n, h)
    BY <1>9, <1>11 DEF LoadsFit
  <2> QED
    BY <2>2, <2>3
<1>14. Sum(ExtraFn(new, n), Groups) = Sum(ExtraFn(load, m), Groups) + d
  <2>1. PICK a : a = ExtraFn(load, m)
    OBVIOUS
  <2>2. PICK b : b = ExtraFn(new, n)
    OBVIOUS
  <2>3. IsFiniteSet(Groups)
    BY GroupsAssumption, FS_Interval DEF Groups
  <2>4. \A h \in Groups : a[h] = load[h] - SizesOf(m, h) /\ b[h] = new[h] - SizesOf(n, h)
    BY <2>1, <2>2 DEF ExtraFn
  <2>5. \A h \in Groups : a[h] \in Int /\ b[h] \in Int
    BY <1>6, <1>11, <2>4
  <2>6. \A h \in Groups \ {g} : a[h] = b[h]
    BY <1>9, <1>11, <2>4
  <2>7. b[g] = a[g] + d
    BY <1>12, <2>4
  <2>8. Sum(b, Groups) = Sum(a, Groups) - a[g] + b[g]
    BY <2>3, <2>5, <2>6, SumChanged, Z3
  <2>9. Sum(a, Groups) \in Int
    BY <2>3, <2>5, SumUnfolds
  <2> QED
    BY <2>5, <2>7, <2>8, <2>9, <2>1, <2>2
<1> QED
  BY <1>13, <1>14, <1>1, <1>2 DEF LoadsFit

-----------------------------------------------------------------------------
(* What the master records of writes made one at a time.                   *)
AllUp          == \A s \in Servers : Up(s)
StoredIn(f, g) == metadataMap[f] # NotStored /\ metadataMap[f].group = g
Touched(s, w)  == \E i \in Applied(w) : Peers(w)[i] = s

(* The size and the group the master read before its call still hold.      *)
RequestCurrent ==
    ~ overlap =>
        \A w \in Writes : rpc[w] = "calling" =>
            /\ req[w].size = metadataMap[req[w].file].size
            /\ metadataMap[req[w].file] # NotStored =>
                 metadataMap[req[w].file].group = req[w].group

(* If nobody has died, the servers a write in progress has not touched     *)
(* hold what the master has recorded, and its primary's answer fits that.  *)
Untouched ==
    \A f \in Files, s \in Servers :
        (\A w \in Active : req[w].file = f => ~ Touched(s, w)) =>
            (store[s][f] # Absent <=> StoredIn(f, s[1]))

Answered ==
    \A w \in Active :
        /\ rpc[w] = "calling" /\ handler[w].step # "off"
        /\ handler[w].step = "replied" =>
             (handler[w].result <=> req[w].type = "PUT" \/ metadataMap[req[w].file] # NotStored)

Placement == ~ Suspects /\ ~ overlap /\ AllUp => Untouched /\ Answered

FinitelyMany == IsFiniteSet(StoredFiles(metadataMap)) /\ IsFiniteSet(users)

LoadsMatch == ~ overlap => LoadsFit(loadMap, metadataMap, users)

MetadataInv == RequestCurrent /\ Placement /\ FinitelyMany /\ LoadsMatch

LEMMA MetadataTyped ==
    ASSUME WritesTypeOK
    PROVE  metadataMap \in [Files -> Records] /\ loadMap \in [Groups -> Int]
BY DEF WritesTypeOK, Records

LEMMA SizesInIs ==
    /\ \A g : SizesIn(g) = SizesOf(metadataMap, g)
    /\ LoadMatches <=>
         /\ \A g \in Groups : loadMap[g] >= SizesOf(metadataMap, g)
         /\ MapThenSumSet(LAMBDA g : loadMap[g] - SizesOf(metadataMap, g), Groups)
              = Cardinality(users)
<1>1. \A g : SizesIn(g) = SizesOf(metadataMap, g)
  BY Zenon DEF SizesIn, SizesOf
<1> QED
  BY <1>1, Zenon DEF LoadMatches, SizesIn, SizesOf

LEMMA LoadsMeaning ==
    ASSUME WritesTypeOK, FinitelyMany
    PROVE  LoadMatches <=> LoadsFit(loadMap, metadataMap, users)
<1>1. \A g \in Groups : loadMap[g] \in Int /\ SizesOf(metadataMap, g) \in Int
  BY MetadataTyped, RecordsTypes DEF FinitelyMany
<1> QED
  BY <1>1, SizesInIs, LoadMatchesSum DEF LoadsFit

LEMMA MetadataInit == Init => MetadataInv
<1> SUFFICES ASSUME Init PROVE MetadataInv
  OBVIOUS
<1>1. /\ metadataMap = [f \in Files |-> NotStored] /\ users = {}
      /\ loadMap = [g \in Groups |-> 0]
      /\ \A w \in Writes : rpc[w] = "new" /\ handler[w].step = "off"
      /\ \A s \in Servers, f \in Files : store[s][f] = Absent
  BY DEF Init, NoHandler
<1>2. Active = {}
  BY <1>1 DEF Active
<1>3. RequestCurrent
  BY <1>1 DEF RequestCurrent
<1>4. Placement
  BY <1>1, <1>2 DEF Placement, Untouched, Answered, StoredIn
<1>5. StoredFiles(metadataMap) = {} /\ IsFiniteSet({}) /\ Cardinality(users) = 0
  BY <1>1, FS_EmptySet DEF StoredFiles
<1>6. FinitelyMany
  BY <1>1, <1>5 DEF FinitelyMany
<1>7. LoadsMatch
  <2>1. \A g \in Groups : FilesOf(metadataMap, g) = {} /\ g # 0
    BY <1>1, GroupsAssumption DEF FilesOf, Groups, NotStored
  <2>2. \A f \in Files : metadataMap[f].size \in Int
    BY <1>1 DEF NotStored
  <2>3. \A f \in {} : SizeFn(metadataMap)[f] \in Int
    OBVIOUS
  <2>4. Sum(SizeFn(metadataMap), {}) = 0
    BY <1>5, <2>3, SumUnfolds
  <2>5. \A g \in Groups : SizesOf(metadataMap, g) = 0
    BY <1>5, <2>1, <2>2, <2>4, SizesSum
  <2> DEFINE h == ExtraFn(loadMap, metadataMap)
  <2>6. \A g \in Groups : h[g] = 0
    BY <1>1, <2>5 DEF ExtraFn
  <2>7. IsFiniteSet(Groups)
    BY GroupsAssumption, FS_Interval DEF Groups
  <2> HIDE DEF h
  <2>8. Sum(h, Groups) = 0
    BY <2>6, <2>7, SumOfZeros
  <2> QED
    BY <1>1, <1>5, <2>5, <2>8 DEF LoadsMatch, LoadsFit, h
<1> QED
  BY <1>3, <1>4, <1>6, <1>7 DEF MetadataInv

(* The records of the master stay, and no call begins.                     *)
LEMMA RecordsStay ==
    ASSUME MetadataInv, UNCHANGED <<metadataMap, users, loadMap, req>>,
           overlap' = overlap, \A w \in Writes : rpc'[w] = "calling" => rpc[w] = "calling"
    PROVE  RequestCurrent' /\ FinitelyMany' /\ LoadsMatch'
<1>1. RequestCurrent'
  BY DEF MetadataInv, RequestCurrent
<1>2. FinitelyMany' /\ LoadsMatch'
  BY DEF MetadataInv, FinitelyMany, LoadsMatch
<1> QED
  BY <1>1, <1>2

(* No cell changes and no write touches another server.                    *)
LEMMA PlacementStays ==
    ASSUME MetadataInv, UNCHANGED <<metadataMap, store, req, rpc, overlap>>,
           AllUp' => AllUp,
           ~ Suspects /\ ~ overlap /\ AllUp =>
             \A w \in Writes :
               /\ Applied(w)' = Applied(w)
               /\ handler'[w].step # "off" <=> handler[w].step # "off"
               /\ handler'[w].result = handler[w].result
               /\ handler'[w].step = "replied" <=> handler[w].step = "replied"
    PROVE  Placement'
<1> SUFFICES ASSUME ~ Suspects, ~ overlap, AllUp PROVE Untouched' /\ Answered'
  BY DEF Placement
<1>1. Untouched /\ Answered
  BY DEF MetadataInv, Placement
<1>2. Active' = Active /\ \A w \in Active : w \in Writes
  BY DEF Active
<1>3. \A s : \A w \in Writes : Touched(s, w)' = Touched(s, w)
  BY DEF Touched, Peers
<1>4. Untouched'
  BY <1>1, <1>2, <1>3 DEF Untouched, StoredIn
<1>5. Answered'
  BY <1>1, <1>2 DEF Answered
<1> QED
  BY <1>4, <1>5

LEMMA ForwardTouches ==
    ASSUME Inv, NEW w \in Writes, Forward(w), AllUp
    PROVE  /\ Applied(w)' = Applied(w)
           /\ handler'[w].step = "log" /\ handler'[w].result = handler[w].result
<1> DEFINE k == handler[w].at
           L == Last(w)
<1>1. handler[w].step = "forward" /\ req' = req
  BY DEF Forward
<1>2. /\ handler \in [Writes -> HandlerType]
      /\ L \in Nat /\ k \in 2..(L + 1)
      /\ Target(w) = Peers(w)[k] /\ rpc[w] # "new"
      /\ L' = L
  BY <1>1, HandlerTyped DEF Inv, WritesTypeOK, HandlerType, Last
<1>3. k <= L => Up(Target(w))
  <2>1. k <= L => Peers(w)[k] \in Servers
    BY <1>2, RequestTyped DEF Inv
  <2> QED
    BY <1>2, <2>1 DEF AllUp
<1>4. Applied(w) = {i \in 1..L : 2 <= i /\ i < k}
  BY <1>1 DEF Applied
<1>5. CASE k > L
  <2>1. handler'[w].step = "log" /\ handler'[w].at = 1 /\ handler'[w].result = handler[w].result
    BY <1>2, <1>5, AtHandler DEF Forward, Inv
  <2>2. Applied(w)' = {i \in 1..L : 2 <= i}
    BY <1>2, <2>1 DEF Applied
  <2> QED
    BY <1>2, <1>4, <1>5, <2>1, <2>2
<1>6. CASE k <= L
  <2>1. handler'[w].step = "log" /\ handler'[w].at = k /\ handler'[w].result = handler[w].result
    BY <1>2, <1>3, <1>6, AtHandler DEF Forward, Inv
  <2>2. Applied(w)' = {i \in 1..L : 2 <= i /\ i < k}
    BY <1>2, <2>1 DEF Applied
  <2> QED
    BY <1>4, <2>1, <2>2
<1> QED
  BY <1>2, <1>5, <1>6

LEMMA NothingBroken ==
    ASSUME Inv, NEW w \in Writes, Broken(w), AllUp
    PROVE  FALSE
<1>1. handler[w].step # "off"
  BY DEF Broken
<1>2. /\ PrimaryOf(w) = Peers(w)[1] /\ Last(w) \in 1..GroupSize /\ rpc[w] # "new"
      /\ handler[w].step \in {"log", "apply"} =>
           Target(w) = Peers(w)[handler[w].at] /\ handler[w].at \in 1..Last(w)
  BY <1>1, HandlerTyped
<1>3. \A i \in 1..Last(w) : Peers(w)[i] \in Servers
  BY <1>2, RequestTyped DEF Inv
<1>4. PrimaryOf(w) \in Servers
  BY <1>2, <1>3, WritesTypes
<1> QED
  BY <1>2, <1>3, <1>4 DEF Broken, AllUp

(* A step of the thread of a write that changes no cell.                   *)
LEMMA ThreadMetadata ==
    ASSUME Inv, MetadataInv, NEW w \in Writes, Forward(w) \/ Broken(w) \/ AppendLog(w)
    PROVE  MetadataInv'
<1>1. /\ UNCHANGED <<metadataMap, users, loadMap, req, rpc, store, overlap>>
      /\ UNCHANGED server
      /\ \E step, k : handler' = At(w, step, k)
  BY DEF Forward, Broken, AppendLog, masterVars, historyVars, failoverVars
<1>2. \A v \in Writes \ {w} : handler'[v] = handler[v]
  BY <1>1, AtHandler DEF Inv, WritesTypeOK
<1>3. ASSUME AllUp, NEW v \in Writes
      PROVE  /\ Applied(v)' = Applied(v)
             /\ handler'[v].step # "off" <=> handler[v].step # "off"
             /\ handler'[v].result = handler[v].result
             /\ handler'[v].step = "replied" <=> handler[v].step = "replied"
  <2>1. CASE v # w
    BY <1>1, <1>2, <2>1 DEF Applied, Last
  <2>2. CASE v = w /\ Forward(w)
    <3>1. handler[w].step = "forward"
      BY <2>2 DEF Forward
    <3> QED
      BY <1>3, <2>2, <3>1, ForwardTouches
  <2>3. CASE v = w /\ AppendLog(w)
    <3>1. handler[w].step = "log" /\ handler' = At(w, "apply", handler[w].at)
      BY <2>3 DEF AppendLog
    <3>2. handler'[w].step = "apply" /\ handler'[w].result = handler[w].result
      BY <3>1, AtHandler DEF Inv, WritesTypeOK
    <3> QED
      BY <2>3, <3>1, <3>2, AppendLogApplied
  <2>4. CASE v = w /\ Broken(w)
    BY <1>3, <2>4, NothingBroken
  <2> QED
    BY <2>1, <2>2, <2>3, <2>4
<1>4. AllUp' = AllUp
  BY <1>1 DEF AllUp, Up
<1>5. Placement'
  BY <1>1, <1>3, <1>4, PlacementStays
<1> QED
  BY <1>1, <1>5, RecordsStay DEF MetadataInv

(* A server's handler changes the cell, and the primary's answer tells     *)
(* whether there was something to change.                                  *)
LEMMA ApplyMetadata ==
    ASSUME Inv, AloneInv, MetadataInv, NEW w \in Writes, Apply(w)
    PROVE  MetadataInv'
<1> DEFINE k == handler[w].at
           L == Last(w)
           f == req[w].file
<1>1. PICK t \in Servers : t = Target(w)
  <2>1. /\ handler[w].step = "apply" /\ rpc[w] # "new"
        /\ k \in 1..L /\ Target(w) = Peers(w)[k]
    BY HandlerTyped DEF Apply
  <2> QED
    BY <2>1, RequestTyped DEF Inv
<1>2. /\ handler[w].step = "apply"
      /\ UNCHANGED <<metadataMap, users, loadMap, req, rpc, overlap>>
      /\ UNCHANGED server
      /\ store' = [store EXCEPT ![t][f] = Wanted(w)]
  BY <1>1 DEF Apply, Wanted, masterVars, historyVars, failoverVars
<1>3. /\ handler \in [Writes -> HandlerType]
      /\ L \in Nat /\ k \in 1..L /\ t = Peers(w)[k] /\ rpc[w] # "new"
      /\ L' = L
      /\ store \in [Servers -> [Files -> Writes \cup {Absent}]]
  BY <1>2, <1>1, HandlerTyped DEF Inv, WritesTypeOK, HandlerType, Last
<1>4. /\ \/ /\ k = 1 /\ handler'[w].step = "replied"
            /\ handler'[w].result = (req[w].type = "PUT" \/ store[t][f] # Absent)
         \/ k # 1 /\ handler'[w].step = "forward" /\ handler'[w].at = k + 1
      /\ \A v \in Writes \ {w} : handler'[v] = handler[v]
  <2>1. CASE k = 1
    BY <1>3, <1>1, <2>1 DEF Apply
  <2>2. CASE k # 1
    BY <1>3, <2>2, AtHandler DEF Apply, Inv
  <2> QED
    BY <2>1, <2>2
<1>5. k \in Applied(w)' /\ \A i \in Applied(w) : i \in Applied(w)'
  <2>1. CASE k = 1
    <3>1. \A i \in 1..L : i \in Applied(w)'
      BY <1>3, <1>4, <2>1 DEF Applied
    <3> QED
      BY <1>3, <3>1 DEF Applied
  <2>2. CASE k # 1
    <3>1. Applied(w) = {i \in 1..L : 2 <= i /\ i < k}
      BY <1>2, <2>2 DEF Applied
    <3>2. Applied(w)' = {i \in 1..L : 2 <= i /\ i < k + 1}
      BY <1>3, <1>4, <2>2 DEF Applied
    <3> QED
      BY <1>3, <2>2, <3>1, <3>2
  <2> QED
    BY <2>1, <2>2
<1>6. w \in Active /\ Active' = Active /\ f \in Files /\ \A v \in Active : v \in Writes
  <2>1. w \in Active /\ f \in Files
    BY <1>2, AppliedServers
  <2>2. \A v \in Writes : handler'[v].step # "off" <=> handler[v].step # "off"
    BY <1>2, <1>4
  <2> QED
    BY <1>2, <2>1, <2>2 DEF Active
<1>7. \A s \in Servers, g \in Files :
        s # t \/ g # f => store'[s][g] = store[s][g]
  BY <1>2, <1>3, <1>6
<1>8. ASSUME ~ Suspects, ~ overlap, AllUp PROVE Untouched' /\ Answered'
  <2>1. Untouched /\ Answered
    BY <1>8 DEF MetadataInv, Placement
  <2>2. \A v \in Active : req[v].file = f => v = w
    BY <1>6, <1>8 DEF AloneInv, ActiveLast
  <2>3. Touched(t, w)' /\ \A s : \A v \in Writes : Touched(s, v) => Touched(s, v)'
    <3>1. \A v \in Writes \ {w} : Applied(v)' = Applied(v)
      BY <1>2, <1>4 DEF Applied, Last
    <3> QED
      BY <1>2, <1>3, <1>5, <3>1 DEF Touched, Peers
  <2>4. Untouched'
    <3> SUFFICES ASSUME NEW g \in Files, NEW s \in Servers,
                        \A v \in Active : req[v].file = g => ~ Touched(s, v)'
                 PROVE  store'[s][g] # Absent <=> StoredIn(g, s[1])
      BY <1>2, <1>6 DEF Untouched, StoredIn
    <3>1. \A v \in Active : req[v].file = g => ~ Touched(s, v)
      BY <1>6, <2>3
    <3>2. s # t \/ g # f
      BY <1>6, <2>3
    <3> QED
      BY <1>7, <2>1, <3>1, <3>2 DEF Untouched
  <2>5. ASSUME k = 1
        PROVE  store[t][f] # Absent <=> metadataMap[f] # NotStored
    <3>1. \A i \in Applied(w) : i \in 1..L /\ i # 1
      BY <1>2 DEF Applied
    <3>2. \A i, j \in 1..L : Peers(w)[i] = Peers(w)[j] => i = j
      BY <1>3 DEF Inv, WriteInv, Copied
    <3>3. ~ Touched(t, w)
      BY <1>3, <2>5, <3>1, <3>2 DEF Touched
    <3>4. store[t][f] # Absent <=> StoredIn(f, t[1])
      BY <1>6, <2>1, <2>2, <3>3 DEF Untouched
    <3>5. t[1] = req[w].group
      BY <1>3 DEF Inv, WriteInv, Copied
    <3>6. metadataMap[f] # NotStored => metadataMap[f].group = req[w].group
      BY <1>6, <1>8, <2>1 DEF MetadataInv, RequestCurrent, Answered
    <3> QED
      BY <3>4, <3>5, <3>6 DEF StoredIn
  <2>6. Answered'
    <3> SUFFICES ASSUME NEW v \in Active
                 PROVE  /\ rpc[v] = "calling" /\ handler'[v].step # "off"
                        /\ handler'[v].step = "replied" =>
                             (handler'[v].result <=>
                                req[v].type = "PUT" \/ metadataMap[req[v].file] # NotStored)
      BY <1>2, <1>6 DEF Answered
    <3>1. CASE v # w
      BY <1>4, <1>6, <2>1, <3>1 DEF Answered
    <3>2. CASE v = w
      BY <1>4, <2>1, <2>5, <3>2 DEF Answered
    <3> QED
      BY <3>1, <3>2
  <2> QED
    BY <2>4, <2>6
<1>9. AllUp' = AllUp
  BY <1>2 DEF AllUp, Up
<1>10. Placement'
  BY <1>2, <1>8, <1>9 DEF Placement
<1> QED
  BY <1>2, <1>10, RecordsStay DEF MetadataInv

(* The call returns with success, and the file is recorded, or removed.    *)
LEMMA RecordMetadata ==
    ASSUME Inv, AloneInv, MetadataInv, NEW w \in Writes, rpc[w] = "calling",
           rpc' = [rpc EXCEPT ![w] = "ok"],
           UNCHANGED <<req, overlap>>,
           IF req[w].type = "PUT" THEN RecordPut(w) ELSE RecordDelete(w)
    PROVE  /\ RequestCurrent' /\ FinitelyMany' /\ LoadsMatch'
           /\ metadataMap' = [metadataMap EXCEPT ![req[w].file] =
                IF req[w].type = "PUT" THEN [size |-> SizeOf[w], group |-> req[w].group]
                                       ELSE NotStored]
<1> DEFINE f == req[w].file
           g == req[w].group
           r == IF req[w].type = "PUT" THEN [size |-> SizeOf[w], group |-> g] ELSE NotStored
           new == req[w].type = "PUT" /\ UserOf[f] \notin users
           d == IF new THEN 1 ELSE 0
<1>1. f \in Files /\ g \in Groups /\ req[w].size \in Nat
  BY RequestTyped DEF Inv
<1>2. metadataMap \in [Files -> Records] /\ loadMap \in [Groups -> Int]
  BY MetadataTyped DEF Inv
<1>3. SizeOf[w] \in Nat \ {0} /\ r \in Records /\ (r = NotStored \/ r.group = g)
  BY <1>1, WritesTypes DEF Records
<1>4. metadataMap' = [metadataMap EXCEPT ![f] = r]
  BY DEF RecordPut, RecordDelete
<1>5. users' = IF req[w].type = "PUT" THEN users \cup {UserOf[f]} ELSE users
  BY DEF RecordPut, RecordDelete
<1>6. loadMap' = [loadMap EXCEPT ![g] = @ + r.size - req[w].size + d]
  <2>1. CASE req[w].type = "PUT"
    BY <1>1, <1>2, <1>3, <2>1 DEF RecordPut
  <2>2. CASE req[w].type # "PUT"
    <3>1. loadMap' = [loadMap EXCEPT ![g] = @ - req[w].size] /\ r.size = 0 /\ d = 0
      BY <2>2 DEF RecordDelete, NotStored
    <3>2. loadMap[g] - req[w].size = loadMap[g] + r.size - req[w].size + d
      BY <1>1, <1>2, <3>1
    <3> QED
      BY <3>1, <3>2
  <2> QED
    BY <2>1, <2>2
<1> HIDE DEF r
<1>7. FinitelyMany'
  <2>1. StoredFiles(metadataMap') \subseteq StoredFiles(metadataMap) \cup {f}
    BY <1>1, <1>2, <1>4 DEF StoredFiles
  <2>2. IsFiniteSet(StoredFiles(metadataMap) \cup {f})
    BY FS_AddElement DEF MetadataInv, FinitelyMany
  <2>3. IsFiniteSet(StoredFiles(metadataMap'))
    BY <2>1, <2>2, FS_Subset
  <2>4. IsFiniteSet(users')
    BY <1>5, FS_AddElement DEF MetadataInv, FinitelyMany
  <2> QED
    BY <2>3, <2>4 DEF FinitelyMany
<1>8. RequestCurrent'
  <2> SUFFICES ASSUME ~ overlap, NEW v \in Writes, rpc'[v] = "calling"
               PROVE  /\ req[v].size = metadataMap'[req[v].file].size
                      /\ metadataMap'[req[v].file] # NotStored =>
                           metadataMap'[req[v].file].group = req[v].group
    BY DEF RequestCurrent
  <2>1. v # w /\ rpc[v] = "calling"
    BY DEF Inv, WritesTypeOK
  <2>2. req[v].file # f
    <3>1. v \in Active /\ w \in Active
      BY <2>1 DEF Active
    <3> QED
      BY <2>1, <3>1 DEF AloneInv, ActiveLast
  <2>3. metadataMap'[req[v].file] = metadataMap[req[v].file]
    <3>1. req[v].file \in Files
      BY <2>1, RequestTyped DEF Inv
    <3> QED
      BY <1>2, <1>4, <2>2, <3>1
  <2> QED
    BY <2>1, <2>3 DEF MetadataInv, RequestCurrent
<1>9. LoadsMatch'
  <2> SUFFICES ASSUME ~ overlap PROVE LoadsFit(loadMap', metadataMap', users')
    BY DEF LoadsMatch
  <2>1. /\ req[w].size = metadataMap[f].size
        /\ metadataMap[f] = NotStored \/ metadataMap[f].group = g
    BY DEF MetadataInv, RequestCurrent
  <2>2. /\ d \in Nat /\ IsFiniteSet(users)
        /\ Cardinality(users) \in Nat /\ Cardinality(users') = Cardinality(users) + d
    <3>1. IsFiniteSet(users) /\ Cardinality(users) \in Nat
      BY FS_CardinalityType DEF MetadataInv, FinitelyMany
    <3>2. CASE new
      BY <1>5, <3>1, <3>2, FS_AddElement
    <3>3. CASE ~ new
      <4>1. users' = users
        BY <1>5, <3>3
      <4> QED
        BY <3>1, <3>3, <4>1
    <3> QED
      BY <3>1, <3>2, <3>3
  <2>3. LoadsFit(loadMap, metadataMap, users) /\ IsFiniteSet(StoredFiles(metadataMap))
    BY DEF MetadataInv, LoadsMatch, FinitelyMany
  <2>4. loadMap' = [loadMap EXCEPT ![g] = @ + r.size - metadataMap[f].size + d]
    BY <1>6, <2>1
  <2> HIDE DEF d, new, f, g
  <2>5. LoadsFit([loadMap EXCEPT ![g] = @ + r.size - metadataMap[f].size + d],
                 [metadataMap EXCEPT ![f] = r], users')
    BY <1>1, <1>2, <1>3, <2>1, <2>2, <2>3, LoadsKept
  <2> QED
    BY <1>4, <2>4, <2>5
<1> QED
  BY <1>4, <1>7, <1>8, <1>9 DEF r

LEMMA ReturnMetadata ==
    ASSUME Inv, AloneInv, MetadataInv, NEW w \in Writes, Return(w)
    PROVE  MetadataInv'
<1> DEFINE f == req[w].file
           g == req[w].group
<1>1. /\ rpc[w] = "calling" /\ w \in Active
      /\ UNCHANGED <<req, store, overlap>> /\ UNCHANGED server
      /\ handler' = At(w, "off", 1) \/ handler' = handler
  BY DEF Return, Active, historyVars, failoverVars
<1>2. f \in Files /\ g \in Groups
  BY <1>1, RequestTyped DEF Inv
<1>3. /\ handler \in [Writes -> HandlerType]
      /\ rpc \in [Writes -> {"new", "calling", "ok", "failed"}]
      /\ metadataMap \in [Files -> Records]
  BY MetadataTyped DEF Inv, WritesTypeOK, HandlerType
<1>4. \A v \in Writes \ {w} : handler'[v] = handler[v] /\ rpc'[v] = rpc[v]
  <2>1. \A v \in Writes \ {w} : handler'[v] = handler[v]
    BY <1>1, <1>3, AtHandler DEF Inv
  <2> QED
    BY <1>3, <2>1 DEF Return
<1>5. AllUp' = AllUp
  BY <1>1 DEF AllUp, Up
(* With nobody dead the primary has answered, and all of the group hold    *)
(* what the write leaves.                                                  *)
<1>6. ASSUME ~ Suspects, ~ overlap, AllUp
      PROVE  /\ handler[w].step = "replied"
             /\ \A s \in Servers : s[1] = g => store[s][f] = Wanted(w)
             /\ \A s \in Servers : s[1] # g => store[s][f] = Absent
             /\ handler[w].result <=> req[w].type = "PUT" \/ metadataMap[f] # NotStored
             /\ metadataMap[f] # NotStored => metadataMap[f].group = g
             /\ \A v \in Active : req[v].file = f => v = w
  <2>1. Untouched /\ Answered
    BY <1>6 DEF MetadataInv, Placement
  <2>2. PrimaryOf(w) \in Servers
    <3>1. 1 \in 1..Last(w)
      BY <1>1, WritesTypes DEF Inv, WriteInv, Copied
    <3> QED
      BY <1>1, <3>1, RequestTyped DEF Inv, PrimaryOf, Peers
  <2>3. handler[w].step = "replied"
    BY <1>6, <2>2 DEF Return, AllUp
  <2>4. ASSUME NEW s \in Servers, s[1] = g PROVE store[s][f] = Wanted(w)
    <3>1. s \in Live(g)
      BY <1>2, <1>6, <2>4, WritesTypes DEF AllUp, Live
    <3>2. PICK i \in 1..Last(w) : Peers(w)[i] = s
      BY <1>1, <1>6, <3>1 DEF Inv, WriteInv, Copied
    <3>3. i \in Applied(w)
      BY <2>3 DEF Applied
    <3> QED
      BY <1>1, <1>6, <3>2, <3>3 DEF AloneInv, AppliedHeld, AllUp
  <2>5. \A v \in Active : req[v].file = f => v = w
    BY <1>1, <1>6 DEF AloneInv, ActiveLast
  <2>6. metadataMap[f] # NotStored => metadataMap[f].group = g
    BY <1>1, <1>6 DEF MetadataInv, RequestCurrent
  <2>7. ASSUME NEW s \in Servers, s[1] # g PROVE store[s][f] = Absent
    <3>1. \A i \in Applied(w) : i \in 1..Last(w)
      BY DEF Applied
    <3>2. \A i \in 1..Last(w) : Peers(w)[i][1] = g
      BY <1>1 DEF Inv, WriteInv, Copied
    <3>3. ~ Touched(s, w)
      BY <2>7, <3>1, <3>2 DEF Touched
    <3>4. store[s][f] # Absent <=> StoredIn(f, s[1])
      BY <1>2, <2>1, <2>5, <3>3 DEF Untouched
    <3> QED
      BY <2>6, <2>7, <3>4 DEF StoredIn
  <2> QED
    BY <1>1, <2>1, <2>3, <2>4, <2>5, <2>6, <2>7 DEF Answered
(* What remains to be shown if the file is recorded as it is stored.       *)
<1>7. ASSUME rpc'[w] # "calling", handler'[w].step = "off",
             \A e \in Files \ {f} : metadataMap'[e] = metadataMap[e],
             ~ Suspects, ~ overlap, AllUp,
             \A s \in Servers :
               store[s][f] # Absent <=>
                 metadataMap'[f] # NotStored /\ metadataMap'[f].group = s[1]
      PROVE  Untouched' /\ Answered'
  <2>1. Untouched /\ Answered
    BY <1>7 DEF MetadataInv, Placement
  <2>2. Active' = Active \ {w} /\ \A v \in Active : v \in Writes
    BY <1>4, <1>7 DEF Active
  <2>3. \A v \in Active' : req[v].file # f
    BY <1>6, <1>7, <2>2
  <2>4. \A s : \A v \in Active' : Touched(s, v)' = Touched(s, v)
    <3>1. \A v \in Active' : Applied(v)' = Applied(v)
      BY <1>1, <1>4, <2>2 DEF Applied, Last
    <3> QED
      BY <1>1, <3>1 DEF Touched, Peers
  <2>5. Untouched'
    <3> SUFFICES ASSUME NEW e \in Files, NEW s \in Servers,
                        \A v \in Active' : req[v].file = e => ~ Touched(s, v)'
                 PROVE  store[s][e] # Absent <=>
                          metadataMap'[e] # NotStored /\ metadataMap'[e].group = s[1]
      BY <1>1 DEF Untouched, StoredIn
    <3>1. CASE e = f
      BY <1>7, <3>1
    <3>2. CASE e # f
      <4>1. \A v \in Active : req[v].file = e => ~ Touched(s, v)
        BY <2>2, <2>4, <3>2
      <4>2. store[s][e] # Absent <=> StoredIn(e, s[1])
        BY <2>1, <4>1 DEF Untouched
      <4> QED
        BY <1>7, <3>2, <4>2 DEF StoredIn
    <3> QED
      BY <3>1, <3>2
  <2>6. Answered'
    <3> SUFFICES ASSUME NEW v \in Active'
                 PROVE  /\ rpc'[v] = "calling" /\ handler'[v].step # "off"
                        /\ handler'[v].step = "replied" =>
                             (handler'[v].result <=>
                                req[v].type = "PUT" \/ metadataMap'[req[v].file] # NotStored)
      BY <1>1 DEF Answered
    <3>1. v \in Active /\ v \in Writes /\ v # w /\ req[v].file # f
      BY <2>2, <2>3
    <3>2. rpc[v] = "calling" /\ req[v].file \in Files
      BY <2>1, <3>1, RequestTyped DEF Answered, Inv
    <3> QED
      BY <1>4, <1>7, <2>1, <3>1, <3>2 DEF Answered
  <2> QED
    BY <2>5, <2>6
<1>8. CASE handler[w].step = "replied" /\ handler[w].result /\ rpc' = [rpc EXCEPT ![w] = "ok"]
  <2>1. /\ IF req[w].type = "PUT" THEN RecordPut(w) ELSE RecordDelete(w)
        /\ handler' = At(w, "off", 1)
    <3>1. rpc'[w] = "ok"
      BY <1>3, <1>8
    <3> QED
      BY <1>3, <1>8, <3>1 DEF Return
  <2>2. /\ RequestCurrent' /\ FinitelyMany' /\ LoadsMatch'
        /\ metadataMap' = [metadataMap EXCEPT ![f] =
             IF req[w].type = "PUT" THEN [size |-> SizeOf[w], group |-> g] ELSE NotStored]
    BY <1>1, <1>8, <2>1, RecordMetadata
  <2>3. Placement'
    <3> SUFFICES ASSUME ~ Suspects, ~ overlap, AllUp PROVE Untouched' /\ Answered'
      BY <1>1, <1>5 DEF Placement
    <3>1. rpc'[w] # "calling" /\ handler'[w].step = "off"
      BY <1>3, <1>8, <2>1, AtHandler DEF Inv
    <3>2. \A e \in Files \ {f} : metadataMap'[e] = metadataMap[e]
      BY <1>3, <2>2
    <3>3. ASSUME NEW s \in Servers
          PROVE  store[s][f] # Absent <=>
                   metadataMap'[f] # NotStored /\ metadataMap'[f].group = s[1]
      <4>1. CASE req[w].type = "PUT"
        <5>1. metadataMap'[f] = [size |-> SizeOf[w], group |-> g]
          BY <1>2, <1>3, <2>2, <4>1
        <5>2. metadataMap'[f] # NotStored /\ metadataMap'[f].group = g
          BY <5>1, WritesTypes DEF NotStored
        <5>3. Wanted(w) # Absent
          BY <4>1, WritesAssumption DEF Wanted
        <5> QED
          BY <1>6, <5>2, <5>3
      <4>2. CASE req[w].type # "PUT"
        <5>1. metadataMap'[f] = NotStored
          BY <1>2, <1>3, <2>2, <4>2
        <5>2. Wanted(w) = Absent
          BY <4>2 DEF Wanted
        <5> QED
          BY <1>6, <5>1, <5>2
      <4> QED
        BY <4>1, <4>2
    <3> QED
      BY <1>7, <3>1, <3>2, <3>3
  <2> QED
    BY <2>2, <2>3 DEF MetadataInv
<1>9. CASE rpc' = [rpc EXCEPT ![w] = "failed"]
  <2>1. UNCHANGED <<metadataMap, users, loadMap>> /\ rpc'[w] = "failed"
    BY <1>3, <1>9 DEF Return
  <2>2. RequestCurrent' /\ FinitelyMany' /\ LoadsMatch'
    BY <1>1, <1>4, <2>1, RecordsStay
  <2>3. Placement'
    <3> SUFFICES ASSUME ~ Suspects, ~ overlap, AllUp PROVE Untouched' /\ Answered'
      BY <1>1, <1>5 DEF Placement
    <3>1. ~ handler[w].result /\ handler' = At(w, "off", 1)
      <4>1. PrimaryOf(w) \in Servers
        <5>1. 1 \in 1..Last(w)
          BY <1>1, WritesTypes DEF Inv, WriteInv, Copied
        <5> QED
          BY <1>1, <5>1, RequestTyped DEF Inv, PrimaryOf, Peers
      <4> QED
        BY <1>3, <1>6, <2>1, <4>1 DEF Return, AllUp
    <3>2. rpc'[w] # "calling" /\ handler'[w].step = "off"
      BY <1>3, <2>1, <3>1, AtHandler DEF Inv
    <3>3. \A s \in Servers : store[s][f] = Absent
      BY <1>6, <3>1 DEF Wanted
    <3>4. metadataMap'[f] = NotStored
      BY <1>6, <2>1, <3>1
    <3> QED
      BY <1>7, <2>1, <3>2, <3>3, <3>4
  <2> QED
    BY <2>2, <2>3 DEF MetadataInv
<1> QED
  BY <1>8, <1>9 DEF Return

(* A write is requested: what the master reads of its record is current.   *)
LEMMA RequestMetadata ==
    ASSUME Inv, MetadataInv, NEW w \in Writes, NEW f \in Files,
           NEW type \in {"PUT", "DELETE"}, RequestWrite(w, f, type)
    PROVE  MetadataInv'
<1>1. PICK g \in Groups :
        /\ g = chooseServerGroup(f)
        /\ req' = [req EXCEPT ![w] =
             [file |-> f, type |-> type, size |-> metadataMap[f].size, group |-> g,
              servers |-> serverGroup[g], seqNum |-> seqNumMap[g]]]
        /\ handler' = IF Up(Primary(g))
             THEN [handler EXCEPT ![w] = [step |-> "forward", at |-> 2, result |-> FALSE]]
             ELSE handler
  BY DEF RequestWrite
<1>2. /\ rpc[w] = "new"
      /\ rpc' = [rpc EXCEPT ![w] = "calling"]
      /\ overlap' = (overlap \/ Active # {})
      /\ UNCHANGED <<metadataMap, users, loadMap, store>> /\ UNCHANGED server
  BY DEF RequestWrite, failoverVars
<1>3. /\ rpc \in [Writes -> {"new", "calling", "ok", "failed"}]
      /\ handler \in [Writes -> HandlerType]
      /\ req \in [Writes -> {NoRequest} \cup Requests]
      /\ overlap \in BOOLEAN
  BY DEF Inv, WritesTypeOK, HandlerType
<1>4. /\ req'[w].file = f /\ req'[w].size = metadataMap[f].size /\ req'[w].group = g
      /\ rpc'[w] = "calling"
      /\ \A v \in Writes \ {w} :
           req'[v] = req[v] /\ rpc'[v] = rpc[v] /\ handler'[v] = handler[v]
  BY <1>1, <1>2, <1>3
<1>5. metadataMap[f] # NotStored => metadataMap[f].group = g
  BY <1>1 DEF chooseServerGroup
<1>6. RequestCurrent'
  <2> SUFFICES ASSUME ~ overlap', NEW v \in Writes, rpc'[v] = "calling"
               PROVE  /\ req'[v].size = metadataMap[req'[v].file].size
                      /\ metadataMap[req'[v].file] # NotStored =>
                           metadataMap[req'[v].file].group = req'[v].group
    BY <1>2 DEF RequestCurrent
  <2>1. CASE v = w
    BY <1>4, <1>5, <2>1
  <2>2. CASE v # w
    BY <1>2, <1>4, <2>2 DEF MetadataInv, RequestCurrent
  <2> QED
    BY <2>1, <2>2
<1>7. FinitelyMany' /\ LoadsMatch'
  <2>1. overlap => overlap'
    BY <1>2
  <2> QED
    BY <1>2, <2>1 DEF MetadataInv, FinitelyMany, LoadsMatch
<1>8. Placement'
  <2> SUFFICES ASSUME ~ Suspects, ~ overlap', AllUp' PROVE Untouched' /\ Answered'
    BY DEF Placement
  <2>1. ~ overlap /\ Active = {} /\ AllUp
    BY <1>2 DEF AllUp, Up
  <2>2. Untouched
    BY <2>1 DEF MetadataInv, Placement
  <2>3. Active' = {w}
    BY <1>4, <2>1 DEF Active
  <2>4. Untouched'
    BY <1>2, <2>1, <2>2 DEF Untouched, StoredIn
  <2>5. handler'[w].step = "forward"
    <3>1. /\ serverGroup[g] \in Seq(Servers) /\ Len(serverGroup[g]) \in 1..GroupSize
      BY DequeCopied
    <3>2. Primary(g) \in Servers
      BY <3>1, WritesTypes DEF Primary
    <3> QED
      BY <1>1, <1>3, <2>1, <3>2 DEF AllUp
  <2>6. Answered'
    BY <1>4, <2>3, <2>5 DEF Answered
  <2> QED
    BY <2>4, <2>6
<1> QED
  BY <1>6, <1>7, <1>8 DEF MetadataInv

LEMMA MetadataStep ==
    ASSUME Inv, AloneInv, MetadataInv, [Next]_vars
    PROVE  MetadataInv'
<1>1. CASE \E w \in Writes, f \in Files, type \in {"PUT", "DELETE"} : RequestWrite(w, f, type)
  BY <1>1, RequestMetadata
<1>2. ASSUME NEW w \in Writes,
             Forward(w) \/ AppendLog(w) \/ Apply(w) \/ Broken(w) \/ Return(w)
      PROVE  MetadataInv'
  BY <1>2, ThreadMetadata, ApplyMetadata, ReturnMetadata
<1>3. ASSUME UNCHANGED <<metadataMap, users, loadMap, req, rpc, handler, store, overlap>>,
             \A s \in Servers : Up(s)' => Up(s)
      PROVE  MetadataInv'
  <2>1. \A w \in Writes : Applied(w)' = Applied(w)
    BY <1>3 DEF Applied, Last
  <2>2. AllUp' => AllUp
    BY <1>3 DEF AllUp
  <2>3. Placement'
    BY <1>3, <2>1, <2>2, PlacementStays
  <2> QED
    BY <1>3, <2>3, RecordsStay DEF MetadataInv
<1>4. CASE /\ heartbeatThreadFn \/ (\E s \in Servers : Die(s))
           /\ UNCHANGED <<masterVars, req, rpc, backendVars, historyVars>>
  <2>1. \A s \in Servers : Up(s)' => Up(s)
    <3>1. CASE heartbeatThreadFn
      BY <3>1 DEF heartbeatThreadFn, Heartbeat, Update, PopFront, PushBack, Up
    <3>2. CASE \E s \in Servers : Die(s)
      BY <3>2 DEF Die, Up, Inv, FailoverInv, Types
    <3> QED
      BY <1>4, <3>1, <3>2
  <2> QED
    BY <1>3, <1>4, <2>1 DEF masterVars, backendVars, historyVars
<1>5. CASE UNCHANGED vars
  BY <1>3, <1>5 DEF vars, failoverVars, masterVars, backendVars, historyVars, Up
<1> QED
  BY <1>1, <1>2, <1>4, <1>5 DEF Next

(* If writes are made one at a time, between two of them the master's      *)
(* loads are the sizes of its files and one for each user, whatever writes *)
(* have failed, whoever has died and whatever heartbeats are late.         *)
THEOREM LoadsHold == Spec => [](OneAtATime => LoadMatches)
<1>1. Init => Inv /\ AloneInv /\ MetadataInv
  BY WritesInit, AloneInit, MetadataInit
<1>2. (Inv /\ AloneInv /\ MetadataInv) /\ [Next]_vars => (Inv /\ AloneInv /\ MetadataInv)'
  BY WritesStepInv, AloneStep, MetadataStep
<1>3. Inv /\ AloneInv /\ MetadataInv => (OneAtATime => LoadMatches)
  BY LoadsMeaning DEF MetadataInv, LoadsMatch, Inv, OneAtATime
<1> QED
  BY <1>1, <1>2, <1>3, PTL DEF Spec

(* If writes are made one at a time, and no running server misses a        *)
(* heartbeat, then between two writes the master's loads are the sizes of  *)
(* its files and one for each user, whatever writes have failed and        *)
(* whoever has died; and while nobody has died, a file is held by every    *)
(* server of the group that the master's record names, and by no others    *)
(* (RequestWrite of MasterServiceImpl.cc, WriteCommand).                   *)
THEOREM MetadataMatchesHolds ==
    ASSUME ~ Suspects
    PROVE  Spec => []MetadataMatches
<1>1. Init => Inv /\ AloneInv /\ MetadataInv
  BY WritesInit, AloneInit, MetadataInit
<1>2. (Inv /\ AloneInv /\ MetadataInv) /\ [Next]_vars => (Inv /\ AloneInv /\ MetadataInv)'
  BY WritesStepInv, AloneStep, MetadataStep
<1>3. ASSUME Inv, AloneInv, MetadataInv PROVE MetadataMatches
  <2> SUFFICES ASSUME ~ overlap, Active = {} PROVE
               /\ LoadMatches
               /\ Deaths = 0 =>
                    \A f \in Files, s \in Servers :
                       store[s][f] # Absent <=>
                         metadataMap[f] # NotStored /\ metadataMap[f].group = s[1]
    BY DEF MetadataMatches, OneAtATime
  <2>1. LoadMatches
    BY <1>3, LoadsMeaning DEF MetadataInv, LoadsMatch, Inv
  <2>2. ASSUME Deaths = 0 PROVE AllUp
    <3> DEFINE D == {s \in Servers : ~ Up(s)}
    <3>1. IsFiniteSet(Servers)
      <4>1. IsFiniteSet(Groups) /\ IsFiniteSet(1..GroupSize)
        BY GroupsAssumption, FS_Interval DEF Groups
      <4> QED
        BY <4>1, FS_Product, WritesTypes
    <3>2. IsFiniteSet(D) /\ Cardinality(D) = 0
      BY <2>2, <3>1, FS_Subset DEF Deaths
    <3>3. D = {}
      BY <3>2, FS_EmptySet
    <3> QED
      BY <3>3 DEF AllUp
  <2>3. ASSUME AllUp, NEW f \in Files, NEW s \in Servers
        PROVE  store[s][f] # Absent <=>
                 metadataMap[f] # NotStored /\ metadataMap[f].group = s[1]
    BY <1>3, <2>3 DEF MetadataInv, Placement, Untouched, StoredIn
  <2> QED
    BY <2>1, <2>2, <2>3
<1> QED
  BY <1>1, <1>2, <1>3, PTL DEF Spec

=============================================================================
