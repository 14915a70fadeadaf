-------------------------- MODULE Failover_proofs --------------------------
(***************************************************************************)
(* Proofs about Failover, for every number of groups and of servers in a   *)
(* group, whether running servers may be suspected or not.                 *)
(***************************************************************************)
EXTENDS FailoverHistory, TLAPS

(* A deque of a group holds every server of the group once.                *)
Rotation(q, g) ==
    /\ q \in Seq(Servers)
    /\ Len(q) = GroupSize
    /\ \A i \in 1..GroupSize : q[i] \in {g} \X (1..GroupSize)
    /\ \A s \in {g} \X (1..GroupSize) : \E i \in 1..GroupSize : q[i] = s
    /\ \A i, j \in 1..GroupSize : q[i] = q[j] => i = j

(* The deques, and where the thread stands when a primary has failed: the  *)
(* head of its group is marked UNKNOWN until it is popped.                 *)
Types ==
    /\ server \in [Servers -> {"DOWN", "RUNNING", "RECOVERING"}]
    /\ serverGroup \in [Groups -> Seq(Servers)]
    /\ status \in [Servers -> Statuses]
    /\ pc \in {"heartbeat", "update", "pop", "push"}
    /\ entry \in Groups
    /\ at \in 1..GroupSize
    /\ newStatus \in Statuses
    /\ primaryFailed \in BOOLEAN
    /\ oldPrimary \in Servers

Rotations == \A g \in Groups : Rotation(Members(g), g)

FailureSeen ==
    /\ pc = "pop" => primaryFailed
    /\ pc \in {"heartbeat", "update"} /\ primaryFailed => at > 1
    /\ pc # "push" /\ primaryFailed => status[serverGroup[entry][1]] = "UNKNOWN"

FailoverInv == Types /\ Rotations /\ FailureSeen

-----------------------------------------------------------------------------
LEMMA GroupsTypes ==
    /\ Groups \subseteq Nat
    /\ 1 \in Groups
    /\ NumGroups \in Nat
    /\ GroupSize \in Nat
    /\ GroupSize > 1
    /\ Servers = Groups \X (1..GroupSize)
BY GroupsAssumption DEF Groups, Servers

(* Moving the head of a deque to its tail keeps the servers it holds.      *)
LEMMA RotationMoved ==
    ASSUME NEW g \in Groups, NEW q, Rotation(q, g)
    PROVE  /\ q # <<>>
           /\ Head(q) = q[1]
           /\ Tail(q) \in Seq(Servers)
           /\ Head(q) \in Servers
           /\ Rotation(Append(Tail(q), Head(q)), g)
<1> DEFINE moved == Append(Tail(q), Head(q))
<1>1. q \in Seq(Servers) /\ Len(q) = GroupSize /\ GroupSize \in Nat /\ GroupSize > 1
  BY GroupsTypes DEF Rotation
<1>2. /\ q # <<>> /\ Head(q) = q[1] /\ Head(q) \in Servers
      /\ Tail(q) \in Seq(Servers)
      /\ Len(Tail(q)) = GroupSize - 1
      /\ \A i \in 1..(GroupSize - 1) : Tail(q)[i] = q[i + 1]
  BY <1>1
<1>3. /\ moved \in Seq(Servers)
      /\ Len(moved) = GroupSize
      /\ \A i \in 1..GroupSize : moved[i] = IF i = GroupSize THEN q[1] ELSE q[i + 1]
  BY <1>1, <1>2
<1> HIDE DEF moved
<1>4. \A i \in 1..GroupSize : moved[i] \in {g} \X (1..GroupSize)
  <2> TAKE i \in 1..GroupSize
  <2>1. PICK k \in 1..GroupSize : moved[i] = q[k]
    BY <1>1, <1>3
  <2> QED
    BY <2>1 DEF Rotation
<1>5. \A s \in {g} \X (1..GroupSize) : \E i \in 1..GroupSize : moved[i] = s
  <2> TAKE s \in {g} \X (1..GroupSize)
  <2>1. PICK k \in 1..GroupSize : q[k] = s
    BY DEF Rotation
  <2>2. CASE k = 1
    BY <1>1, <1>3, <2>1, <2>2
  <2>3. CASE k # 1
    <3>1. k - 1 \in 1..GroupSize /\ moved[k - 1] = q[k]
      BY <1>1, <1>3, <2>3
    <3> QED
      BY <2>1, <3>1
  <2> QED
    BY <2>2, <2>3
<1>6. \A i, j \in 1..GroupSize : moved[i] = moved[j] => i = j
  <2> DEFINE from(i) == IF i = GroupSize THEN 1 ELSE i + 1
  <2>1. \A i \in 1..GroupSize : from(i) \in 1..GroupSize /\ moved[i] = q[from(i)]
    BY <1>1, <1>3
  <2>2. \A i, j \in 1..GroupSize : from(i) = from(j) => i = j
    BY <1>1
  <2>3. \A k, l \in 1..GroupSize : q[k] = q[l] => k = l
    BY DEF Rotation
  <2> HIDE DEF from
  <2> QED
    BY <2>1, <2>2, <2>3
<1> QED
  BY <1>2, <1>3, <1>4, <1>5, <1>6 DEF Rotation, moved

LEMMA AtServer ==
    ASSUME Types, Rotations, pc # "push"
    PROVE  /\ \A g \in Groups : Rotation(serverGroup[g], g)
           /\ serverGroup[entry][at] \in Servers
           /\ serverGroup[entry][1] \in Servers
           /\ serverGroup[entry][at] = serverGroup[entry][1] => at = 1
<1>1. \A g \in Groups : Rotation(serverGroup[g], g)
  BY DEF Rotations, Members
<1>2. /\ Rotation(serverGroup[entry], entry)
      /\ entry \in Groups
      /\ at \in 1..GroupSize
      /\ 1 \in 1..GroupSize
  BY <1>1, GroupsTypes DEF Types
<1> QED
  BY <1>1, <1>2, GroupsTypes DEF Rotation

LEMMA InitInv == FailoverInit => FailoverInv
<1> SUFFICES ASSUME FailoverInit PROVE FailoverInv
  OBVIOUS
<1>1. Types
  <2>1. \A g \in Groups : [k \in 1..GroupSize |-> <<g, k>>] \in Seq(Servers)
    BY GroupsTypes
  <2>2. <<1, 1>> \in Servers /\ 1 \in 1..GroupSize
    BY GroupsTypes
  <2> QED
    BY <2>1, <2>2, GroupsTypes DEF FailoverInit, Types, Statuses
<1>2. Rotations
  <2> SUFFICES ASSUME NEW g \in Groups PROVE Rotation(Members(g), g)
    BY DEF Rotations
  <2> DEFINE q == [k \in 1..GroupSize |-> <<g, k>>]
  <2>1. Members(g) = q
    BY DEF FailoverInit, Members
  <2>2. q \in Seq(Servers) /\ Len(q) = GroupSize
    BY GroupsTypes
  <2>3. /\ \A s \in {g} \X (1..GroupSize) : \E i \in 1..GroupSize : q[i] = s
        /\ \A i \in 1..GroupSize : q[i] \in {g} \X (1..GroupSize)
        /\ \A i, j \in 1..GroupSize : q[i] = q[j] => i = j
    OBVIOUS
  <2> HIDE DEF q
  <2>4. Rotation(q, g)
    BY <2>2, <2>3 DEF Rotation
  <2> QED
    BY <2>1, <2>4
<1>3. FailureSeen
  BY DEF FailoverInit, FailureSeen
<1> QED
  BY <1>1, <1>2, <1>3 DEF FailoverInv

(* What the back-end processes do leaves the master alone.                 *)
LEMMA ServerStepInv ==
    ASSUME FailoverInv, UNCHANGED heartbeatVars,
           server' \in [Servers -> {"DOWN", "RUNNING", "RECOVERING"}]
    PROVE  FailoverInv'
<1>1. UNCHANGED <<serverGroup, status, pc, entry, at, newStatus, primaryFailed, oldPrimary>>
  BY DEF heartbeatVars
<1>2. Types'
  BY <1>1 DEF FailoverInv, Types
<1>3. Rotations'
  <2> SUFFICES ASSUME NEW g \in Groups PROVE Rotation(Members(g)', g)
    BY DEF Rotations, Rotation
  <2>1. Members(g)' = Members(g)
    BY <1>1 DEF Members
  <2> QED
    BY <2>1 DEF FailoverInv, Rotations
<1>4. FailureSeen'
  BY <1>1 DEF FailoverInv, FailureSeen
<1> QED
  BY <1>2, <1>3, <1>4 DEF FailoverInv

(* The thread moves on to the next group, or starts again.                 *)
LEMMA NextGroupTypes ==
    ASSUME Types, NextGroup
    PROVE  /\ entry' \in Groups
           /\ at' \in 1..GroupSize
           /\ pc' = "heartbeat"
           /\ primaryFailed' = FALSE
BY GroupsTypes DEF Types, NextGroup, Groups

LEMMA HeartbeatInv ==
    ASSUME FailoverInv, Heartbeat
    PROVE  FailoverInv'
<1>1. Types'
  <2>1. serverGroup[entry][at] \in Servers
    BY AtServer DEF FailoverInv, Heartbeat
  <2>2. newStatus' \in Statuses
    BY <2>1 DEF FailoverInv, Types, Heartbeat, Answers, Statuses
  <2> QED
    BY <2>2 DEF FailoverInv, Types, Heartbeat
<1>2. Rotations'
  BY DEF FailoverInv, Rotations, Rotation, Members, Heartbeat
<1>3. FailureSeen'
  BY DEF FailoverInv, FailureSeen, Heartbeat
<1> QED
  BY <1>1, <1>2, <1>3 DEF FailoverInv

LEMMA UpdateInv ==
    ASSUME FailoverInv, Update
    PROVE  FailoverInv'
<1> DEFINE s == serverGroup[entry][at]
           failed == primaryFailed \/ FailedNow(s)
<1>1. /\ pc = "update" /\ pc' # "push"
      /\ status' = [status EXCEPT ![s] = newStatus]
      /\ UNCHANGED <<server, serverGroup, newStatus, oldPrimary>>
  BY DEF Update, NextGroup
<1>2. /\ s \in Servers
      /\ serverGroup[entry][1] \in Servers
      /\ s = serverGroup[entry][1] => at = 1
      /\ at = 1 => s = serverGroup[entry][1]
  BY <1>1, AtServer DEF FailoverInv
<1>3. failed \in BOOLEAN
  BY DEF FailoverInv, Types, FailedNow
<1>4. failed => status'[serverGroup[entry][1]] = "UNKNOWN"
  <2>1. CASE primaryFailed
    BY <1>1, <1>2, <2>1 DEF FailoverInv, FailureSeen, Types
  <2>2. CASE FailedNow(s)
    BY <1>1, <1>2, <2>2 DEF FailoverInv, FailedNow, Types
  <2> QED
    BY <2>1, <2>2
<1>5. /\ status' \in [Servers -> Statuses]
      /\ server' \in [Servers -> {"DOWN", "RUNNING", "RECOVERING"}]
      /\ serverGroup' \in [Groups -> Seq(Servers)]
      /\ newStatus' \in Statuses
      /\ oldPrimary' \in Servers
  BY <1>1, <1>2 DEF FailoverInv, Types
<1>6. Rotations'
  BY <1>1 DEF FailoverInv, Rotations, Rotation, Members
<1>7. CASE /\ at < GroupSize
           /\ at' = at + 1
           /\ pc' = "heartbeat"
           /\ primaryFailed' = failed
           /\ UNCHANGED entry
  <2>1. Types'
    BY <1>3, <1>5, <1>7, GroupsTypes DEF FailoverInv, Types
  <2>2. FailureSeen'
    BY <1>1, <1>4, <1>7 DEF FailoverInv, Types, FailureSeen
  <2> QED
    BY <1>6, <2>1, <2>2 DEF FailoverInv
<1>8. CASE /\ at = GroupSize
           /\ failed
           /\ pc' = "pop"
           /\ primaryFailed' = TRUE
           /\ UNCHANGED <<entry, at>>
  <2>1. Types'
    BY <1>5, <1>8 DEF FailoverInv, Types
  <2>2. FailureSeen'
    BY <1>1, <1>4, <1>8 DEF FailureSeen
  <2> QED
    BY <1>6, <2>1, <2>2 DEF FailoverInv
<1>9. CASE at = GroupSize /\ ~ failed /\ NextGroup
  <2>1. Types'
    BY <1>5, <1>9, NextGroupTypes DEF FailoverInv, Types
  <2>2. FailureSeen'
    BY <1>9, NextGroupTypes DEF FailoverInv, FailureSeen
  <2> QED
    BY <1>6, <2>1, <2>2 DEF FailoverInv
<1> QED
  BY <1>7, <1>8, <1>9 DEF Update

LEMMA PopFrontInv ==
    ASSUME FailoverInv, PopFront
    PROVE  FailoverInv'
<1> DEFINE q == serverGroup[entry]
<1>1. /\ pc = "pop" /\ pc' = "push" /\ entry' = entry /\ entry \in Groups
      /\ serverGroup \in [Groups -> Seq(Servers)]
      /\ serverGroup' = [serverGroup EXCEPT ![entry] = Tail(q)]
      /\ oldPrimary' = Head(q)
  BY DEF FailoverInv, Types, PopFront, Primary
<1>2. \A g \in Groups : Rotation(serverGroup[g], g)
  BY <1>1, AtServer DEF FailoverInv
<1>3. /\ Tail(q) \in Seq(Servers)
      /\ Head(q) \in Servers
      /\ Rotation(Append(Tail(q), Head(q)), entry)
  BY <1>1, <1>2, RotationMoved
<1>4. Types'
  BY <1>1, <1>3 DEF FailoverInv, Types, PopFront
<1>5. Rotations'
  <2> SUFFICES ASSUME NEW g \in Groups PROVE Rotation(Members(g)', g)
    BY DEF Rotations, Rotation
  <2>1. CASE g = entry
    <3>1. Members(g)' = Append(Tail(q), Head(q))
      BY <1>1, <2>1 DEF Members
    <3> QED
      BY <1>3, <2>1, <3>1
  <2>2. CASE g # entry
    <3>1. Members(g)' = serverGroup[g]
      BY <1>1, <2>2 DEF Members
    <3> QED
      BY <1>2, <3>1
  <2> QED
    BY <2>1, <2>2
<1>6. FailureSeen'
  BY <1>1 DEF FailureSeen
<1> QED
  BY <1>4, <1>5, <1>6 DEF FailoverInv

LEMMA PushBackInv ==
    ASSUME FailoverInv, PushBack
    PROVE  FailoverInv'
<1>1. /\ pc = "push" /\ entry \in Groups
      /\ serverGroup \in [Groups -> Seq(Servers)]
      /\ oldPrimary \in Servers
      /\ serverGroup' = [serverGroup EXCEPT ![entry] = Append(@, oldPrimary)]
  BY DEF FailoverInv, Types, PushBack
<1>2. /\ entry' \in Groups /\ at' \in 1..GroupSize
      /\ pc' = "heartbeat" /\ primaryFailed' = FALSE
  BY NextGroupTypes DEF FailoverInv, PushBack
<1>3. Types'
  <2>1. Append(serverGroup[entry], oldPrimary) \in Seq(Servers)
    BY <1>1
  <2>2. serverGroup' \in [Groups -> Seq(Servers)]
    BY <1>1, <2>1
  <2> QED
    BY <1>2, <2>2 DEF FailoverInv, Types, PushBack
<1>4. Rotations'
  <2> SUFFICES ASSUME NEW g \in Groups PROVE Rotation(Members(g)', g)
    BY DEF Rotations, Rotation
  <2>1. Members(g)' = Members(g)
    BY <1>1, <1>2 DEF Members
  <2> QED
    BY <2>1 DEF FailoverInv, Rotations
<1>5. FailureSeen'
  BY <1>2 DEF FailureSeen
<1> QED
  BY <1>3, <1>4, <1>5 DEF FailoverInv

LEMMA ThreadInv ==
    ASSUME FailoverInv, heartbeatThreadFn
    PROVE  FailoverInv'
BY HeartbeatInv, UpdateInv, PopFrontInv, PushBackInv DEF heartbeatThreadFn

LEMMA DieInv ==
    ASSUME FailoverInv, NEW s \in Servers, Die(s)
    PROVE  FailoverInv'
BY ServerStepInv DEF Die, FailoverInv, Types

LEMMA FailoverStepInv ==
    ASSUME FailoverInv, [FailoverNext]_failoverVars
    PROVE  FailoverInv'
<1>1. CASE \E s \in Servers : Restart(s) \/ Recovered(s)
  BY <1>1, ServerStepInv DEF Restart, Recovered, FailoverInv, Types
<1>2. CASE UNCHANGED failoverVars
  BY <1>2, ServerStepInv DEF failoverVars, FailoverInv, Types
<1> QED
  BY <1>1, <1>2, DieInv, ThreadInv DEF FailoverNext

LEMMA InvTypeOK == FailoverInv => FailoverTypeOK
<1> SUFFICES ASSUME FailoverInv PROVE FailoverTypeOK
  OBVIOUS
<1>1. ASSUME NEW g \in Groups
      PROVE  /\ Len(Members(g)) = GroupSize
             /\ {Members(g)[k] : k \in 1..GroupSize} = {g} \X (1..GroupSize)
  <2>1. Rotation(Members(g), g)
    BY DEF FailoverInv, Rotations
  <2> QED
    BY <2>1 DEF Rotation
<1> QED
  BY <1>1 DEF FailoverInv, Types, FailoverTypeOK

(* The deques of the master hold, whatever fails and when the thread acts, *)
(* every server of their group once, with the one on its way to the tail   *)
(* (heartbeatThreadFn of MasterServer.cc pops and pushes without a lock).  *)
THEOREM FailoverTypeCorrect == FailoverSpec => []FailoverTypeOK
<1>1. FailoverInv /\ [FailoverNext]_failoverVars => FailoverInv'
  BY FailoverStepInv
<1> QED
  BY InitInv, InvTypeOK, <1>1, PTL DEF FailoverSpec

-----------------------------------------------------------------------------
(* What the history variable says of the master's statuses.  Between a     *)
(* call and the step that stores its answer it is ahead of the status.     *)
Asked == serverGroup[entry][at]

Findings == {"silent", "alive", "dead"} \cup (IF Suspects THEN {"late"} ELSE {})
Failures == {"dead"} \cup (IF Suspects THEN {"late"} ELSE {})

Seen ==
    /\ seen \in [Servers -> Findings]
    /\ \A s \in Servers :
         ~ (pc = "update" /\ s = Asked) =>
             (status[s] = "UNKNOWN" <=> seen[s] # "alive")
    /\ pc = "update" =>
         /\ newStatus = "UNKNOWN" <=> seen[Asked] # "alive"
         /\ newStatus = "UNKNOWN" /\ status[Asked] # "UNKNOWN" => seen[Asked] \in Failures
    /\ pc # "push" /\ primaryFailed => seen[serverGroup[entry][1]] \in Failures

HistoryInv == FailoverInv /\ Seen

LEMMA HistoryInitInv == HistoryInit => HistoryInv
<1> SUFFICES ASSUME HistoryInit PROVE HistoryInv
  OBVIOUS
<1>1. FailoverInv
  BY InitInv DEF HistoryInit
<1>2. Seen
  BY DEF HistoryInit, FailoverInit, Seen, Findings
<1> QED
  BY <1>1, <1>2 DEF HistoryInv

LEMMA SeenHeartbeat ==
    ASSUME HistoryInv, HeartbeatSeen
    PROVE  Seen'
<1>1. /\ Asked \in Servers
      /\ serverGroup[entry][1] \in Servers
      /\ Asked = serverGroup[entry][1] => at = 1
  BY AtServer DEF HistoryInv, FailoverInv, HeartbeatSeen, Heartbeat, Asked
<1>2. /\ pc = "heartbeat" /\ pc' = "update"
      /\ UNCHANGED <<server, serverGroup, status, entry, at, primaryFailed, oldPrimary>>
      /\ Asked' = Asked
      /\ newStatus' \in Answers(Asked)
      /\ seen' = [seen EXCEPT ![Asked] =
                    IF newStatus' # "UNKNOWN" THEN "alive"
                    ELSE IF seen[Asked] # "alive" THEN "silent"
                    ELSE IF server[Asked] = "DOWN" THEN "dead" ELSE "late"]
  BY DEF HeartbeatSeen, Heartbeat, Asked
<1>3. seen \in [Servers -> Findings] /\ server \in [Servers -> {"DOWN", "RUNNING", "RECOVERING"}]
  BY DEF HistoryInv, FailoverInv, Types, Seen
<1>4. /\ newStatus' = "UNKNOWN" /\ server[Asked] # "DOWN" => Suspects
      /\ newStatus' = "UNKNOWN" <=> seen'[Asked] # "alive"
      /\ newStatus' = "UNKNOWN" /\ seen[Asked] = "alive" => seen'[Asked] \in Failures
      /\ seen'[Asked] \in Findings
  BY <1>1, <1>2, <1>3 DEF Answers, Failures, Findings
<1>5. \A s \in Servers : s # Asked => seen'[s] = seen[s]
  BY <1>1, <1>2, <1>3
<1>6. seen' \in [Servers -> Findings]
  BY <1>1, <1>2, <1>3, <1>4
<1>7. \A s \in Servers : status[s] = "UNKNOWN" <=> seen[s] # "alive"
  BY <1>2 DEF HistoryInv, Seen
<1>8. primaryFailed => seen'[serverGroup[entry][1]] \in Failures
  BY <1>1, <1>2, <1>5 DEF HistoryInv, FailoverInv, FailureSeen, Seen
<1> QED
  BY <1>1, <1>2, <1>4, <1>5, <1>6, <1>7, <1>8 DEF Seen, Findings, Failures

LEMMA SeenUpdate ==
    ASSUME HistoryInv, Update, UNCHANGED seen
    PROVE  Seen'
<1>1. /\ Asked \in Servers
      /\ serverGroup[entry][1] \in Servers
      /\ Asked = serverGroup[entry][1] => at = 1
      /\ at = 1 => Asked = serverGroup[entry][1]
  BY AtServer DEF HistoryInv, FailoverInv, Update, Asked
<1>2. /\ pc = "update" /\ pc' \in {"heartbeat", "pop"}
      /\ status' = [status EXCEPT ![Asked] = newStatus]
      /\ UNCHANGED <<server, serverGroup, newStatus, oldPrimary, seen>>
      /\ primaryFailed' => entry' = entry /\ (primaryFailed \/ FailedNow(Asked))
  BY DEF Update, NextGroup, Asked
<1>3. \A s \in Servers : status'[s] = "UNKNOWN" <=> seen[s] # "alive"
  BY <1>1, <1>2 DEF HistoryInv, FailoverInv, Types, Seen
<1>4. primaryFailed' => seen[serverGroup[entry][1]] \in Failures
  BY <1>1, <1>2 DEF HistoryInv, Seen, FailedNow
<1> QED
  BY <1>2, <1>3, <1>4 DEF HistoryInv, Seen, Findings, Failures

LEMMA SeenKept ==
    ASSUME HistoryInv, UNCHANGED seen,
           \/ PopFront
           \/ PushBack
           \/ UNCHANGED heartbeatVars
    PROVE  Seen'
<1>1. CASE PopFront
  BY <1>1 DEF HistoryInv, Seen, PopFront, Findings, Failures
<1>2. CASE PushBack
  BY <1>2 DEF HistoryInv, Seen, PushBack, NextGroup, Findings, Failures
<1>3. CASE UNCHANGED heartbeatVars
  BY <1>3 DEF HistoryInv, Seen, heartbeatVars, Asked, Findings, Failures
<1> QED
  BY <1>1, <1>2, <1>3

LEMMA HistoryStepInv ==
    ASSUME HistoryInv, [HistoryNext]_seenVars
    PROVE  HistoryInv'
<1>1. [FailoverNext]_failoverVars
  BY DEF HistoryNext, seenVars, heartbeatThreadSeen, HeartbeatSeen, FailoverNext,
         heartbeatThreadFn
<1>2. FailoverInv'
  BY <1>1, FailoverStepInv DEF HistoryInv
<1>3. Seen'
  BY SeenHeartbeat, SeenUpdate, SeenKept
     DEF HistoryNext, seenVars, heartbeatThreadSeen, Die, Restart, Recovered,
         failoverVars
<1> QED
  BY <1>2, <1>3 DEF HistoryInv

(* A primary loses its place at the head of its deque only after it        *)
(* answered one heartbeat and missed the next, dead or late; it was dead   *)
(* where no heartbeat of a running server times out (heartbeatThreadFn).   *)
THEOREM OnlyFailedDemotedHolds == HistorySpec => OnlyFailedDemoted
<1> DEFINE A == \A g \in Groups :
                  pc = "pop" /\ serverGroup'[g] # serverGroup[g] =>
                      seen[Primary(g)] \in
                          {"dead"} \cup (IF Suspects THEN {"late"} ELSE {})
<1>1. HistoryInv /\ [HistoryNext]_seenVars => HistoryInv'
  BY HistoryStepInv
<1>2. HistoryInv /\ [HistoryNext]_seenVars => A
  <2> SUFFICES ASSUME HistoryInv, [HistoryNext]_seenVars, NEW g \in Groups,
                      pc = "pop", serverGroup'[g] # serverGroup[g]
               PROVE  seen[Primary(g)] \in Failures
    BY DEF Failures
  <2>1. PopFront
    BY DEF HistoryNext, heartbeatThreadSeen, HeartbeatSeen, Heartbeat, Update, PushBack,
           Die, Restart, Recovered, heartbeatVars, failoverVars, seenVars
  <2>2. g = entry
    BY <2>1 DEF PopFront, HistoryInv, FailoverInv, Types
  <2>3. seen[serverGroup[entry][1]] \in Failures
    BY DEF HistoryInv, FailoverInv, FailureSeen, Seen
  <2>4. Head(serverGroup[entry]) = serverGroup[entry][1]
    BY AtServer, RotationMoved DEF HistoryInv, FailoverInv, Types
  <2> QED
    BY <2>2, <2>3, <2>4 DEF Primary
<1>3. HistorySpec => [][A]_seenVars
  BY HistoryInitInv, <1>1, <1>2, PTL DEF HistorySpec
<1> QED
  BY <1>3 DEF OnlyFailedDemoted

=============================================================================
