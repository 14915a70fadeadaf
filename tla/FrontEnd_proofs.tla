---------------------------- MODULE FrontEnd_proofs ----------------------------
(***************************************************************************)
(* Proofs about LoadBalancer, for every number of front-end servers and of *)
(* connections, and about WebMail, for every number of groups, users,      *)
(* threads and requests at a time.  The two modules share nothing.         *)
(***************************************************************************)
EXTENDS LoadBalancer, WebMail, TLAPS

(* The server n places after server c. *)
LEMMA Places ==
    ASSUME NEW c \in Indexes, NEW n \in 0..NumServers
    PROVE  /\ (c + n) % NumServers = IF c + n < NumServers THEN c + n ELSE c + n - NumServers
           /\ (c + n) % NumServers \in Indexes
<1>1. NumServers \in Nat /\ NumServers > 0 /\ c \in Nat /\ c < NumServers /\ n \in Nat
  BY LoadBalancerAssumption DEF Indexes
<1>2. CASE c + n < NumServers
  BY <1>1, <1>2 DEF Indexes
<1>3. CASE c + n >= NumServers
  BY <1>1, <1>3 DEF Indexes
<1> QED
  BY <1>1, <1>2, <1>3

(* The places of the servers after the one chosen last, as the scan goes.  *)
Passed(n) ==
    /\ counter = (chosen + n) % NumServers
    /\ \A m \in 1..(n - 1) : status[(chosen + m) % NumServers] = "UNKNOWN"

(* The counter is one ahead of the server chosen last, or as far as the    *)
(* scan has come.                                                          *)
Position ==
    /\ main # "scan" => counter = (chosen + 1) % NumServers
    /\ main = "scan" => \E n \in 1..NumServers : Passed(n)

BalancerInv == BalancerTypeOK /\ Position

-----------------------------------------------------------------------------
LEMMA ServerNumbers ==
    /\ NumServers \in Nat /\ NumServers > 0 /\ 0 \in Indexes /\ NumServers - 1 \in Indexes
    /\ 1 \in 0..NumServers
BY LoadBalancerAssumption DEF Indexes

LEMMA NextPlace ==
    ASSUME NEW c \in Indexes, NEW n \in 1..NumServers
    PROVE  (((c + n) % NumServers) + 1) % NumServers =
             IF n < NumServers THEN (c + (n + 1)) % NumServers ELSE (c + 1) % NumServers
<1>1. c \in Nat /\ c < NumServers /\ n \in 0..NumServers /\ 1 \in 0..NumServers /\ n > 0
  BY ServerNumbers DEF Indexes
<1>2. /\ (c + n) % NumServers \in Indexes
      /\ (c + n) % NumServers = IF c + n < NumServers THEN c + n ELSE c + n - NumServers
  BY <1>1, Places
<1>3. (((c + n) % NumServers) + 1) % NumServers =
        IF ((c + n) % NumServers) + 1 < NumServers THEN ((c + n) % NumServers) + 1
        ELSE ((c + n) % NumServers) + 1 - NumServers
  BY <1>1, <1>2, Places
<1>4. (c + 1) % NumServers = IF c + 1 < NumServers THEN c + 1 ELSE c + 1 - NumServers
  BY <1>1, Places
<1>5. n < NumServers =>
        (c + (n + 1)) % NumServers = IF c + (n + 1) < NumServers THEN c + (n + 1)
                                     ELSE c + (n + 1) - NumServers
  BY <1>1, ServerNumbers, Places
<1> QED
  BY <1>1, <1>2, <1>3, <1>4, <1>5, ServerNumbers

LEMMA BalancerInitInv == BalancerInit => BalancerInv
<1> SUFFICES ASSUME BalancerInit PROVE BalancerInv
  OBVIOUS
<1>1. BalancerTypeOK
  BY ServerNumbers DEF BalancerInit, BalancerTypeOK, NoThread
<1>2. Position
  <2>1. (chosen + 1) % NumServers = IF chosen + 1 < NumServers THEN chosen + 1
                                    ELSE chosen + 1 - NumServers
    BY <1>1, ServerNumbers, Places DEF BalancerTypeOK
  <2> QED
    BY <2>1, ServerNumbers DEF BalancerInit, Position
<1> QED
  BY <1>1, <1>2 DEF BalancerInv

LEMMA BalancerTypeStep ==
    ASSUME BalancerTypeOK, BalancerNext
    PROVE  BalancerTypeOK'
<1>1. ASSUME NEW i \in Indexes, Toggle(i) PROVE BalancerTypeOK'
  <2>1. up' \in [Indexes -> BOOLEAN]
    BY <1>1 DEF Toggle, BalancerTypeOK
  <2> QED
    BY <1>1, <2>1 DEF Toggle, serveVars, BalancerTypeOK
<1>2. CASE Heartbeat
  BY <1>2 DEF Heartbeat, serveVars, BalancerTypeOK
<1>3. CASE Update
  <2>1. (beat.i + 1) % NumServers \in Indexes
    BY ServerNumbers, Places DEF BalancerTypeOK
  <2> QED
    BY <1>3, <2>1 DEF Update, serveVars, BalancerTypeOK
<1>4. CASE Accept
  BY <1>4 DEF Accept, pollVars, BalancerTypeOK
<1>5. CASE Lock
  BY <1>5 DEF Lock, pollVars, BalancerTypeOK
<1>6. CASE Scan
  <2>1. (counter + 1) % NumServers \in Indexes
    BY ServerNumbers, Places DEF BalancerTypeOK
  <2>2. CASE status[counter] = "UNKNOWN"
    BY <1>6, <2>1, <2>2 DEF Scan, pollVars, BalancerTypeOK
  <2>3. CASE status[counter] # "UNKNOWN"
    <3>1. arg' \in [connfd : Fds \cup {0}, address : Indexes]
      BY <1>6, <2>3 DEF Scan, BalancerTypeOK
    <3> QED
      BY <1>6, <2>1, <2>3, <3>1 DEF Scan, pollVars, BalancerTypeOK
  <2> QED
    BY <2>2, <2>3
<1>7. CASE Create
  <2> DEFINE Workers == [state : {"none", "created", "serving"},
                         connfd : Fds \cup {0}, address : Indexes]
  <2>1. worker \in [Fds -> Workers]
    BY DEF BalancerTypeOK
  <2>2. ASSUME NEW k \in Fds PROVE [worker[k] EXCEPT !.state = "created"] \in Workers
    BY <2>1
  <2> HIDE DEF Workers
  <2>3. worker' \in [Fds -> Workers]
    BY <1>7, <2>1, <2>2 DEF Create
  <2> QED
    BY <1>7, <2>3 DEF Create, pollVars, BalancerTypeOK, Workers
<1>8. ASSUME NEW k \in Fds, Copy(k) PROVE BalancerTypeOK'
  BY <1>8 DEF Copy, pollVars, BalancerTypeOK
<1>9. ASSUME NEW k \in Fds, Redirect(k) PROVE BalancerTypeOK'
  BY <1>9, ServerNumbers DEF Redirect, pollVars, BalancerTypeOK, NoThread
<1> QED
  BY <1>1, <1>2, <1>3, <1>4, <1>5, <1>6, <1>7, <1>8, <1>9 DEF BalancerNext, heartbeatThreadFn

(* While the main thread scans it holds the lock, so no status changes.    *)
LEMMA PositionStep ==
    ASSUME BalancerInv, BalancerNext
    PROVE  Position'
<1>1. CASE Scan
  <2>1. PICK n \in 1..NumServers : Passed(n)
    BY <1>1 DEF BalancerInv, Position, Scan
  <2>2. /\ chosen \in Indexes /\ counter' = (counter + 1) % NumServers /\ status' = status
        /\ counter \in Indexes /\ main = "scan"
    BY <1>1 DEF BalancerInv, BalancerTypeOK, Scan, pollVars
  <2>3. CASE status[counter] # "UNKNOWN"
    BY <1>1, <2>2, <2>3 DEF Position, Scan
  <2>4. CASE status[counter] = "UNKNOWN"
    <3>1. main' = "scan" /\ chosen' = chosen
      BY <1>1, <2>2, <2>4 DEF Scan
    <3>2. CASE n < NumServers
      <4>1. counter' = (chosen + (n + 1)) % NumServers
        BY <2>1, <2>2, <3>2, NextPlace DEF Passed
      <4>2. ASSUME NEW m \in 1..((n + 1) - 1)
            PROVE  status[(chosen + m) % NumServers] = "UNKNOWN"
        BY <2>1, <2>4 DEF Passed
      <4>3. n + 1 \in 1..NumServers
        BY <3>2, ServerNumbers
      <4>4. Passed(n + 1)'
        BY <2>2, <3>1, <4>1, <4>2 DEF Passed
      <4> QED
        BY <3>1, <4>3, <4>4 DEF Position
    <3>3. CASE n = NumServers
      <4>1. counter' = (chosen + 1) % NumServers
        BY <2>1, <2>2, <3>3, NextPlace DEF Passed
      <4>2. Passed(1)'
        BY <3>1, <4>1 DEF Passed
      <4>3. 1 \in 1..NumServers
        BY ServerNumbers
      <4> QED
        BY <3>1, <4>2, <4>3 DEF Position
    <3> QED
      BY <3>2, <3>3, ServerNumbers
  <2> QED
    BY <2>3, <2>4
<1>2. CASE Lock
  <2>1. /\ main = "lock" /\ main' = "scan" /\ counter' = counter /\ chosen' = chosen
        /\ status' = status
    BY <1>2 DEF Lock, pollVars
  <2>2. Passed(1)'
    BY <2>1, ServerNumbers DEF BalancerInv, Position, Passed
  <2> QED
    BY <2>1, <2>2, ServerNumbers DEF Position
<1>3. CASE Update
  <2>1. main # "scan" /\ main' = main /\ counter' = counter /\ chosen' = chosen
    BY <1>3 DEF Update, serveVars, BalancerInv, BalancerTypeOK
  <2> QED
    BY <2>1 DEF BalancerInv, Position
<1>4. ASSUME UNCHANGED <<status, counter, chosen>>, main' = main PROVE Position'
  BY <1>4 DEF BalancerInv, Position, Passed
<1>5. CASE Accept \/ Create
  BY <1>5 DEF Accept, Create, pollVars, BalancerInv, Position
<1>6. ASSUME \/ Heartbeat \/ (\E i \in Indexes : Toggle(i))
             \/ (\E k \in Fds : Copy(k) \/ Redirect(k))
      PROVE  Position'
  BY <1>4, <1>6 DEF Heartbeat, Toggle, Copy, Redirect, pollVars, serveVars
<1> QED
  BY <1>1, <1>2, <1>3, <1>5, <1>6 DEF BalancerNext, heartbeatThreadFn

LEMMA BalancerStepInv == BalancerInv /\ [BalancerNext]_balancerVars => BalancerInv'
<1>1. BalancerInv /\ BalancerNext => BalancerInv'
  BY BalancerTypeStep, PositionStep DEF BalancerInv
<1>2. BalancerInv /\ UNCHANGED balancerVars => BalancerInv'
  BY DEF balancerVars, BalancerInv, BalancerTypeOK, Position, Passed
<1> QED
  BY <1>1, <1>2

LEMMA BalancerInvHolds == BalancerSpec => []BalancerInv
  BY BalancerInitInv, BalancerStepInv, PTL DEF BalancerSpec

(* The variables of the load balancer have their types, and the lock is    *)
(* held just while getRedirectAddress (feserver.cc) scans.                 *)
THEOREM BalancerTyped == BalancerSpec => []BalancerTypeOK
<1>1. BalancerInv => BalancerTypeOK
  BY DEF BalancerInv
<1> QED
  BY <1>1, BalancerInvHolds, PTL

(* A redirect goes to the first server after that of the last redirect     *)
(* that is known to run, and passes over no other, while the heartbeat     *)
(* thread changes what is known (feserver.cc getRedirectAddress).          *)
THEOREM RoundRobinHolds == BalancerSpec => RoundRobin
<1>1. ASSUME BalancerInv, [BalancerNext]_balancerVars
      PROVE  [ main = "scan" /\ main' = "create" =>
                \E n \in 1..NumServers :
                  /\ chosen' = (chosen + n) % NumServers
                  /\ \A m \in 1..(n - 1) : status[(chosen + m) % NumServers] = "UNKNOWN"
             ]_balancerVars
  <2>1. SUFFICES ASSUME BalancerNext, main = "scan", main' = "create"
                 PROVE  \E n \in 1..NumServers : chosen' = (chosen + n) % NumServers
                            /\ \A m \in 1..(n - 1) : status[(chosen + m) % NumServers] = "UNKNOWN"
    BY <1>1 DEF balancerVars
  <2>2. Scan
    BY <2>1 DEF BalancerNext, heartbeatThreadFn, Toggle, Heartbeat, Update, Accept, Lock, Create,
        Copy, Redirect, serveVars
  <2>3. chosen' = counter
    BY <2>1, <2>2 DEF Scan
  <2> QED
    BY <1>1, <2>1, <2>3 DEF BalancerInv, Position, Passed
<1> QED
  BY <1>1, BalancerInvHolds, PTL DEF BalancerSpec, RoundRobin

-----------------------------------------------------------------------------
StoresOK ==
    /\ DOMAIN metadata \subseteq Keys
    /\ \A k \in DOMAIN metadata : metadata[k] \in Groups
    /\ password \in [Groups -> [Users -> Passwords \cup {None}]]
    /\ mails \in [Groups -> SUBSET [user : Users, uid : Mails]]

ThreadsOK ==
    /\ pc \in [Threads -> Steps]
    /\ job \in [Threads -> Jobs]
    /\ held \in [Threads -> SUBSET (Passwords \cup {None})]

HistoryOK == sent \cup excused \subseteq [user : Users, uid : Mails]

(* The session takes a text only while nothing is written for it.          *)
GateOK ==
    /\ smtp \in [state : INITI..STATE_DATA, receivers : Seq(Users)]
    /\ Len(smtp.receivers) <= MaxReceivers
    /\ smtp.state \in {RCPT_DATA, STATE_DATA} => smtp.receivers # <<>>
    /\ smtp.state = STATE_DATA =>
        pc[gateway] = "idle" /\ job[gateway].uid \in Mails /\ job[gateway].page = "home"
    /\ requests \in 0..MaxRequests

(* A thread that deletes a mail has been asked to. *)
Deleting(t) == job[t].op = "delete" => KeyOf(job[t]) \in excused

(* A mail that has just been written is in its group. *)
Written(t) ==
    pc[t] = "record" /\ job[t].op \in {"send", "relay"} =>
        KeyOf(job[t]) \in mails[job[t].group] \cup excused

(* The receivers of a mail: the one it is being written for, those that    *)
(* follow, and those who have it.                                          *)
Reached(t) ==
    job[t].op \in {"send", "relay"} =>
        \A u \in ToSet(job[t].all) :
            \/ u = job[t].user
            \/ u \in ToSet(job[t].to)
            \/ [user |-> u, uid |-> job[t].uid] \in DOMAIN metadata \cup excused

(* What a user's passwords are is among what they have been. *)
Known(t) == job[t].uid = "password" => PasswordsOf(job[t].user) \subseteq held[t]

(* A thread that writes a password has been let to. *)
Allowed(t) ==
    /\ job[t].op \in {"login", "chpwd"} => job[t].old \in Passwords
    /\ pc[t] \in {"choose", "store", "record"} =>
        /\ job[t].op # "login"
        /\ job[t].op = "register" => None \in held[t]
        /\ job[t].op = "chpwd" => job[t].old \in held[t]

Doing(t) ==
    /\ JobOK(t)
    /\ Deleting(t)
    /\ Written(t)
    /\ Reached(t)
    /\ Allowed(t)
    /\ job[t].page = "home"

Working(t) == pc[t] # "idle" => Doing(t) /\ Known(t)

(* An acknowledged mail is in the lists of its receivers. *)
SentListed == \A k \in sent \ excused : k \in DOMAIN metadata

Inv ==
    /\ StoresOK
    /\ ThreadsOK
    /\ HistoryOK
    /\ GateOK
    /\ \A t \in Threads : Working(t)
    /\ ListedReadable
    /\ SentListed

-----------------------------------------------------------------------------
LEMMA Constants ==
    /\ None \notin Passwords /\ None \notin Users
    /\ gateway \in Threads /\ gateway \notin Browsers
    /\ \A t \in Threads : t # gateway => t \in Browsers
    /\ Browsers \subseteq Threads
    /\ "password" \notin Mails
    /\ MaxReceivers \in Nat /\ MaxRequests \in Nat
BY WebMailAssumption DEF Threads, Mails

LEMMA NoJobTyped == NoJob \in Jobs
BY DEF NoJob, Jobs

LEMMA MailInit == Init => Inv
<1> SUFFICES ASSUME Init PROVE Inv
  OBVIOUS
<1>1. StoresOK
  BY DEF Init, StoresOK
<1>2. ThreadsOK
  BY NoJobTyped DEF Init, ThreadsOK, Steps
<1>3. HistoryOK /\ SentListed
  BY DEF Init, HistoryOK, SentListed
<1>4. GateOK
  BY Constants DEF Init, GateOK, INITI, STATE_DATA, RCPT_DATA
<1>5. ListedReadable
  BY DEF Init, ListedReadable
<1>6. ASSUME NEW t \in Threads PROVE Working(t)
  BY DEF Init, Working
<1> QED
  BY <1>1, <1>2, <1>3, <1>4, <1>5, <1>6 DEF Inv

LEMMA HeadAndTail ==
    ASSUME NEW to \in Seq(Users), to # <<>>
    PROVE  /\ Head(to) \in Users /\ Tail(to) \in Seq(Users)
           /\ \A u \in ToSet(to) : u = Head(to) \/ u \in ToSet(Tail(to))
<1>1. ASSUME NEW u \in ToSet(to), u # Head(to) PROVE u \in ToSet(Tail(to))
  <2>1. PICK i \in 1..Len(to) : u = to[i]
    BY <1>1 DEF ToSet
  <2>2. i - 1 \in 1..Len(Tail(to)) /\ Tail(to)[i - 1] = u
    BY <1>1, <2>1
  <2> QED
    <3>1. Tail(to) \in Seq(Users)
      OBVIOUS
    <3>2. i - 1 \in DOMAIN Tail(to)
      BY <2>2, <3>1
    <3> QED
      BY <2>2, <3>2 DEF ToSet
<1> QED
  BY <1>1

(* What is under way stays true for a thread that does not move: keys and  *)
(* mails go only when their deletion was asked for.                        *)
Evolves ==
    /\ \A k \in DOMAIN metadata : k \in DOMAIN metadata' \cup excused'
    /\ \A g \in Groups : \A k \in mails[g] : k \in mails'[g] \cup excused'
    /\ excused \subseteq excused'

(* The passwords are noted at every step of a request. *)
LEMMA NotedTyped ==
    ASSUME ThreadsOK, StoresOK', NEW t \in Threads,
           pc'[t] # "idle" => job'[t].user \in Users
    PROVE  /\ Noted[t] \subseteq Passwords \cup {None}
           /\ pc'[t] # "idle" /\ job'[t].uid = "password" =>
                held[t] \subseteq Noted[t] /\ PasswordsOf(job[t].user)' \subseteq Noted[t]
<1>1. ASSUME NEW u \in Users PROVE PasswordsOf(u)' \subseteq Passwords \cup {None}
  BY DEF PasswordsOf, StoresOK
<1>2. CASE pc'[t] = "idle" \/ job'[t].uid # "password"
  BY <1>2 DEF Noted
<1>3. CASE pc'[t] # "idle" /\ job'[t].uid = "password"
  <2>1. job'[t].user \in Users
    BY <1>3
  <2>2. Noted[t] = held[t] \cup PasswordsOf(job[t].user)'
    BY <1>3, <2>1 DEF Noted, PasswordsOf
  <2>3. held[t] \subseteq Passwords \cup {None}
    BY DEF ThreadsOK
  <2> QED
    BY <1>3, <2>1, <2>2, <2>3, <1>1 DEF PasswordsOf
<1> QED
  BY <1>2, <1>3

(* A step of thread t leaves the others at what they do. *)
Others(t) == \A s \in Threads \ {t} : pc'[s] = pc[s] /\ job'[s] = job[s]

LEMMA OthersWork ==
    ASSUME Inv, StoresOK', Evolves, NEW s \in Threads,
           pc'[s] = pc[s], job'[s] = job[s], pc[s] # "idle",
           Known(s)', job[s].uid = "password" => held[s] \subseteq held'[s]
    PROVE  Working(s)'
<1>1. Doing(s) /\ job[s] \in Jobs
  BY DEF Inv, Working, ThreadsOK
<1>2. JobOK(s)'
  BY <1>1 DEF Doing, JobOK
<1>3. Deleting(s)'
  BY <1>1 DEF Doing, Deleting, Evolves, KeyOf
<1>4. Written(s)'
  BY <1>1 DEF Doing, Written, Evolves, KeyOf, JobOK
<1>5. Reached(s)'
  BY <1>1 DEF Doing, Reached, Evolves
<1>6. Allowed(s)'
  BY <1>1 DEF Doing, Allowed, JobOK
<1>7. job'[s].page = "home"
  BY <1>1 DEF Doing
<1> QED
  BY <1>2, <1>3, <1>4, <1>5, <1>6, <1>7 DEF Working, Doing

LEMMA ThreadSteps ==
    ASSUME Inv, StoresOK', Evolves, NEW t \in Threads, Others(t),
           pc' \in [Threads -> Steps], job' \in [Threads -> Jobs],
           held' \in [Threads -> SUBSET (Passwords \cup {None})],
           \A s \in Threads : Noted[s] \subseteq held'[s],
           pc'[t] # "idle" => Doing(t)'
    PROVE  ThreadsOK' /\ \A s \in Threads : Working(s)'
<1>1. ThreadsOK'
  BY DEF ThreadsOK
<1>2. ASSUME NEW s \in Threads, pc'[s] # "idle" PROVE job'[s].user \in Users
  BY <1>2 DEF Inv, Working, Doing, JobOK, Others
<1>3. ASSUME NEW s \in Threads, pc'[s] # "idle", job'[s].uid = "password"
      PROVE  held[s] \subseteq held'[s] /\ PasswordsOf(job[s].user)' \subseteq held'[s]
  BY <1>2, <1>3, NotedTyped DEF Inv
<1>4. ASSUME NEW s \in Threads PROVE Working(s)'
  <2>1. CASE pc'[s] = "idle"
    BY <2>1 DEF Working
  <2>2. CASE pc'[s] # "idle" /\ s = t
    BY <2>2, <1>3 DEF Working, Known
  <2>3. CASE pc'[s] # "idle" /\ s # t
    <3>1. pc'[s] = pc[s] /\ job'[s] = job[s]
      BY <2>3 DEF Others
    <3>2. Known(s)' /\ (job[s].uid = "password" => held[s] \subseteq held'[s])
      BY <1>3, <2>3, <3>1 DEF Known
    <3> QED
      BY <2>3, <3>1, <3>2, OthersWork
  <2> QED
    BY <2>1, <2>2, <2>3
<1> QED
  BY <1>1, <1>4

(* Most steps of a request end by noting the passwords. *)
LEMMA NotedSteps ==
    ASSUME Inv, StoresOK', Evolves, NEW t \in Threads, Others(t),
           pc' \in [Threads -> Steps], job' \in [Threads -> Jobs],
           held' = Noted,
           pc'[t] # "idle" => Doing(t)'
    PROVE  ThreadsOK' /\ \A s \in Threads : Working(s)'
<1>1. ASSUME NEW s \in Threads, pc'[s] # "idle" PROVE job'[s].user \in Users
  BY <1>1 DEF Inv, Working, Doing, JobOK, Others
<1>2. ASSUME NEW s \in Threads PROVE Noted[s] \subseteq Passwords \cup {None}
  BY <1>1, NotedTyped DEF Inv
<1>3. Noted = [s \in Threads |-> Noted[s]]
  BY DEF Noted
<1>4. held' \in [Threads -> SUBSET (Passwords \cup {None})]
  BY <1>2, <1>3
<1> QED
  BY <1>4, ThreadSteps

LEMMA StoresStay ==
    ASSUME Inv, UNCHANGED stores, excused \subseteq excused'
    PROVE  StoresOK' /\ Evolves /\ ListedReadable'
<1>1. metadata' = metadata /\ password' = password /\ mails' = mails
  BY DEF stores
<1>2. StoresOK'
  BY <1>1 DEF Inv, StoresOK
<1>3. Evolves
  BY <1>1 DEF Evolves
<1>4. ListedReadable'
  BY <1>1 DEF Inv, ListedReadable, Readable
<1> QED
  BY <1>2, <1>3, <1>4

LEMMA GateStays ==
    ASSUME Inv, NEW t \in Threads, pc[t] # "idle", Others(t), UNCHANGED gates
    PROVE  GateOK'
<1>1. smtp' = smtp /\ requests' = requests /\ GateOK
  BY DEF gates, Inv
<1>2. ASSUME smtp.state = STATE_DATA
      PROVE  pc'[gateway] = "idle" /\ job'[gateway].uid \in Mails /\ job'[gateway].page = "home"
  BY <1>1, <1>2, Constants DEF GateOK, Others
<1> QED
  BY <1>1, <1>2 DEF GateOK

LEMMA SentStays ==
    ASSUME Inv, Evolves, sent' = sent
    PROVE  SentListed'
BY DEF Inv, SentListed, Evolves

-----------------------------------------------------------------------------
(* The requests come. *)
LEMMA AskStep ==
    ASSUME Inv, NEW t \in Browsers, NEW j \in Jobs, NEW c \in {"find", "external", "choose"},
           Ask(t, j, c),
           excused \subseteq excused', excused' \subseteq [user : Users, uid : Mails],
           j.user \in Users, j.page = "home", j.op \notin {"none", "relay"},
           j.uid \in (IF j.op \in {"register", "login", "chpwd"} THEN {"password"} ELSE Mails),
           c = "choose" => j.op = "delete",
           j.op = "delete" => KeyOf(j) \in excused',
           j.op = "send" => \A u \in ToSet(j.all) : u = j.user \/ u \in ToSet(j.to),
           j.op \in {"login", "chpwd"} => j.old \in Passwords
    PROVE  Inv'
<1>1. /\ t \in Threads /\ t # gateway /\ pc[t] = "idle"
      /\ UNCHANGED stores /\ smtp' = smtp /\ sent' = sent /\ held' = Noted
      /\ requests < MaxRequests /\ requests' = requests + 1
  BY Constants DEF Ask
<1>2. ThreadsOK /\ GateOK /\ HistoryOK
  BY DEF Inv
<1>3. /\ pc' \in [Threads -> Steps] /\ job' \in [Threads -> Jobs]
      /\ Others(t) /\ pc'[t] = c /\ job'[t] = j
  BY <1>1, <1>2 DEF Ask, ThreadsOK, Others, Steps
<1>4. StoresOK' /\ Evolves /\ ListedReadable' /\ SentListed'
  BY <1>1, StoresStay, SentStays
<1>5. Doing(t)'
  <2>1. JobOK(t)'
    BY <1>1, <1>3 DEF JobOK
  <2>2. Deleting(t)'
    BY <1>3 DEF Deleting, KeyOf
  <2>3. Written(t)'
    BY <1>3 DEF Written
  <2>4. Reached(t)'
    BY <1>3 DEF Reached
  <2>5. Allowed(t)'
    BY <1>3 DEF Allowed
  <2> QED
    BY <1>3, <2>1, <2>2, <2>3, <2>4, <2>5 DEF Doing
<1>6. ThreadsOK' /\ \A s \in Threads : Working(s)'
  BY <1>1, <1>3, <1>4, <1>5, NotedSteps
<1>7. GateOK'
  BY <1>1, <1>2, <1>3, Constants DEF GateOK, Others
<1>8. HistoryOK'
  BY <1>1, <1>2 DEF HistoryOK
<1> QED
  BY <1>4, <1>6, <1>7, <1>8 DEF Inv

LEMMA RegisterStep ==
    ASSUME Inv, NEW t \in Browsers, NEW u \in Users, NEW p \in Passwords,
           HandleRegister(t, u, p)
    PROVE  Inv'
<1> DEFINE j == [NoJob EXCEPT !.op = "register", !.user = u, !.uid = "password", !.value = p]
<1>1. /\ j \in Jobs /\ j.user = u /\ j.op = "register" /\ j.uid = "password"
      /\ j.page = "home"
  BY NoJobTyped DEF Jobs, NoJob
<1>2. Ask(t, j, "find") /\ excused' = excused
  BY DEF HandleRegister
<1> HIDE DEF j
<1> QED
  BY <1>1, <1>2, AskStep DEF Inv, HistoryOK

LEMMA LoginStep ==
    ASSUME Inv, NEW t \in Browsers, NEW u \in Users, NEW p \in Passwords,
           HandleLogin(t, u, p)
    PROVE  Inv'
<1> DEFINE j == [NoJob EXCEPT !.op = "login", !.user = u, !.uid = "password", !.old = p]
<1>1. /\ j \in Jobs /\ j.user = u /\ j.op = "login" /\ j.uid = "password"
      /\ j.page = "home" /\ j.old = p
  BY NoJobTyped DEF Jobs, NoJob
<1>2. Ask(t, j, "find") /\ excused' = excused
  BY DEF HandleLogin
<1> HIDE DEF j
<1> QED
  BY <1>1, <1>2, AskStep DEF Inv, HistoryOK

LEMMA ChangeStep ==
    ASSUME Inv, NEW t \in Browsers, NEW u \in Users, NEW p \in Passwords,
           NEW q \in Passwords, HandleCHPWD(t, u, p, q)
    PROVE  Inv'
<1> DEFINE j == [NoJob EXCEPT !.op = "chpwd", !.user = u, !.uid = "password", !.old = p,
                              !.value = q]
<1>1. /\ j \in Jobs /\ j.user = u /\ j.op = "chpwd" /\ j.uid = "password"
      /\ j.page = "home" /\ j.old = p
  BY NoJobTyped DEF Jobs, NoJob
<1>2. Ask(t, j, "find") /\ excused' = excused
  BY DEF HandleCHPWD
<1> HIDE DEF j
<1> QED
  BY <1>1, <1>2, AskStep DEF Inv, HistoryOK

LEMMA SendStep ==
    ASSUME Inv, NEW t \in Browsers, NEW to \in Receivers, NEW m \in WebMails,
           HandleSendEmail(t, to, m)
    PROVE  Inv'
<1> DEFINE j == [NoJob EXCEPT !.op = "send", !.user = Head(to), !.uid = m, !.all = to,
                              !.to = Tail(to)]
<1>1. to \in Seq(Users) /\ to # <<>>
  BY DEF Receivers, SeqOf
<1>2. /\ Head(to) \in Users /\ Tail(to) \in Seq(Users)
      /\ \A u \in ToSet(to) : u = Head(to) \/ u \in ToSet(Tail(to))
  BY <1>1, HeadAndTail
<1>3. /\ j \in Jobs /\ j.user = Head(to) /\ j.op = "send" /\ j.uid = m
      /\ j.page = "home" /\ j.all = to /\ j.to = Tail(to) /\ m \in Mails
  BY <1>1, <1>2, NoJobTyped DEF Jobs, NoJob, Mails
<1>4. Ask(t, j, "external") /\ excused' = excused
  BY DEF HandleSendEmail
<1> HIDE DEF j
<1> QED
  BY <1>2, <1>3, <1>4, AskStep DEF Inv, HistoryOK

LEMMA DeleteStep ==
    ASSUME Inv, NEW t \in Browsers, NEW u \in Users, NEW m \in Mails,
           HandleDELETE(t, u, m)
    PROVE  Inv'
<1> DEFINE j == [NoJob EXCEPT !.op = "delete", !.user = u, !.uid = m]
<1>1. /\ j \in Jobs /\ j.user = u /\ j.op = "delete" /\ j.uid = m
      /\ j.page = "home" /\ KeyOf(j) = [user |-> u, uid |-> m]
  BY NoJobTyped DEF Jobs, NoJob, KeyOf
<1>2. Ask(t, j, "choose") /\ excused' = excused \cup {[user |-> u, uid |-> m]}
  BY DEF HandleDELETE
<1> HIDE DEF j
<1> QED
  BY <1>1, <1>2, AskStep DEF Inv, HistoryOK

-----------------------------------------------------------------------------
(* The calls that change no store. *)
LEMMA GotoMoves ==
    ASSUME ThreadsOK, NEW t \in Threads, NEW c \in Steps, Goto(t, c)
    PROVE  /\ pc' \in [Threads -> Steps] /\ job' \in [Threads -> Jobs]
           /\ Others(t) /\ pc'[t] = c /\ job' = job
BY DEF ThreadsOK, Goto, Others

LEMMA AnswerMoves ==
    ASSUME ThreadsOK, NEW t \in Threads, NEW page \in {"inbox", "success", "failed"},
           Answer(t, page)
    PROVE  /\ pc' \in [Threads -> Steps] /\ job' \in [Threads -> Jobs]
           /\ Others(t) /\ pc'[t] = "idle" /\ job'[t].page = page
<1>1. [NoJob EXCEPT !.page = page] \in Jobs /\ [NoJob EXCEPT !.page = page].page = page
  BY NoJobTyped DEF NoJob, Jobs
<1>2. "idle" \in Steps
  BY DEF Steps
<1> QED
  BY <1>1, <1>2 DEF ThreadsOK, Answer, Others

LEMMA GroupMoves ==
    ASSUME ThreadsOK, NEW t \in Threads, NEW c \in Steps, NEW g \in Groups,
           pc' = [pc EXCEPT ![t] = c], job' = [job EXCEPT ![t].group = g]
    PROVE  /\ pc' \in [Threads -> Steps] /\ job' \in [Threads -> Jobs]
           /\ Others(t) /\ pc'[t] = c /\ job'[t] = [job[t] EXCEPT !.group = g]
<1>1. job[t] \in Jobs /\ [job[t] EXCEPT !.group = g] \in Jobs
  BY DEF ThreadsOK, Jobs
<1> QED
  BY <1>1 DEF ThreadsOK, Others

LEMMA QuietStep ==
    ASSUME Inv, NEW t \in Threads, pc[t] # "idle", Others(t),
           UNCHANGED <<stores, gates, history>>,
           pc' \in [Threads -> Steps], job' \in [Threads -> Jobs],
           held' = Noted,
           pc'[t] # "idle" => Doing(t)'
    PROVE  Inv'
<1>1. sent' = sent /\ excused' = excused /\ UNCHANGED stores /\ UNCHANGED gates
  BY DEF history
<1>2. StoresOK' /\ Evolves /\ ListedReadable' /\ SentListed'
  BY <1>1, StoresStay, SentStays
<1>3. ThreadsOK' /\ \A s \in Threads : Working(s)'
  BY <1>2, NotedSteps
<1>4. GateOK'
  BY <1>1, GateStays
<1>5. HistoryOK'
  BY <1>1 DEF Inv, HistoryOK
<1> QED
  BY <1>2, <1>3, <1>4, <1>5 DEF Inv

LEMMA ExternalStep ==
    ASSUME Inv, NEW t \in Browsers, External_SMTP(t)
    PROVE  Inv'
<1>1. /\ t \in Threads /\ pc[t] = "external" /\ held' = Noted
      /\ UNCHANGED <<stores, gates, history>> /\ ThreadsOK
  BY Constants DEF External_SMTP, Inv
<1>2. CASE Goto(t, "find")
  <2>1. /\ pc' \in [Threads -> Steps] /\ job' \in [Threads -> Jobs]
        /\ Others(t) /\ pc'[t] = "find" /\ job' = job
    BY <1>1, <1>2, GotoMoves DEF Steps
  <2>2. Doing(t)'
    BY <1>1, <2>1 DEF Inv, Working, Doing, JobOK, Deleting, Written, Reached, Allowed,
        history, stores, KeyOf
  <2> QED
    BY <1>1, <2>1, <2>2, QuietStep
<1>3. CASE Answer(t, "failed")
  BY <1>1, <1>3, AnswerMoves, QuietStep
<1> QED
  BY <1>2, <1>3 DEF External_SMTP

LEMMA GetUserStep ==
    ASSUME Inv, NEW t \in Browsers, GetUser(t)
    PROVE  Inv'
<1>1. /\ t \in Threads /\ pc[t] = "verify" /\ held' = Noted
      /\ UNCHANGED <<stores, gates, history>> /\ ThreadsOK /\ Doing(t) /\ Known(t)
  BY Constants DEF GetUser, Inv, Working
<1>2. PICK real \in {password[job[t].group][job[t].user], None} :
        IF real # job[t].old THEN Answer(t, "failed")
        ELSE IF job[t].op = "chpwd" THEN Goto(t, "choose") ELSE Answer(t, "success")
  BY DEF GetUser
<1>3. CASE Answer(t, "failed") \/ Answer(t, "success")
  BY <1>1, <1>3, AnswerMoves, QuietStep
<1>4. CASE real = job[t].old /\ job[t].op = "chpwd" /\ Goto(t, "choose")
  <2>1. /\ pc' \in [Threads -> Steps] /\ job' \in [Threads -> Jobs]
        /\ Others(t) /\ pc'[t] = "choose" /\ job' = job
    BY <1>1, <1>4, GotoMoves DEF Steps
  <2>2. job[t].old \in Passwords /\ job[t].uid = "password" /\ job[t].user \in Users
    BY <1>1, <1>4 DEF Doing, Allowed, JobOK
  <2>3. job[t].group \in Groups
    BY <1>1 DEF Doing, JobOK
  <2>4. job[t].old \in PasswordsOf(job[t].user)
    BY <1>4, <2>2, <2>3, Constants DEF PasswordsOf
  <2>5. job[t].old \in held'[t]
    <3>1. job[t].old \in held[t]
      BY <1>1, <2>2, <2>4 DEF Known
    <3>2. pc'[t] # "idle" /\ job'[t].uid = "password"
      BY <2>1, <2>2
    <3>3. Noted[t] = held[t] \cup [u \in Users |-> PasswordsOf(u)'][job'[t].user]
      BY <1>1, <3>2 DEF Noted
    <3> QED
      BY <1>1, <3>1, <3>3
  <2>6. Doing(t)'
    BY <1>1, <1>4, <2>1, <2>2, <2>5 DEF Doing, JobOK, Deleting, Written, Reached, Allowed,
        history, stores, KeyOf
  <2> QED
    BY <1>1, <2>1, <2>6, QuietStep
<1> QED
  BY <1>2, <1>3, <1>4

LEMMA ChooseStep ==
    ASSUME Inv, NEW t \in Threads, Choose(t)
    PROVE  Inv'
<1>1. /\ pc[t] = "choose" /\ held' = Noted
      /\ UNCHANGED <<stores, gates, history>> /\ ThreadsOK /\ Doing(t) /\ Known(t)
  BY DEF Choose, Inv, Working
<1>2. PICK g \in chooseServerGroup(KeyOf(job[t])) : job' = [job EXCEPT ![t].group = g]
  BY DEF Choose
<1>3. g \in Groups
  BY DEF chooseServerGroup, Inv, StoresOK
<1>4. /\ pc' \in [Threads -> Steps] /\ job' \in [Threads -> Jobs]
      /\ Others(t) /\ pc'[t] = "store" /\ job'[t] = [job[t] EXCEPT !.group = g]
  <2>1. pc' = [pc EXCEPT ![t] = "store"] /\ "store" \in Steps
    BY DEF Choose, Steps
  <2> QED
    BY <1>1, <1>2, <1>3, <2>1, GroupMoves
<1>5. Doing(t)'
  <2>1. /\ job'[t].op = job[t].op /\ job'[t].user = job[t].user /\ job'[t].uid = job[t].uid
        /\ job'[t].old = job[t].old /\ job'[t].all = job[t].all /\ job'[t].to = job[t].to
        /\ job'[t].page = job[t].page /\ job'[t].group = g
    BY <1>1, <1>4 DEF ThreadsOK, Jobs
  <2>2. JobOK(t)' /\ Deleting(t)' /\ Written(t)' /\ Reached(t)' /\ job'[t].page = "home"
    BY <1>1, <1>3, <1>4, <2>1 DEF Doing, JobOK, Deleting, Written, Reached,
        history, stores, KeyOf
  <2>3. job[t].op \in {"register", "chpwd"} => held[t] \subseteq held'[t]
    <3>1. SUFFICES ASSUME job[t].op \in {"register", "chpwd"}
                   PROVE  held[t] \subseteq held'[t]
      OBVIOUS
    <3>2. job[t].uid = "password"
      BY <1>1, <3>1 DEF Doing, JobOK
    <3>3. Noted[t] = held[t] \cup [u \in Users |-> PasswordsOf(u)'][job'[t].user]
      BY <1>4, <2>1, <3>2 DEF Noted
    <3> QED
      BY <1>1, <3>3
  <2>4. Allowed(t)'
    BY <1>1, <2>1, <2>3 DEF Doing, Allowed
  <2> QED
    BY <2>2, <2>4 DEF Doing
<1> QED
  BY <1>1, <1>4, <1>5, QuietStep

LEMMA RequestReadStep ==
    ASSUME Inv, NEW t \in Browsers, RequestRead(t)
    PROVE  Inv'
<1> DEFINE j == job[t]
<1>1. /\ t \in Threads /\ pc[t] = "find" /\ UNCHANGED <<stores, gates, history>>
      /\ ThreadsOK /\ StoresOK /\ Doing(t) /\ Known(t) /\ j \in Jobs
  BY Constants DEF RequestRead, Inv, Working, ThreadsOK
<1>2. PICK found \in {Account(j.user) \in DOMAIN metadata, FALSE} :
        /\ CASE j.op = "register" /\ ~found -> Goto(t, "choose")
             [] j.op = "send" /\ found -> Goto(t, "choose")
             [] j.op \in {"login", "chpwd"} /\ found ->
                  /\ job' = [job EXCEPT ![t].group = metadata[Account(j.user)]]
                  /\ pc' = [pc EXCEPT ![t] = "verify"]
             [] OTHER -> Answer(t, "failed")
        /\ held' = IF found \/ pc'[t] = "idle" THEN Noted
                   ELSE [Noted EXCEPT ![t] = @ \cup {None}]
  BY DEF RequestRead
<1>3. CASE j.op = "register" /\ ~found
  <2>1. Goto(t, "choose")
    BY <1>2, <1>3
  <2>2. /\ pc' \in [Threads -> Steps] /\ job' \in [Threads -> Jobs]
        /\ Others(t) /\ pc'[t] = "choose" /\ job' = job
    BY <1>1, <2>1, GotoMoves DEF Steps
  <2>3. sent' = sent /\ excused' = excused /\ UNCHANGED stores /\ UNCHANGED gates
    BY <1>1 DEF history
  <2>4. StoresOK' /\ Evolves /\ ListedReadable' /\ SentListed'
    BY <2>3, StoresStay, SentStays
  <2>5. held' = [Noted EXCEPT ![t] = @ \cup {None}]
    BY <1>2, <1>3, <2>2
  <2>6. ASSUME NEW s \in Threads PROVE Noted[s] \subseteq Passwords \cup {None}
    <3>1. pc'[s] # "idle" => job'[s].user \in Users
      BY <1>1, <2>2 DEF Inv, Working, Doing, JobOK, Others
    <3> QED
      BY <1>1, <2>4, <3>1, NotedTyped
  <2>7. Noted = [s \in Threads |-> Noted[s]]
    BY DEF Noted
  <2>8. /\ held' \in [Threads -> SUBSET (Passwords \cup {None})]
        /\ \A s \in Threads : Noted[s] \subseteq held'[s]
        /\ None \in held'[t]
    BY <1>1, <2>5, <2>6, <2>7
  <2>9. Doing(t)'
    BY <1>1, <1>3, <2>2, <2>3, <2>8 DEF Doing, JobOK, Deleting, Written, Reached, Allowed,
        stores, KeyOf
  <2>10. ThreadsOK' /\ \A s \in Threads : Working(s)'
    BY <1>1, <2>2, <2>4, <2>8, <2>9, ThreadSteps
  <2>11. GateOK'
    BY <1>1, <2>2, <2>3, GateStays
  <2>12. HistoryOK'
    BY <2>3 DEF Inv, HistoryOK
  <2> QED
    BY <2>4, <2>10, <2>11, <2>12 DEF Inv
<1>4. CASE j.op = "send" /\ found
  <2>1. Goto(t, "choose") /\ held' = Noted
    BY <1>2, <1>4
  <2>2. /\ pc' \in [Threads -> Steps] /\ job' \in [Threads -> Jobs]
        /\ Others(t) /\ pc'[t] = "choose" /\ job' = job
    BY <1>1, <2>1, GotoMoves DEF Steps
  <2>3. Doing(t)'
    BY <1>1, <1>4, <2>2 DEF Doing, JobOK, Deleting, Written, Reached, Allowed,
        history, stores, KeyOf
  <2> QED
    BY <1>1, <2>1, <2>2, <2>3, QuietStep
<1>5. CASE j.op \in {"login", "chpwd"} /\ found
  <2>1. /\ job' = [job EXCEPT ![t].group = metadata[Account(j.user)]]
        /\ pc' = [pc EXCEPT ![t] = "verify"]
        /\ held' = Noted
    BY <1>2, <1>5
  <2>2. metadata[Account(j.user)] \in Groups
    BY <1>1, <1>2, <1>5 DEF StoresOK
  <2>3. /\ pc' \in [Threads -> Steps] /\ job' \in [Threads -> Jobs]
        /\ Others(t) /\ pc'[t] = "verify"
        /\ job'[t] = [job[t] EXCEPT !.group = metadata[Account(j.user)]]
    BY <1>1, <2>1, <2>2, GroupMoves DEF Steps
  <2>4. /\ job'[t].op = j.op /\ job'[t].user = j.user /\ job'[t].uid = j.uid
        /\ job'[t].old = j.old /\ job'[t].page = j.page /\ job'[t].group \in Groups
    BY <1>1, <2>2, <2>3 DEF Jobs
  <2>5. Doing(t)'
    BY <1>1, <1>5, <2>3, <2>4 DEF Doing, JobOK, Deleting, Written, Reached, Allowed
  <2> QED
    BY <1>1, <2>1, <2>3, <2>5, QuietStep
<1>6. CASE /\ ~(j.op = "register" /\ ~found) /\ ~(j.op = "send" /\ found)
           /\ ~(j.op \in {"login", "chpwd"} /\ found)
  <2>1. Answer(t, "failed")
    BY <1>2, <1>6
  <2>2. /\ pc' \in [Threads -> Steps] /\ job' \in [Threads -> Jobs]
        /\ Others(t) /\ pc'[t] = "idle"
    BY <1>1, <2>1, AnswerMoves
  <2>3. held' = Noted
    BY <1>2, <2>2
  <2> QED
    BY <1>1, <2>2, <2>3, QuietStep
<1> QED
  BY <1>3, <1>4, <1>5, <1>6

-----------------------------------------------------------------------------
(* The writes. *)
LEMMA ReceiverMoves ==
    ASSUME Inv, NEW t \in Threads, pc[t] \in {"store", "record"},
           job[t].op \in {"send", "relay"}, NextReceiver(t), Evolves,
           excused' \subseteq [user : Users, uid : Mails],
           KeyOf(job[t]) \in DOMAIN metadata' \cup excused'
    PROVE  /\ pc' \in [Threads -> Steps] /\ job' \in [Threads -> Jobs] /\ Others(t)
           /\ pc'[t] # "idle" => Doing(t)'
           /\ HistoryOK' /\ SentListed'
<1> DEFINE j == job[t]
<1>1. /\ ThreadsOK /\ Doing(t) /\ j \in Jobs /\ JobOK(t) /\ Reached(t)
      /\ j.all \in Seq(Users) /\ j.to \in Seq(Users)
      /\ j.user \in Users /\ j.uid \in Mails
  BY DEF Inv, Working, ThreadsOK, Doing, JobOK, Jobs
<1>2. ASSUME NEW u \in ToSet(j.all), u \notin ToSet(j.to)
      PROVE  [user |-> u, uid |-> j.uid] \in DOMAIN metadata' \cup excused'
  BY <1>1, <1>2 DEF Reached, Evolves, KeyOf
<1>3. CASE j.to = <<>>
  <2>1. /\ Answer(t, "success")
        /\ sent' = sent \cup {[user |-> u, uid |-> j.uid] : u \in ToSet(j.all)}
    BY <1>3 DEF NextReceiver
  <2>2. /\ pc' \in [Threads -> Steps] /\ job' \in [Threads -> Jobs] /\ Others(t)
        /\ pc'[t] = "idle"
    BY <1>1, <2>1, AnswerMoves
  <2>3. ToSet(j.to) = {}
    BY <1>3 DEF ToSet
  <2>4. \A u \in ToSet(j.all) : u \in Users
    BY <1>1 DEF ToSet
  <2>5. HistoryOK'
    BY <1>1, <2>1, <2>4 DEF Inv, HistoryOK
  <2>6. SentListed'
    BY <1>2, <2>1, <2>3 DEF Inv, SentListed, Evolves
  <2> QED
    BY <2>2, <2>5, <2>6
<1>4. CASE j.to # <<>>
  <2> DEFINE c == IF j.op = "send" THEN "find" ELSE "choose"
  <2>1. /\ job' = [job EXCEPT ![t].user = Head(j.to), ![t].to = Tail(j.to)]
        /\ pc' = [pc EXCEPT ![t] = c]
        /\ sent' = sent
    BY <1>4 DEF NextReceiver
  <2>2. /\ Head(j.to) \in Users /\ Tail(j.to) \in Seq(Users)
        /\ \A u \in ToSet(j.to) : u = Head(j.to) \/ u \in ToSet(Tail(j.to))
    BY <1>1, <1>4, HeadAndTail
  <2>3. /\ job'[t] = [j EXCEPT !.user = Head(j.to), !.to = Tail(j.to)]
        /\ pc'[t] = c /\ Others(t)
    BY <1>1, <2>1 DEF ThreadsOK, Others
  <2>4. /\ job'[t] \in Jobs /\ job'[t].op = j.op /\ job'[t].user = Head(j.to)
        /\ job'[t].to = Tail(j.to) /\ job'[t].all = j.all /\ job'[t].uid = j.uid
        /\ job'[t].page = j.page
    BY <1>1, <2>2, <2>3 DEF Jobs
  <2>5. c \in Steps /\ c \in {"find", "choose"}
    BY DEF Steps
  <2>6. pc' \in [Threads -> Steps] /\ job' \in [Threads -> Jobs]
    BY <1>1, <2>1, <2>3, <2>4, <2>5 DEF ThreadsOK, Others
  <2>7. JobOK(t)' /\ Deleting(t)' /\ Written(t)' /\ Allowed(t)' /\ job'[t].page = "home"
    BY <1>1, <2>2, <2>3, <2>4, <2>5 DEF Doing, JobOK, Deleting, Written, Allowed
  <2>8. Reached(t)'
    BY <1>2, <2>2, <2>4 DEF Reached
  <2>9. HistoryOK' /\ SentListed'
    BY <2>1, SentStays DEF Inv, HistoryOK
  <2> QED
    BY <2>3, <2>6, <2>7, <2>8, <2>9 DEF Doing
<1> QED
  BY <1>3, <1>4

LEMMA HandleTyped ==
    ASSUME Inv, NEW t \in Threads, pc[t] = "store", Handle(job[t]), metadata' = metadata
    PROVE  /\ StoresOK'
           /\ \A g \in Groups : \A k \in mails[g] :
                k \in mails'[g] \/ (job[t].op = "delete" /\ k = KeyOf(job[t]))
           /\ job[t].op \in {"send", "relay"} => KeyOf(job[t]) \in mails'[job[t].group]
<1> DEFINE j == job[t]
<1>1. /\ StoresOK /\ JobOK(t) /\ j \in Jobs /\ j.user \in Users /\ j.group \in Groups
      /\ Deleting(t)
  BY DEF Inv, Working, ThreadsOK, Doing, JobOK
<1>2. password' \in [Groups -> [Users -> Passwords \cup {None}]]
  <2>1. j.value \in Passwords \cup {None}
    BY <1>1 DEF Jobs
  <2> QED
    BY <1>1, <2>1 DEF Handle, StoresOK
<1>3. CASE j.op \in {"send", "relay"}
  <2>1. mails' = [mails EXCEPT ![j.group] = @ \cup {KeyOf(j)}]
    BY <1>3 DEF Handle
  <2>2. KeyOf(j) \in [user : Users, uid : Mails]
    BY <1>1, <1>3 DEF JobOK, KeyOf
  <2>3. mails' \in [Groups -> SUBSET [user : Users, uid : Mails]]
    BY <1>1, <2>1, <2>2 DEF StoresOK
  <2> QED
    BY <1>1, <1>2, <1>3, <2>1, <2>3 DEF StoresOK
<1>4. CASE j.op = "delete"
  <2>1. mails' = [mails EXCEPT ![j.group] = @ \ {KeyOf(j)}]
    BY <1>4 DEF Handle
  <2>2. mails' \in [Groups -> SUBSET [user : Users, uid : Mails]]
    BY <1>1, <2>1 DEF StoresOK
  <2> QED
    BY <1>1, <1>2, <1>4, <2>1, <2>2 DEF StoresOK
<1>5. CASE j.op \notin {"send", "relay", "delete"}
  <2>1. mails' = mails
    BY <1>5 DEF Handle
  <2> QED
    BY <1>1, <1>2, <1>5, <2>1 DEF StoresOK
<1> QED
  BY <1>3, <1>4, <1>5

(* A write fails: what follows for the handler, wherever the mails are now. *)
LEMMA FailedMoves ==
    ASSUME Inv, NEW t \in Threads, pc[t] = "store", Failed(t), metadata' = metadata,
           \A g \in Groups : \A k \in mails[g] :
                k \in mails'[g] \/ (job[t].op = "delete" /\ k = KeyOf(job[t]))
    PROVE  /\ pc' \in [Threads -> Steps] /\ job' \in [Threads -> Jobs] /\ Others(t)
           /\ pc'[t] # "idle" => Doing(t)'
           /\ HistoryOK' /\ SentListed' /\ Evolves
<1>1. /\ Deleting(t) /\ HistoryOK /\ JobOK(t) /\ ThreadsOK
  BY DEF Inv, Working, Doing
<1>2. CASE job[t].op = "relay"
  <2>1. NextReceiver(t) /\ excused' = excused \cup {KeyOf(job[t])}
    BY <1>2 DEF Failed
  <2>2. KeyOf(job[t]) \in [user : Users, uid : Mails]
    BY <1>1, <1>2 DEF JobOK, KeyOf
  <2>3. excused' \subseteq [user : Users, uid : Mails]
    BY <1>1, <2>1, <2>2 DEF HistoryOK
  <2>4. Evolves
    BY <1>1, <1>2, <2>1 DEF Evolves
  <2> QED
    BY <1>2, <2>1, <2>3, <2>4, ReceiverMoves
<1>3. CASE job[t].op # "relay"
  <2>1. /\ Answer(t, IF job[t].op = "delete" THEN "inbox" ELSE "failed")
        /\ sent' = sent /\ excused' = excused
    BY <1>3 DEF Failed, history
  <2>2. Evolves
    BY <1>1, <2>1 DEF Evolves, Deleting
  <2>3. /\ pc' \in [Threads -> Steps] /\ job' \in [Threads -> Jobs] /\ Others(t)
        /\ pc'[t] = "idle"
    BY <1>1, <2>1, AnswerMoves
  <2>4. HistoryOK' /\ SentListed'
    BY <1>1, <2>1, <2>2, SentStays DEF HistoryOK
  <2> QED
    BY <2>2, <2>3, <2>4
<1> QED
  BY <1>2, <1>3

LEMMA ListsStay ==
    ASSUME Inv, Evolves, metadata' = metadata
    PROVE  ListedReadable'
BY DEF Inv, ListedReadable, Readable, Evolves, StoresOK

LEMMA FailedStep ==
    ASSUME Inv, NEW t \in Threads, pc[t] = "store", Failed(t),
           StoresOK', UNCHANGED <<metadata, gates>>, held' = Noted,
           \A g \in Groups : \A k \in mails[g] :
                k \in mails'[g] \/ (job[t].op = "delete" /\ k = KeyOf(job[t]))
    PROVE  Inv'
<1>1. /\ pc' \in [Threads -> Steps] /\ job' \in [Threads -> Jobs] /\ Others(t)
      /\ pc'[t] # "idle" => Doing(t)'
      /\ HistoryOK' /\ SentListed' /\ Evolves
  BY FailedMoves
<1>2. ThreadsOK' /\ \A s \in Threads : Working(s)'
  BY <1>1, NotedSteps
<1>3. GateOK'
  BY <1>1, GateStays
<1>4. ListedReadable'
  BY <1>1, ListsStay
<1> QED
  BY <1>1, <1>2, <1>3, <1>4 DEF Inv

LEMMA AnswerLostStep ==
    ASSUME Inv, NEW t \in Threads, AnswerLost(t)
    PROVE  Inv'
<1>1. /\ pc[t] = "store" /\ Handle(job[t]) /\ Failed(t)
      /\ UNCHANGED <<metadata, gates>> /\ held' = Noted
  BY DEF AnswerLost
<1> QED
  BY <1>1, HandleTyped, FailedStep

LEMMA StoreStep ==
    ASSUME Inv, NEW t \in Threads, Store(t)
    PROVE  Inv'
<1>1. /\ pc[t] = "store" /\ UNCHANGED <<metadata, gates>> /\ held' = Noted
      /\ metadata' = metadata /\ UNCHANGED gates
  BY DEF Store
<1>2. CASE Handle(job[t]) /\ Goto(t, "record") /\ UNCHANGED history
  <2>1. /\ StoresOK'
        /\ \A g \in Groups : \A k \in mails[g] :
                k \in mails'[g] \/ (job[t].op = "delete" /\ k = KeyOf(job[t]))
        /\ job[t].op \in {"send", "relay"} => KeyOf(job[t]) \in mails'[job[t].group]
    BY <1>1, <1>2, HandleTyped
  <2>2. /\ ThreadsOK /\ Doing(t) /\ sent' = sent /\ excused' = excused
    BY <1>1, <1>2 DEF Inv, Working, history
  <2>3. /\ pc' \in [Threads -> Steps] /\ job' \in [Threads -> Jobs]
        /\ Others(t) /\ pc'[t] = "record" /\ job' = job
    BY <1>2, <2>2, GotoMoves DEF Steps
  <2>4. Evolves
    BY <1>1, <2>1, <2>2 DEF Evolves, Doing, Deleting
  <2>5. job[t].op \in {"register", "chpwd"} => held[t] \subseteq held'[t]
    <3>1. SUFFICES ASSUME job[t].op \in {"register", "chpwd"}
                   PROVE  held[t] \subseteq held'[t]
      OBVIOUS
    <3>2. job'[t].uid = "password"
      BY <2>2, <2>3, <3>1 DEF Doing, JobOK
    <3>3. Noted[t] = held[t] \cup [u \in Users |-> PasswordsOf(u)'][job'[t].user]
      BY <2>3, <3>2 DEF Noted
    <3> QED
      BY <1>1, <3>3
  <2>6. Doing(t)'
    BY <1>1, <2>1, <2>2, <2>3, <2>4, <2>5
    DEF Doing, JobOK, Deleting, Written, Reached, Allowed, KeyOf
  <2>7. ThreadsOK' /\ \A s \in Threads : Working(s)'
    BY <1>1, <2>1, <2>3, <2>4, <2>6, NotedSteps
  <2>8. GateOK'
    BY <1>1, <2>3, GateStays
  <2>9. HistoryOK' /\ SentListed' /\ ListedReadable'
    BY <1>1, <2>2, <2>4, SentStays, ListsStay DEF Inv, HistoryOK
  <2> QED
    BY <2>1, <2>7, <2>8, <2>9 DEF Inv
<1>3. CASE Failed(t) /\ UNCHANGED <<password, mails>>
  <2>1. StoresOK'
    BY <1>1, <1>3 DEF Inv, StoresOK
  <2> QED
    BY <1>1, <1>3, <2>1, FailedStep
<1> QED
  BY <1>2, <1>3 DEF Store

LEMMA RecordStep ==
    ASSUME Inv, NEW t \in Threads, Record(t)
    PROVE  Inv'
<1> DEFINE j == job[t]
           k == KeyOf(j)
<1>1. /\ pc[t] = "record" /\ UNCHANGED <<password, mails, gates, excused>> /\ held' = Noted
      /\ password' = password /\ mails' = mails /\ excused' = excused /\ UNCHANGED gates
      /\ metadata' = IF j.op = "delete"
                     THEN [l \in DOMAIN metadata \ {k} |-> metadata[l]]
                     ELSE Recorded(k, j.group)
  BY DEF Record
<1>2. /\ ThreadsOK /\ StoresOK /\ HistoryOK /\ Doing(t) /\ JobOK(t) /\ Deleting(t)
      /\ Written(t) /\ j.user \in Users /\ j.group \in Groups
  BY <1>1 DEF Inv, Working, Doing, JobOK
<1>3. k \in Keys /\ k.uid = j.uid
  BY <1>2 DEF JobOK, KeyOf, Keys
<1>4. StoresOK'
  BY <1>1, <1>2, <1>3 DEF StoresOK, Recorded
<1>5. Evolves
  BY <1>1, <1>2 DEF Evolves, Deleting, Recorded
<1>6. ListedReadable'
  <2>1. SUFFICES ASSUME NEW l \in DOMAIN metadata', l.uid # "password"
                 PROVE  Readable(l)' \/ l \in excused'
    BY DEF ListedReadable
  <2>2. CASE j.op = "delete"
    BY <1>1, <2>1, <2>2 DEF Inv, ListedReadable, Readable
  <2>3. CASE j.op # "delete" /\ l # k
    BY <1>1, <2>1, <2>3 DEF Inv, ListedReadable, Readable, Recorded
  <2>4. CASE j.op # "delete" /\ l = k
    <3>1. j.op \in {"send", "relay"}
      <4>1. j \in Jobs /\ j.uid # "password"
        BY <1>2, <1>3, <2>1, <2>4 DEF ThreadsOK
      <4> QED
        BY <1>2, <2>4, <4>1 DEF JobOK, Jobs
    <3>2. k \in mails[j.group] \cup excused
      BY <1>1, <1>2, <3>1 DEF Written
    <3>3. metadata'[k] = j.group
      BY <1>1, <2>4 DEF Recorded
    <3> QED
      BY <1>1, <2>1, <2>4, <3>2, <3>3 DEF Readable
  <2> QED
    BY <2>2, <2>3, <2>4
<1>7. /\ pc' \in [Threads -> Steps] /\ job' \in [Threads -> Jobs] /\ Others(t)
      /\ pc'[t] # "idle" => Doing(t)'
      /\ HistoryOK' /\ SentListed'
  <2>1. CASE j.op \in {"send", "relay"}
    <3>1. NextReceiver(t)
      BY <2>1 DEF Record
    <3>2. k \in DOMAIN metadata'
      BY <1>1, <2>1 DEF Recorded
    <3>3. excused' \subseteq [user : Users, uid : Mails]
      BY <1>1, <1>2 DEF HistoryOK
    <3> QED
      BY <1>1, <1>5, <2>1, <3>1, <3>2, <3>3, ReceiverMoves
  <2>2. CASE j.op \notin {"send", "relay"}
    <3>1. PICK page \in {"inbox", "success"} : Answer(t, page) /\ sent' = sent
      BY <2>2 DEF Record
    <3>2. /\ pc' \in [Threads -> Steps] /\ job' \in [Threads -> Jobs] /\ Others(t)
          /\ pc'[t] = "idle"
      BY <1>2, <3>1, AnswerMoves
    <3>3. HistoryOK' /\ SentListed'
      BY <1>1, <1>2, <1>5, <3>1, SentStays DEF HistoryOK
    <3> QED
      BY <3>2, <3>3
  <2> QED
    BY <2>1, <2>2
<1>8. ThreadsOK' /\ \A s \in Threads : Working(s)'
  BY <1>1, <1>4, <1>5, <1>7, NotedSteps
<1>9. GateOK'
  BY <1>1, <1>7, GateStays
<1> QED
  BY <1>4, <1>6, <1>7, <1>8, <1>9 DEF Inv

-----------------------------------------------------------------------------
(* The lines of a session. *)
LEMMA LineStays ==
    ASSUME Inv, Line, Others(gateway), pc'[gateway] # "idle" => Working(gateway)'
    PROVE  /\ StoresOK' /\ HistoryOK' /\ ListedReadable' /\ SentListed'
           /\ \A s \in Threads : Working(s)'
<1>1. /\ UNCHANGED stores /\ sent' = sent /\ excused' = excused /\ held' = held
      /\ metadata' = metadata /\ password' = password
  BY DEF Line, stores, history
<1>2. StoresOK' /\ Evolves /\ ListedReadable' /\ SentListed'
  BY <1>1, StoresStay, SentStays
<1>3. HistoryOK'
  BY <1>1 DEF Inv, HistoryOK
<1>4. ASSUME NEW s \in Threads PROVE Working(s)'
  <2>1. CASE s = gateway
    BY <2>1 DEF Working
  <2>2. CASE s # gateway
    <3>1. pc'[s] = pc[s] /\ job'[s] = job[s]
      BY <2>2 DEF Others
    <3>2. CASE pc[s] = "idle"
      BY <3>1, <3>2 DEF Working
    <3>3. CASE pc[s] # "idle"
      <4>1. Known(s)'
        BY <1>1, <3>1, <3>3 DEF Inv, Working, Known, PasswordsOf
      <4> QED
        BY <1>1, <1>2, <3>1, <3>3, <4>1, OthersWork
    <3> QED
      BY <3>2, <3>3
  <2> QED
    BY <2>1, <2>2
<1> QED
  BY <1>2, <1>3, <1>4

LEMMA SaysStep ==
    ASSUME Inv, Line, NEW state \in INITI..RCPT_DATA, NEW receivers \in Seq(Users),
           Says(state, receivers), Len(receivers) <= MaxReceivers,
           state = RCPT_DATA => receivers # <<>>
    PROVE  Inv'
<1>1. /\ pc' = pc /\ job' = job /\ requests' = requests /\ held' = held
      /\ smtp' = [state |-> state, receivers |-> receivers] /\ pc[gateway] = "idle"
  BY DEF Says, Line
<1>2. ThreadsOK'
  BY <1>1 DEF Inv, ThreadsOK
<1>3. GateOK'
  BY <1>1 DEF Inv, GateOK, INITI, RCPT_DATA, STATE_DATA
<1>4. Others(gateway)
  BY <1>1 DEF Others
<1> QED
  BY <1>1, <1>2, <1>3, <1>4, LineStays DEF Inv

LEMMA SessionStep ==
    ASSUME Inv,
           \/ handle_helo \/ ParseMailFrom \/ (\E u \in Users : ParseRcptTo(u))
           \/ Rset \/ Quit
    PROVE  Inv'
<1>1. /\ GateOK /\ smtp.receivers \in Seq(Users) /\ Len(smtp.receivers) <= MaxReceivers
  BY DEF Inv, GateOK
<1>0. PICK none \in Seq(Users) : none = <<>> /\ Len(none) <= MaxReceivers
  <2>1. <<>> \in Seq(Users) /\ Len(<<>>) <= MaxReceivers
    BY Constants
  <2> QED
    BY <2>1
<1>2. CASE handle_helo
  <2>1. Line /\ Says(HELO_MAIL, none) /\ HELO_MAIL \in INITI..RCPT_DATA /\ HELO_MAIL # RCPT_DATA
    BY <1>0, <1>2 DEF handle_helo, HELO_MAIL, INITI, RCPT_DATA
  <2> QED
    BY <1>0, <2>1, SaysStep
<1>3. CASE ParseMailFrom
  BY <1>1, <1>3, SaysStep DEF ParseMailFrom, MAIL_RCPT, INITI, RCPT_DATA
<1>4. ASSUME NEW u \in Users, ParseRcptTo(u) PROVE Inv'
  <2>1. /\ Append(smtp.receivers, u) \in Seq(Users) /\ Append(smtp.receivers, u) # <<>>
        /\ Len(Append(smtp.receivers, u)) <= MaxReceivers
    BY <1>1, <1>4, Constants DEF ParseRcptTo
  <2>2. RCPT_DATA \in INITI..RCPT_DATA
    BY DEF INITI, RCPT_DATA
  <2> QED
    BY <1>4, <2>1, <2>2, SaysStep DEF ParseRcptTo
<1>5. CASE Rset
  BY <1>1, <1>5, SaysStep DEF Rset, INITI, RCPT_DATA
<1>6. CASE Quit
  <2>1. Line /\ Says(INITI, none) /\ INITI \in INITI..RCPT_DATA /\ INITI # RCPT_DATA
    BY <1>0, <1>6 DEF Quit, INITI, RCPT_DATA
  <2> QED
    BY <1>0, <2>1, SaysStep
<1> QED
  BY <1>2, <1>3, <1>4, <1>5, <1>6

LEMMA DataStep ==
    ASSUME Inv, NEW m \in GateMails, WhetherStartData(m)
    PROVE  Inv'
<1>1. /\ Line /\ pc' = pc /\ held' = held /\ pc[gateway] = "idle"
      /\ smtp.state = RCPT_DATA /\ smtp' = [smtp EXCEPT !.state = STATE_DATA]
      /\ requests < MaxRequests /\ requests' = requests + 1
      /\ job' = [job EXCEPT ![gateway] = [NoJob EXCEPT !.uid = m]]
  BY DEF WhetherStartData, Line
<1>2. /\ m \in Mails /\ [NoJob EXCEPT !.uid = m] \in Jobs
      /\ [NoJob EXCEPT !.uid = m].uid = m /\ [NoJob EXCEPT !.uid = m].page = "home"
  BY NoJobTyped DEF Mails, NoJob, Jobs
<1>3. /\ ThreadsOK' /\ Others(gateway)
      /\ job'[gateway].uid \in Mails /\ job'[gateway].page = "home"
  BY <1>1, <1>2, Constants DEF Inv, ThreadsOK, Others
<1>4. GateOK'
  BY <1>1, <1>3, Constants DEF Inv, GateOK, INITI, RCPT_DATA, STATE_DATA
<1> QED
  BY <1>1, <1>3, <1>4, LineStays DEF Inv

LEMMA TextStep ==
    ASSUME Inv, Transmission_DATA
    PROVE  Inv'
<1> DEFINE j == job[gateway]
           to == smtp.receivers
           new == [j EXCEPT !.op = "relay", !.user = Head(to), !.all = to, !.to = Tail(to)]
<1>1. /\ Line /\ held' = held /\ pc[gateway] = "idle" /\ requests' = requests
      /\ smtp.state = STATE_DATA /\ smtp' = [smtp EXCEPT !.state = HELO_MAIL]
      /\ pc' = [pc EXCEPT ![gateway] = "choose"]
      /\ job' = [job EXCEPT ![gateway] = new]
  BY DEF Transmission_DATA, Line
<1>2. /\ GateOK /\ ThreadsOK /\ to \in Seq(Users) /\ to # <<>> /\ j.uid \in Mails
      /\ j.page = "home" /\ j \in Jobs /\ gateway \in Threads
  BY <1>1, Constants DEF Inv, GateOK, ThreadsOK
<1>3. /\ Head(to) \in Users /\ Tail(to) \in Seq(Users)
      /\ \A u \in ToSet(to) : u = Head(to) \/ u \in ToSet(Tail(to))
  BY <1>2, HeadAndTail
<1>4. /\ new \in Jobs /\ new.op = "relay" /\ new.user = Head(to) /\ new.all = to
      /\ new.to = Tail(to) /\ new.uid = j.uid /\ new.page = "home"
  BY <1>2, <1>3 DEF Jobs
<1> HIDE DEF new
<1>5. /\ ThreadsOK' /\ Others(gateway) /\ pc'[gateway] = "choose" /\ job'[gateway] = new
  <2>1. "choose" \in Steps
    BY DEF Steps
  <2> QED
    BY <1>1, <1>2, <1>4, <2>1 DEF ThreadsOK, Others
<1>6. GateOK'
  <2>1. smtp'.state = HELO_MAIL /\ smtp'.receivers = to
    BY <1>1, <1>2 DEF GateOK
  <2>2. smtp' \in [state : INITI..STATE_DATA, receivers : Seq(Users)]
    BY <1>1, <1>2 DEF GateOK, INITI, HELO_MAIL, STATE_DATA
  <2> QED
    BY <1>1, <1>2, <2>1, <2>2 DEF GateOK, HELO_MAIL, RCPT_DATA, STATE_DATA
<1>7. Working(gateway)'
  <2>1. JobOK(gateway)' /\ Known(gateway)'
    BY <1>2, <1>3, <1>4, <1>5, Constants DEF JobOK, Known
  <2>2. Deleting(gateway)' /\ Written(gateway)' /\ Allowed(gateway)'
    BY <1>4, <1>5 DEF Deleting, Written, Allowed
  <2>3. Reached(gateway)'
    BY <1>3, <1>4, <1>5 DEF Reached
  <2> QED
    BY <1>4, <1>5, <2>1, <2>2, <2>3 DEF Working, Doing
<1> QED
  BY <1>1, <1>5, <1>6, <1>7, LineStays DEF Inv

-----------------------------------------------------------------------------
LEMMA StutterStep == Inv /\ UNCHANGED vars => Inv'
<1> SUFFICES ASSUME Inv, UNCHANGED vars PROVE Inv'
  OBVIOUS
<1>1. /\ UNCHANGED stores /\ pc' = pc /\ job' = job /\ smtp' = smtp /\ requests' = requests
      /\ held' = held /\ sent' = sent /\ excused' = excused /\ metadata' = metadata
      /\ password' = password /\ mails' = mails
  BY DEF vars, gates, history, stores
<1>2. StoresOK' /\ Evolves /\ ListedReadable' /\ SentListed'
  BY <1>1, StoresStay, SentStays
<1>3. ThreadsOK' /\ HistoryOK' /\ GateOK'
  BY <1>1 DEF Inv, ThreadsOK, HistoryOK, GateOK
<1>4. ASSUME NEW s \in Threads PROVE Working(s)'
  <2>1. CASE pc[s] = "idle"
    BY <1>1, <2>1 DEF Working
  <2>2. CASE pc[s] # "idle"
    <3>1. Known(s)'
      BY <1>1, <2>2 DEF Inv, Working, Known, PasswordsOf
    <3> QED
      BY <1>1, <1>2, <2>2, <3>1, OthersWork
  <2> QED
    BY <2>1, <2>2
<1> QED
  BY <1>2, <1>3, <1>4 DEF Inv

LEMMA MailStep == Inv /\ [Next]_vars => Inv'
<1> SUFFICES ASSUME Inv, Next PROVE Inv'
  BY StutterStep
<1>1. ASSUME NEW t \in Browsers, NEW u \in Users, NEW p \in Passwords,
             HandleRegister(t, u, p) \/ HandleLogin(t, u, p)
      PROVE  Inv'
  BY <1>1, RegisterStep, LoginStep
<1>2. ASSUME NEW t \in Browsers, NEW u \in Users, NEW p \in Passwords, NEW q \in Passwords,
             HandleCHPWD(t, u, p, q)
      PROVE  Inv'
  BY <1>2, ChangeStep
<1>3. ASSUME NEW t \in Browsers, NEW to \in Receivers, NEW m \in WebMails,
             HandleSendEmail(t, to, m)
      PROVE  Inv'
  BY <1>3, SendStep
<1>4. ASSUME NEW t \in Browsers, NEW u \in Users, NEW m \in Mails, HandleDELETE(t, u, m)
      PROVE  Inv'
  BY <1>4, DeleteStep
<1>5. ASSUME NEW t \in Browsers, External_SMTP(t) \/ RequestRead(t) \/ GetUser(t)
      PROVE  Inv'
  BY <1>5, ExternalStep, RequestReadStep, GetUserStep
<1>6. ASSUME NEW t \in Threads, Choose(t) \/ Store(t) \/ AnswerLost(t) \/ Record(t)
      PROVE  Inv'
  BY <1>6, ChooseStep, StoreStep, AnswerLostStep, RecordStep
<1>7. CASE \/ handle_helo \/ ParseMailFrom \/ (\E u \in Users : ParseRcptTo(u))
           \/ Rset \/ Quit
  BY <1>7, SessionStep
<1>8. CASE Transmission_DATA
  BY <1>8, TextStep
<1>9. ASSUME NEW m \in GateMails, WhetherStartData(m) PROVE Inv'
  BY <1>9, DataStep
<1> QED
  BY <1>1, <1>2, <1>3, <1>4, <1>5, <1>6, <1>7, <1>8, <1>9 DEF Next

LEMMA MailInv == Spec => []Inv
  BY MailInit, MailStep, PTL DEF Spec

(* The accounts, mails, jobs and the session have their types whatever the *)
(* threads of the front end and the gateway (SMTP_external_to_bigtables.cc *)
(* worker) do: every write is on a key of the table and goes to a group,   *)
(* and the gateway takes a text only after a receiver.                     *)
THEOREM MailTyped == Spec => []TypeOK
<1>1. Inv => TypeOK
  BY DEF Inv, TypeOK, StoresOK, ThreadsOK, HistoryOK, GateOK, Working, Doing
<1> QED
  BY <1>1, MailInv, PTL

(* A mail that is listed can be read unless the user has asked for its     *)
(* deletion: RequestWrite (MasterServiceImpl.cc) notes a uid only after    *)
(* its group has it, and drops it only after the group has.                *)
THEOREM ListedReadableHolds == Spec => []ListedReadable
<1>1. Inv => ListedReadable
  BY DEF Inv
<1> QED
  BY <1>1, MailInv, PTL

(* A mail whose sending HandleSendEmail (httpservice.cc) or the gateway    *)
(* has acknowledged can be read by every receiver, for any number of       *)
(* receivers, groups and requests at a time.                               *)
THEOREM SentArrivesHolds == Spec => []SentArrives
<1>1. Inv => SentArrives
  <2>1. SUFFICES ASSUME Inv, NEW k \in sent \ excused PROVE Readable(k)
    BY DEF SentArrives
  <2>2. k \in DOMAIN metadata
    BY <2>1 DEF Inv, SentListed
  <2>3. k.uid # "password"
    BY <2>1, Constants DEF Inv, HistoryOK
  <2> QED
    BY <2>1, <2>2, <2>3 DEF Inv, ListedReadable
<1> QED
  BY <1>1, MailInv, PTL

(* A step of another thread, or none of thread t, leaves its page. *)
LEMMA LoginStepKept ==
    ASSUME Inv, [Next]_vars, NEW t \in Browsers,
           pc[t] = "verify", job[t].op = "login", job'[t].page = "success"
    PROVE  job[t].old \in held[t]
<1>1. /\ t \in Threads /\ t # gateway /\ Doing(t) /\ Known(t) /\ ThreadsOK
  BY Constants DEF Inv, Working
<1>2. CASE GetUser(t)
  <2>1. /\ job[t].old \in Passwords /\ job[t].uid = "password" /\ job[t].user \in Users
        /\ job[t].group \in Groups
    BY <1>1 DEF Doing, Allowed, JobOK
  <2>2. PICK real \in {password[job[t].group][job[t].user], None} :
          IF real # job[t].old THEN Answer(t, "failed")
          ELSE IF job[t].op = "chpwd" THEN Goto(t, "choose") ELSE Answer(t, "success")
    BY <1>2 DEF GetUser
  <2>3. real = job[t].old
    BY <1>1, <2>2, AnswerMoves
  <2>4. job[t].old \in PasswordsOf(job[t].user)
    BY <2>1, <2>2, <2>3, Constants DEF PasswordsOf
  <2> QED
    BY <1>1, <2>1, <2>4 DEF Known
<1>3. ASSUME job'[t] = job[t] PROVE FALSE
  BY <1>1, <1>3 DEF Doing
<1>4. ASSUME ~GetUser(t), Next PROVE job'[t] = job[t]
  <2>1. ASSUME NEW s \in Threads, NEW j, job' = [job EXCEPT ![s] = j], s # t
        PROVE  job'[t] = job[t]
    BY <1>1, <2>1 DEF ThreadsOK
  <2>2. ASSUME NEW s \in Browsers, NEW j, NEW c, Ask(s, j, c)
        PROVE  job'[t] = job[t]
    BY <2>1, <2>2, Constants DEF Ask
  <2>3. ASSUME NEW s \in Threads, s # t,
               (\E c \in Steps : Goto(s, c)) \/ (\E page : Answer(s, page)) \/ NextReceiver(s)
        PROVE  job'[t] = job[t]
    BY <1>1, <2>1, <2>3 DEF Goto, Answer, NextReceiver, ThreadsOK
  <2>4. ASSUME NEW s \in Browsers, External_SMTP(s) \/ RequestRead(s) \/ GetUser(s)
        PROVE  job'[t] = job[t]
    <3>1. s # t /\ s \in Threads
      BY <1>4, <2>4, Constants DEF External_SMTP, RequestRead
    <3>2. CASE External_SMTP(s)
      BY <2>3, <3>1, <3>2 DEF External_SMTP, Steps
    <3>3. CASE RequestRead(s)
      BY <1>1, <2>3, <3>1, <3>3 DEF RequestRead, Steps, ThreadsOK
    <3>4. CASE GetUser(s)
      BY <2>3, <3>1, <3>4 DEF GetUser, Steps
    <3> QED
      BY <2>4, <3>2, <3>3, <3>4
  <2>5. ASSUME NEW s \in Threads, Choose(s) \/ Store(s) \/ AnswerLost(s) \/ Record(s)
        PROVE  job'[t] = job[t]
    <3>1. s # t
      BY <2>5 DEF Choose, Store, AnswerLost, Record
    <3>2. CASE Choose(s)
      BY <1>1, <3>1, <3>2 DEF Choose, ThreadsOK
    <3>3. ASSUME Failed(s) PROVE job'[t] = job[t]
      BY <2>3, <3>1, <3>3 DEF Failed
    <3>4. CASE Store(s) \/ AnswerLost(s)
      BY <2>3, <3>1, <3>3, <3>4 DEF Store, AnswerLost, Steps
    <3>5. CASE Record(s)
      BY <2>3, <3>1, <3>5 DEF Record
    <3> QED
      BY <2>5, <3>2, <3>4, <3>5
  <2>6. CASE \/ handle_helo \/ ParseMailFrom \/ (\E u \in Users : ParseRcptTo(u))
             \/ Rset \/ Quit
    BY <2>6 DEF handle_helo, ParseMailFrom, ParseRcptTo, Rset, Quit, Says
  <2>7. CASE Transmission_DATA \/ \E m \in GateMails : WhetherStartData(m)
    BY <1>1, <2>7 DEF Transmission_DATA, WhetherStartData, ThreadsOK
  <2> QED
    BY <1>4, <2>2, <2>4, <2>5, <2>6, <2>7
    DEF Next, HandleRegister, HandleLogin, HandleCHPWD, HandleSendEmail, HandleDELETE
<1>5. CASE UNCHANGED vars
  BY <1>3, <1>5 DEF vars
<1> QED
  BY <1>2, <1>3, <1>4, <1>5

(* What changes the password of a user: the write of a registration or of  *)
(* a change, and the master's note of where it is.                         *)
LEMMA PasswordStepKept ==
    ASSUME Inv, [Next]_vars, NEW u \in Users, PasswordOf(u)' # PasswordOf(u)
    PROVE  \E t \in Browsers :
                /\ pc[t] \in {"store", "record"} /\ job[t].user = u
                /\ \/ job[t].op = "register" /\ None \in held[t]
                   \/ job[t].op = "chpwd" /\ job[t].old \in held[t]
<1>1. ~ UNCHANGED <<metadata, password>>
  BY DEF PasswordOf
<1>2. PICK t \in Threads : Store(t) \/ AnswerLost(t) \/ Record(t)
  <2>1. ASSUME UNCHANGED stores PROVE FALSE
    BY <1>1, <2>1 DEF stores
  <2>2. ASSUME Line PROVE FALSE
    BY <2>1, <2>2 DEF Line
  <2>3. ASSUME NEW s, NEW j, NEW c, Ask(s, j, c) PROVE FALSE
    BY <2>1, <2>3 DEF Ask
  <2>4. ASSUME NEW s, External_SMTP(s) \/ RequestRead(s) \/ GetUser(s) \/ Choose(s) PROVE FALSE
    BY <2>1, <2>4 DEF External_SMTP, RequestRead, GetUser, Choose
  <2>5. Next
    BY <2>1 DEF vars
  <2> QED
    BY <2>2, <2>3, <2>4, <2>5
    DEF Next, HandleRegister, HandleLogin, HandleCHPWD, HandleSendEmail, HandleDELETE,
        handle_helo, ParseMailFrom, ParseRcptTo, Rset, Quit, Transmission_DATA, WhetherStartData
<1> DEFINE j == job[t]
<1>3. /\ pc[t] \in {"store", "record"} /\ JobOK(t) /\ Allowed(t) /\ StoresOK /\ j \in Jobs
      /\ j.user \in Users /\ j.group \in Groups
  BY <1>2 DEF Store, AnswerLost, Record, Inv, Working, Doing, JobOK, ThreadsOK
<1>4. SUFFICES j.user = u /\ j.op \in {"register", "chpwd"}
  <2>1. ASSUME j.op \in {"register", "chpwd"} PROVE t \in Browsers
    BY <1>3, <2>1, Constants DEF JobOK
  <2> QED
    BY <1>3, <2>1 DEF Allowed
<1>5. CASE pc[t] = "store"
  <2>1. metadata' = metadata /\ (Handle(j) \/ password' = password)
    BY <1>2, <1>5 DEF Store, AnswerLost, Record
  <2>2. /\ password' = [password EXCEPT ![j.group][j.user] = j.value]
        /\ j.op \in {"register", "chpwd"}
    BY <1>1, <2>1 DEF Handle
  <2>3. ASSUME u # j.user PROVE FALSE
    <3>1. \A g \in Groups : password'[g][u] = password[g][u]
      BY <1>3, <2>2, <2>3 DEF StoresOK
    <3> QED
      BY <1>3, <2>1, <3>1 DEF PasswordOf, StoresOK
  <2> QED
    BY <2>2, <2>3
<1>6. CASE pc[t] = "record"
  <2> DEFINE k == KeyOf(j)
  <2>1. /\ password' = password
        /\ metadata' = IF j.op = "delete"
                       THEN [l \in DOMAIN metadata \ {k} |-> metadata[l]]
                       ELSE Recorded(k, j.group)
    BY <1>2, <1>6 DEF Store, AnswerLost, Record
  <2>2. k = Account(u)
    <3>1. SUFFICES ASSUME k # Account(u) PROVE FALSE
      OBVIOUS
    <3>2. /\ Account(u) \in DOMAIN metadata' <=> Account(u) \in DOMAIN metadata
          /\ Account(u) \in DOMAIN metadata =>
                metadata'[Account(u)] = metadata[Account(u)]
      BY <2>1, <3>1 DEF Recorded
    <3> QED
      BY <2>1, <3>2 DEF PasswordOf
  <2>3. j.user = u /\ j.uid = "password"
    BY <2>2 DEF KeyOf, Account
  <2>4. j.op \in {"register", "login", "chpwd"}
    BY <1>3, <2>3, Constants DEF JobOK
  <2> QED
    BY <1>3, <1>6, <2>3, <2>4 DEF Allowed
<1> QED
  BY <1>3, <1>5, <1>6

(* Nobody changes a password without having been let to, and nobody logs   *)
(* in with a password that was not the user's during the login, whichever  *)
(* requests of HandleRegister, HandleLogin and HandleCHPWD (httpservice.cc)*)
(* for the same name run at the same time.                                 *)
THEOREM AccountKeptHolds == Spec => AccountKept
<1>1. ASSUME Inv, [Next]_vars
      PROVE  [/\ \A u \in Users : PasswordOf(u)' # PasswordOf(u) =>
                    \E t \in Browsers :
                        /\ pc[t] \in {"store", "record"} /\ job[t].user = u
                        /\ \/ job[t].op = "register" /\ None \in held[t]
                           \/ job[t].op = "chpwd" /\ job[t].old \in held[t]
              /\ \A t \in Browsers :
                    pc[t] = "verify" /\ job[t].op = "login" /\ job'[t].page = "success"
                        => job[t].old \in held[t]]_vars
  BY <1>1, PasswordStepKept, LoginStepKept
<1> QED
  BY <1>1, MailInv, PTL DEF Spec, AccountKept

================================================================================
