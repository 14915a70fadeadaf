------------------------------ MODULE Recovery ------------------------------
(***************************************************************************)
(* Back-end servers of PennCloud that die, start again and recover while   *)
(* the group goes on working: the log (BE_server/Logger.cpp), the calls    *)
(* AskForPrimary and AskForLog, the replay in the constructor of           *)
(* WriteServiceImpl, and WriteCommand with RequestWrite of the master.     *)
(*                                                                         *)
(* Module Failover has the processes and the master's deques.  A write is  *)
(* named by its place among the requests of the master; each group numbers *)
(* its own.  Group 1 is the first of the configuration, there group 0: the *)
(* one whose primary the master names to every server that asks, for       *)
(* ServerToMasterClient sends no group.                                    *)
(*                                                                         *)
(* What a server does between its start and the constructor is external:   *)
(* its program is not in the repository, but the calls it can make are.    *)
(* The table is in memory, and a file is a cell of it.                     *)
(***************************************************************************)
EXTENDS Failover, FiniteSetsExt, SequencesExt

CONSTANTS
    Files,
    WriteTypes,     \* the types of the writes: PUT and DELETE, or one of them
    NoFile,         \* in place of a log that has not been made
    NotStored,      \* in place of the group of a file the master does not know
    LogsExist,      \* is there a log file before the first write?
    MaxWrites,      \* bound on the writes
    MaxDeaths,      \* bound on how often a server dies
    MaxOff          \* bound on the servers that do not run at a time

ASSUME RecoveryAssumption ==
    /\ WriteTypes \subseteq {"PUT", "DELETE"}
    /\ NoFile \notin Seq([write : Nat, seqNum : Nat, replicas : SUBSET Servers])
    /\ NotStored \notin Groups
    /\ LogsExist \in BOOLEAN
    /\ MaxWrites \in Nat /\ MaxDeaths \in Nat /\ MaxOff \in Nat

VARIABLES
    log,            \* the log file of each server, or NoFile
    lockKept,       \* the servers whose log_lock will not be released
    table,          \* the cells of each server
    recovery,       \* where each server is on its way back
    primary,        \* the primary it has been told of
    requestQueue,   \* the requests it has gathered
    metadataMap,    \* the group the master has recorded for each file
    seqNumMap,      \* the number of the next write of each group
    req,            \* the writes requested so far
    rpc,            \* where the master's call for each of them is
    handler,        \* where the thread of each is
    deaths,
    overlap,        \* history: the groups with two writes in progress at a time,
    missed,         \* with a write while a server was catching up,
    alone,          \* with a server that recovered from its own log only,
    skipped         \* and with a write not meant for a server that runs

processVars == <<log, lockKept, table, recovery, primary, requestQueue>>
mapVars     == <<metadataMap, seqNumMap>>
writeVars   == <<mapVars, req, rpc, handler>>
historyVars == <<deaths, overlap, missed, alone, skipped>>
vars == <<failoverVars, processVars, writeVars, historyVars>>

Absent  == 0
Empty   == [f \in Files |-> Absent]
Off     == [step |-> "off", at |-> 1, result |-> FALSE]
Runs(s) == server[s] = "RUNNING"

Init ==
    /\ FailoverInit
    /\ log = [s \in Servers |-> IF LogsExist THEN <<>> ELSE NoFile]
    /\ lockKept = {}
    /\ table = [s \in Servers |-> Empty]
    /\ recovery = [s \in Servers |-> "off"]
    /\ primary = [s \in Servers |-> s]
    /\ requestQueue = [s \in Servers |-> {}]
    /\ metadataMap = [f \in Files |-> NotStored]
    /\ seqNumMap = [g \in Groups |-> 0]
    /\ req = <<>>
    /\ rpc = <<>>
    /\ handler = <<>>
    /\ deaths = 0
    /\ overlap = {}
    /\ missed = {}
    /\ alone = {}
    /\ skipped = {}

Writes      == 1..Len(req)
WritesOf(g) == {w \in Writes : req[w].group = g}
Active(g)   == {w \in WritesOf(g) : rpc[w] = "calling" \/ handler[w].step # "off"}

Group(s)     == s[1]
ServersIn(g) == {s \in Servers : Group(s) = g}

(* Between its question for the primary and the end of the replay a server *)
(* does not learn of new writes.                                           *)
CatchingUp(g) == {s \in ServersIn(g) : recovery[s] \in {"log", "clear", "replay"}}

(* A group, noted if something has happened in it.                         *)
Noted(g, happened) == IF happened THEN {g} ELSE {}

-----------------------------------------------------------------------------
(* The logger.  Each operation takes log_lock; get keeps it when there is  *)
(* no file to read.                                                        *)
Unlocked(s) == s \notin lockKept

LogOf(s) == IF log[s] = NoFile THEN <<>> ELSE log[s]

Appended(s, e) == Append(LogOf(s), e)

(* Mutant: get never releases the lock. *)
KeepsAlways(s) == lockKept \cup {s}

LockAfterGet(s) == IF log[s] = NoFile THEN lockKept \cup {s} ELSE lockKept

Entries(s) == ToSet(LogOf(s))

-----------------------------------------------------------------------------
(* A known file stays in its group.  A new one goes to the group of least  *)
(* load, any of them, and to the first while nothing has been stored.      *)
Acked(w) == rpc[w] = "ok"

chooseServerGroup(f) ==
    IF metadataMap[f] # NotStored THEN {metadataMap[f]}
    ELSE IF \E w \in Writes : Acked(w) /\ req[w].type = "PUT" THEN Groups ELSE {1}

(* The master requests write Len(req) + 1 of the primary of a group.  A    *)
(* server that does not run has no service yet, and the call fails.        *)
RequestWrite(g, f, type) ==
    /\ Len(req) < MaxWrites
    /\ g \in chooseServerGroup(f)
    /\ req' = Append(req, [file |-> f, type |-> type, group |-> g,
                           servers |-> serverGroup[g], seqNum |-> seqNumMap[g]])
    /\ seqNumMap' = [seqNumMap EXCEPT ![g] = @ + 1]
    /\ IF Runs(Primary(g))
       THEN /\ rpc' = Append(rpc, "calling")
            /\ handler' = Append(handler, [step |-> "forward", at |-> 2, result |-> FALSE])
       ELSE /\ rpc' = Append(rpc, "failed")
            /\ handler' = Append(handler, Off)
    /\ overlap' = overlap \cup Noted(g, Active(g) # {})
    /\ missed' = missed \cup Noted(g, CatchingUp(g) # {})
    /\ skipped' = skipped \cup
            Noted(g, \E s \in ServersIn(g) : Runs(s) /\ s \notin ToSet(serverGroup[g]))
    /\ UNCHANGED <<failoverVars, processVars, metadataMap, deaths, alone>>

PrimaryOf(w) == req[w].servers[1]
Target(w)    == req[w].servers[handler[w].at]

At(w, step, k) ==
    [handler EXCEPT ![w] = [step |-> step, at |-> k, result |-> @.result]]

(* The thread of a primary that has died leaves its replica at work alone. *)
Forwarded(w) ==
    IF rpc[w] = "calling" THEN At(w, "forward", handler[w].at + 1)
                          ELSE [handler EXCEPT ![w] = Off]

Forward(w) ==
    /\ handler[w].step = "forward"
    /\ handler' = IF handler[w].at > Len(req[w].servers) THEN At(w, "log", 1)
                  ELSE IF Runs(Target(w)) THEN At(w, "log", handler[w].at)
                  ELSE Forwarded(w)
    /\ UNCHANGED <<failoverVars, processVars, mapVars, req, rpc, historyVars>>

(* What is logged has no replicas, so that its replay calls nobody. *)
Entry(w) == [write |-> w, seqNum |-> req[w].seqNum, replicas |-> {}]

AppendLog(w) ==
    /\ handler[w].step = "log"
    /\ Unlocked(Target(w))
    /\ log' = [log EXCEPT ![Target(w)] = Appended(Target(w), Entry(w))]
    /\ handler' = At(w, "apply", handler[w].at)
    /\ UNCHANGED <<failoverVars, lockKept, table, recovery, primary, requestQueue,
                   mapVars, req, rpc, historyVars>>

(* The cell after write w, and whether the handler returns success.        *)
Written(s, w)   == [table[s] EXCEPT ![req[w].file] =
                      IF req[w].type = "PUT" THEN w ELSE Absent]
Succeeds(s, w)  == req[w].type = "PUT" \/ table[s][req[w].file] # Absent

Apply(w) ==
    /\ handler[w].step = "apply"
    /\ table' = [table EXCEPT ![Target(w)] = Written(Target(w), w)]
    /\ handler' = IF handler[w].at = 1
                  THEN [handler EXCEPT ![w] = [step |-> "replied", at |-> 1,
                                               result |-> Succeeds(Target(w), w)]]
                  ELSE Forwarded(w)
    /\ UNCHANGED <<failoverVars, log, lockKept, recovery, primary, requestQueue,
                   mapVars, req, rpc, historyVars>>

(* The master records a file that has been stored, or forgets it.          *)
Return(w) ==
    /\ handler[w].step = "replied"
    /\ metadataMap' = IF handler[w].result
                      THEN [metadataMap EXCEPT ![req[w].file] =
                              IF req[w].type = "PUT" THEN req[w].group ELSE NotStored]
                      ELSE metadataMap
    /\ rpc' = [rpc EXCEPT ![w] = IF handler[w].result THEN "ok" ELSE "failed"]
    /\ handler' = [handler EXCEPT ![w] = Off]
    /\ UNCHANGED <<failoverVars, processVars, seqNumMap, req, historyVars>>

Serve(w) == Forward(w) \/ AppendLog(w) \/ Apply(w) \/ Return(w)

-----------------------------------------------------------------------------
(* A server dies: what it had in memory is gone, and so are its threads.   *)
(* Its callers' calls fail; a primary that dies leaves the replica it has  *)
(* called at work.                                                         *)
AfterDeath(s, w) ==
    LET h      == handler[w]
        within == h.step \in {"log", "apply"} /\ Target(w) = s
        calls  == h.step # "off" /\ rpc[w] = "calling" /\ PrimaryOf(w) = s
    IN  IF within /\ ~ calls /\ rpc[w] = "calling"
          THEN [step |-> "forward", at |-> h.at + 1, result |-> h.result]
        ELSE IF within \/ (calls /\ (h.step \in {"forward", "replied"})) THEN Off
        ELSE h

Crash(s) ==
    /\ deaths < MaxDeaths
    /\ Cardinality({t \in Servers \ {s} : ~ Runs(t)}) < MaxOff
    /\ Die(s)
    /\ lockKept' = lockKept \ {s}
    /\ table' = [table EXCEPT ![s] = Empty]
    /\ recovery' = [recovery EXCEPT ![s] = "off"]
    /\ primary' = [primary EXCEPT ![s] = s]
    /\ requestQueue' = [requestQueue EXCEPT ![s] = {}]
    /\ handler' = [w \in Writes |-> AfterDeath(s, w)]
    /\ rpc' = [w \in Writes |->
                 IF rpc[w] = "calling" /\ PrimaryOf(w) = s THEN "failed" ELSE rpc[w]]
    /\ deaths' = deaths + 1
    /\ UNCHANGED <<log, mapVars, req, overlap, missed, alone, skipped>>

-----------------------------------------------------------------------------
(* A server that is started again gathers the requests of its own log and  *)
(* of the primary's, and then constructs WriteServiceImpl.                 *)

(* Where its main thread goes next. *)
Goto(s, step) == recovery' = [recovery EXCEPT ![s] = step]

(* Mutant: what the primary sends is not added to a queue in use. *)
GatheredOnce(s, q) ==
    IF requestQueue[s] = {} THEN [requestQueue EXCEPT ![s] = ToSet(q)] ELSE requestQueue

(* The queue is a set ordered by sequence number: of the requests with the *)
(* same number it keeps the one that came first.                           *)
Gathered(s, q) ==
    LET first == {i \in 1..Len(q) : \A j \in 1..(i - 1) : q[j].seqNum # q[i].seqNum}
        kept  == {i \in first : \A d \in requestQueue[s] : d.seqNum # q[i].seqNum}
    IN  [requestQueue EXCEPT ![s] = @ \cup {q[i] : i \in kept}]

StartAgain(s) ==
    /\ Restart(s)
    /\ Goto(s, "local")
    /\ UNCHANGED <<log, lockKept, table, primary, requestQueue, writeVars, historyVars>>

ReadLog(s) ==
    /\ recovery[s] = "local"
    /\ Unlocked(s)
    /\ requestQueue' = Gathered(s, LogOf(s))
    /\ lockKept' = LockAfterGet(s)
    /\ Goto(s, "ask")
    /\ UNCHANGED <<failoverVars, log, table, primary, writeVars, historyVars>>

(* The request that is sent has no group in it: whatever its group, the    *)
(* server is told the head of the first group's deque, whatever its status.*)
PrimaryTold == Primary(1)

AskForPrimary(s) ==
    /\ recovery[s] = "ask"
    /\ primary' = [primary EXCEPT ![s] = PrimaryTold]
    /\ Goto(s, "log")
    /\ missed' = missed \cup Noted(Group(s), Active(Group(s)) # {})
    /\ UNCHANGED <<failoverVars, log, lockKept, table, requestQueue, writeVars,
                   deaths, overlap, alone, skipped>>

(* That primary sends all of its log.  If it does not run, or is the       *)
(* server itself, the call fails and there is nothing to add.              *)
AskForLog(s) ==
    LET p == primary[s]
    IN  /\ recovery[s] = "log"
        /\ Goto(s, "clear")
        /\ primary' = [primary EXCEPT ![s] = s]
        /\ \/ /\ Runs(p)
              /\ Unlocked(p)
              /\ requestQueue' = Gathered(s, LogOf(p))
              /\ lockKept' = LockAfterGet(p)
              /\ UNCHANGED alone
           \/ /\ ~ Runs(p)
              /\ alone' = alone \cup {Group(s)}
              /\ UNCHANGED <<requestQueue, lockKept>>
        /\ UNCHANGED <<failoverVars, log, table, writeVars,
                       deaths, overlap, missed, skipped>>

Clear(s) ==
    /\ recovery[s] = "clear"
    /\ Unlocked(s)
    /\ log' = [log EXCEPT ![s] = <<>>]
    /\ Goto(s, "replay")
    /\ UNCHANGED <<failoverVars, lockKept, table, primary, requestQueue, writeVars, historyVars>>

(* Mutant: the comparison of the set is the wrong way round. *)
LastRequest(s) == CHOOSE e \in requestQueue[s] : \A d \in requestQueue[s] : d.seqNum <= e.seqNum

FirstRequest(s) == CHOOSE e \in requestQueue[s] : \A d \in requestQueue[s] : e.seqNum <= d.seqNum

RequestsLeft(s, e) == {d \in requestQueue[s] : d.seqNum # e.seqNum}

(* WriteCommand once more, for the first request of the queue: it is sent  *)
(* to the replicas it names, logged and applied.                           *)
Replay(s) ==
    /\ recovery[s] = "replay"
    /\ requestQueue[s] # {}
    /\ LET e  == FirstRequest(s)
           by == {s} \cup {t \in e.replicas : Runs(t)}
       IN  /\ by \cap lockKept = {}
           /\ log' = [t \in Servers |->
                        IF t \in by THEN Appended(t, Entry(e.write)) ELSE log[t]]
           /\ table' = [t \in Servers |->
                          IF t \in by THEN Written(t, e.write) ELSE table[t]]
           /\ requestQueue' = [requestQueue EXCEPT ![s] = RequestsLeft(s, e)]
    /\ UNCHANGED <<failoverVars, lockKept, recovery, primary, writeVars, historyVars>>

EndRecovery(s) ==
    /\ recovery[s] = "replay"
    /\ requestQueue[s] = {}
    /\ Recovered(s)
    /\ Goto(s, "off")
    /\ UNCHANGED <<log, lockKept, table, primary, requestQueue, writeVars, historyVars>>

Recover(s) ==
    \/ ReadLog(s) \/ AskForPrimary(s) \/ AskForLog(s)
    \/ Clear(s) \/ Replay(s) \/ EndRecovery(s)

-----------------------------------------------------------------------------
Next ==
    \/ \E g \in Groups, f \in Files, type \in WriteTypes : RequestWrite(g, f, type)
    \/ \E w \in Writes : Serve(w)
    \/ \E s \in Servers : Crash(s) \/ StartAgain(s) \/ Recover(s)
    \/ heartbeatThreadFn /\ UNCHANGED <<processVars, writeVars, historyVars>>

Spec == Init /\ [][Next]_vars

(* As long as a thread, or a server that recovers, can go on, one does.    *)
FairSpec ==
    /\ Spec
    /\ WF_vars((\E w \in Writes : Serve(w)) \/ (\E s \in Servers : Recover(s)))

-----------------------------------------------------------------------------
(* Type invariant; a server recovers just while its main thread is on its  *)
(* way back.                                                               *)
Requests == [write : Nat, seqNum : Nat, replicas : SUBSET Servers]
Stages   == {"off", "local", "ask", "log", "clear", "replay"}
Handlers == [step : {"off", "forward", "log", "apply", "replied"},
             at : 1..(GroupSize + 1), result : BOOLEAN]

ProcessesTypeOK ==
    /\ log \in [Servers -> Seq(Requests) \cup {NoFile}]
    /\ lockKept \subseteq Servers
    /\ table \in [Servers -> [Files -> Nat]]
    /\ recovery \in [Servers -> Stages]
    /\ \A s \in Servers : recovery[s] # "off" <=> server[s] = "RECOVERING"
    /\ primary \in [Servers -> Servers]
    /\ requestQueue \in [Servers -> SUBSET Requests]

WritesTypeOK ==
    /\ metadataMap \in [Files -> Groups \cup {NotStored}]
    /\ seqNumMap \in [Groups -> Nat]
    /\ req \in Seq([file : Files, type : WriteTypes, group : Groups,
                    servers : Seq(Servers), seqNum : Nat])
    /\ rpc \in [Writes -> {"calling", "ok", "failed"}]
    /\ handler \in [Writes -> Handlers]
    /\ overlap \cup missed \cup alone \cup skipped \subseteq Groups

TypeOK == FailoverTypeOK /\ ProcessesTypeOK /\ WritesTypeOK

Logged(s, w) == \E e \in Entries(s) : e.write = w

RunningHaveAcked(g) ==
    \A w \in WritesOf(g), s \in ServersIn(g) : Acked(w) /\ Runs(s) => Logged(s, w)

(* A server of the group that takes requests again has logged all that the *)
(* master has been told is done there, also what was written while it was  *)
(* down, through any deaths and failovers, if no write was in progress     *)
(* while it caught up and no replay was cut short.                         *)
CatchesUp(g) == g \notin missed \cup alone \cup skipped => RunningHaveAcked(g)

(* So it is in the group whose primary the master names, whatever happens  *)
(* in the others; ...                                                      *)
CaughtUp == CatchesUp(1)

(* ... and so it would have to be in every group ("One server in each      *)
(* group is the primary, all others are replicas", README.txt).            *)
AllCaughtUp == \A g \in Groups : CatchesUp(g)

(* Writes made one at a time: every server of the first group that runs    *)
(* holds in each file what the group's last write left there, if it was    *)
(* reported as done, whether the server was there or has recovered since.  *)
LastOf(g, f) ==
    LET of == {w \in WritesOf(g) : req[w].file = f}
    IN  IF of = {} THEN 0 ELSE Max(of)

RecoveredReadable ==
    1 \notin overlap \cup missed \cup alone \cup skipped =>
        \A f \in Files, s \in ServersIn(1) :
            LET w == LastOf(1, f)
            IN  w # 0 /\ Acked(w) /\ Runs(s) =>
                  table[s][f] = IF req[w].type = "PUT" THEN w ELSE Absent

(* Nobody waits for ever: a server that recovers takes requests again, if  *)
(* it does not die, and every call the master makes of a primary comes     *)
(* back, whoever dies.  There are finitely many writes and deaths, so this *)
(* is to say that time and again nobody is waiting.                        *)
Waiting ==
    \/ \E s \in Servers : server[s] = "RECOVERING"
    \/ \E w \in Writes : rpc[w] = "calling"

NobodyWaits == []<> ~ Waiting

=============================================================================
