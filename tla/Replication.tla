---------------------------- MODULE Replication ----------------------------
(***************************************************************************)
(* The write path of PennCloud: RequestWrite of the master                 *)
(* (common/MasterServiceImpl.cc) and WriteCommand of the back-end servers  *)
(* (common/WriteServiceImpl.cc).  gRPC runs every call in a thread of its  *)
(* own, so writes interleave with each other and with the heartbeat thread *)
(* of the master (module Failover).  A back-end server that dies stays     *)
(* dead here.                                                              *)
(*                                                                         *)
(* The files are e-mails and passwords, whose handlers write one cell of   *)
(* the big table.  A file is a pair of user and uid; its content is the    *)
(* name of the write that put it there.                                    *)
(***************************************************************************)
EXTENDS Failover, FiniteSets, FiniteSetsExt

CONSTANTS
    Files,
    UserOf,         \* the user of each file
    Writes,         \* the write requests
    SizeOf,         \* the size of the content each write carries
    MaxActive,      \* bound on the writes in progress at a time
    MaxDeaths       \* bound on the servers that die

Absent == "absent"

ASSUME WritesAssumption ==
    /\ \A w \in Writes : SizeOf[w] \in Nat \ {0}
    /\ MaxActive \in Nat \ {0}
    /\ MaxDeaths \in Nat
    /\ Absent \notin Writes

VARIABLES
    metadataMap,    \* the master's record of each file, or NotStored
    users,          \* the users metadataMap has an entry for
    seqNumMap,      \* next sequence number of each group
    loadMap,        \* load of each group
    req,            \* what the master keeps of each write
    rpc,            \* where the master's call for each write is
    handler,        \* where the primary's thread for each write is
    store,          \* the cells of each server
    log,            \* the log of each server
    lastWrite,      \* history: the last write requested for each file
    overlap         \* history: have two writes been in progress at a time?

masterVars  == <<metadataMap, users, seqNumMap, loadMap>>
backendVars == <<handler, store, log>>
historyVars == <<lastWrite, overlap>>
vars == <<failoverVars, masterVars, req, rpc, backendVars, historyVars>>

NotStored == [size |-> 0, group |-> 0]
Users     == {UserOf[f] : f \in Files}
Up(s)     == server[s] = "RUNNING"

NoRequest == [file |-> "none", type |-> "none", size |-> 0, group |-> 0,
              servers |-> <<>>, seqNum |-> 0]
NoHandler == [step |-> "off", at |-> 0, result |-> FALSE]

Init ==
    /\ FailoverInit
    /\ metadataMap = [f \in Files |-> NotStored]
    /\ users = {}
    /\ seqNumMap = [g \in Groups |-> 0]
    /\ loadMap = [g \in Groups |-> 0]
    /\ req = [w \in Writes |-> NoRequest]
    /\ rpc = [w \in Writes |-> "new"]
    /\ handler = [w \in Writes |-> NoHandler]
    /\ store = [s \in Servers |-> [f \in Files |-> Absent]]
    /\ log = [s \in Servers |-> <<>>]
    /\ lastWrite = [f \in Files |-> Absent]
    /\ overlap = FALSE

-----------------------------------------------------------------------------
(* Writes in progress; the thread of a primary that died may have left a   *)
(* replica at work.                                                        *)
Active == {w \in Writes : rpc[w] = "calling" \/ handler[w].step # "off"}

(* The scan of the loads, in the order of the groups: the choice after g.  *)
Scan[g \in 0..NumGroups] ==
    IF g = 0 THEN [min |-> -1, group |-> -1]
    ELSE IF Scan[g - 1].min < 0 \/ loadMap[g] < Scan[g - 1].min
         THEN [min |-> loadMap[g], group |-> g]
         ELSE Scan[g - 1]

(* Mutant: a known file is placed like a new one. *)
LeastLoaded(f) == Scan[NumGroups].group

(* A known file stays where it is, a new one goes to the least loaded.     *)
chooseServerGroup(f) ==
    IF metadataMap[f] # NotStored THEN metadataMap[f].group
                                  ELSE Scan[NumGroups].group

(* RequestWrite up to the call of the primary: under the lock the group is *)
(* chosen, its servers are copied and the write gets its number.           *)
RequestWrite(w, f, type) ==
    \E g \in Groups :
        /\ g = chooseServerGroup(f)
        /\ rpc[w] = "new"
        /\ Cardinality(Active) < MaxActive
        /\ req' = [req EXCEPT ![w] =
             [file |-> f, type |-> type, size |-> metadataMap[f].size, group |-> g,
              servers |-> serverGroup[g], seqNum |-> seqNumMap[g]]]
        /\ rpc' = [rpc EXCEPT ![w] = "calling"]
        /\ handler' = IF Up(Primary(g))
             THEN [handler EXCEPT ![w] = [step |-> "forward", at |-> 2, result |-> FALSE]]
             ELSE handler
        /\ seqNumMap' = [seqNumMap EXCEPT ![g] = @ + 1]
        /\ lastWrite' = [lastWrite EXCEPT ![f] = w]
        /\ overlap' = (overlap \/ Active # {})
        /\ UNCHANGED <<failoverVars, metadataMap, users, loadMap, store, log>>

-----------------------------------------------------------------------------
(* WriteCommand at the primary: the write is sent to the replicas, one     *)
(* after the other, and then handled by the primary itself.                *)
PrimaryOf(w) == req[w].servers[1]
Target(w)    == req[w].servers[handler[w].at]
Last(w)      == Len(req[w].servers)

At(w, step, k) ==
    [handler EXCEPT ![w] = [step |-> step, at |-> k, result |-> @.result]]

(* Mutant: the replicas are not called. *)
ForwardSkips(w) ==
    /\ handler[w].step = "forward"
    /\ Up(PrimaryOf(w))
    /\ handler' = At(w, "log", 1)
    /\ UNCHANGED <<failoverVars, masterVars, req, rpc, store, log, historyVars>>

(* The thread starts on the next server; a replica that is down is passed  *)
(* over, and the failure forgotten.                                        *)
Forward(w) ==
    /\ handler[w].step = "forward"
    /\ Up(PrimaryOf(w))
    /\ handler' =
         IF handler[w].at > Last(w) THEN At(w, "log", 1)
         ELSE IF Up(Target(w)) THEN At(w, "log", handler[w].at)
         ELSE At(w, "forward", handler[w].at + 1)
    /\ UNCHANGED <<failoverVars, masterVars, req, rpc, store, log, historyVars>>

(* The server appends the write to its log. *)
AppendLog(w) ==
    LET entryOf == [write |-> w, file |-> req[w].file, type |-> req[w].type,
                    seqNum |-> req[w].seqNum]
    IN  /\ handler[w].step = "log"
        /\ Up(Target(w))
        /\ log' = [log EXCEPT ![Target(w)] = Append(@, entryOf)]
        /\ handler' = At(w, "apply", handler[w].at)
        /\ UNCHANGED <<failoverVars, masterVars, req, rpc, store, historyVars>>

(* Mutant: the loop over the replicas does not advance. *)
ApplyAgain(w) ==
    /\ handler[w].step = "apply"
    /\ Up(Target(w))
    /\ store' = [store EXCEPT ![Target(w)][req[w].file] = w]
    /\ handler' = IF handler[w].at = 1
                  THEN [handler EXCEPT ![w] = [step |-> "replied", at |-> 1, result |-> TRUE]]
                  ELSE At(w, "forward", handler[w].at)
    /\ UNCHANGED <<failoverVars, masterVars, req, rpc, log, historyVars>>

(* Then its handler changes the cell.  Only what the primary's own handler *)
(* returns reaches the master.                                             *)
Apply(w) ==
    LET s  == Target(w)
        f  == req[w].file
        ok == req[w].type = "PUT" \/ store[s][f] # Absent
    IN  /\ handler[w].step = "apply"
        /\ Up(s)
        /\ store' = [store EXCEPT ![s][f] = IF req[w].type = "PUT" THEN w ELSE Absent]
        /\ handler' =
             IF handler[w].at = 1
             THEN [handler EXCEPT ![w] = [step |-> "replied", at |-> 1, result |-> ok]]
             ELSE At(w, "forward", handler[w].at + 1)
        /\ UNCHANGED <<failoverVars, masterVars, req, rpc, log, historyVars>>

(* The replica dies while it handles the write: the primary goes on.  The  *)
(* primary dies: its thread ends, with a replica's if that has died too or *)
(* has nothing to do.                                                      *)
Broken(w) ==
    /\ \/ /\ handler[w].step \in {"log", "apply"}
          /\ ~ Up(Target(w))
          /\ handler' = IF Up(PrimaryOf(w)) THEN At(w, "forward", handler[w].at + 1)
                                            ELSE At(w, "off", 1)
       \/ /\ handler[w].step = "forward"
          /\ ~ Up(PrimaryOf(w))
          /\ handler' = At(w, "off", 1)
    /\ UNCHANGED <<failoverVars, masterVars, req, rpc, store, log, historyVars>>

-----------------------------------------------------------------------------
(* Mutant: the entry of a new user is not made. *)
PutWithoutUser(w) ==
    LET f == req[w].file
        g == req[w].group
    IN  /\ metadataMap' = [metadataMap EXCEPT ![f] = [size |-> SizeOf[w], group |-> g]]
        /\ loadMap' = [loadMap EXCEPT ![g] = @ + SizeOf[w] - req[w].size]
        /\ UNCHANGED users

(* The master's record of a successful PUT.  The size the file had is the  *)
(* one read before the call.  The first file of a user counts one more.    *)
RecordPut(w) ==
    LET f == req[w].file
        g == req[w].group
    IN  /\ metadataMap' = [metadataMap EXCEPT ![f] = [size |-> SizeOf[w], group |-> g]]
        /\ users' = users \cup {UserOf[f]}
        /\ loadMap' = [loadMap EXCEPT ![g] =
             @ + SizeOf[w] - req[w].size + (IF UserOf[f] \in users THEN 0 ELSE 1)]

RecordDelete(w) ==
    /\ loadMap' = [loadMap EXCEPT ![req[w].group] = @ - req[w].size]
    /\ metadataMap' = [metadataMap EXCEPT ![req[w].file] = NotStored]
    /\ UNCHANGED users

(* The call returns to the master: with the primary's result, or broken    *)
(* because the primary is down.                                            *)
Return(w) ==
    /\ rpc[w] = "calling"
    /\ \/ /\ handler[w].step = "replied"
          /\ handler[w].result
          /\ rpc' = [rpc EXCEPT ![w] = "ok"]
          /\ IF req[w].type = "PUT" THEN RecordPut(w) ELSE RecordDelete(w)
          /\ handler' = At(w, "off", 1)
       \/ /\ handler[w].step = "replied"
          /\ ~ handler[w].result \/ ~ Up(PrimaryOf(w))
          /\ rpc' = [rpc EXCEPT ![w] = "failed"]
          /\ handler' = At(w, "off", 1)
          /\ UNCHANGED <<metadataMap, users, loadMap>>
       \/ /\ handler[w].step # "replied"
          /\ ~ Up(PrimaryOf(w))
          /\ rpc' = [rpc EXCEPT ![w] = "failed"]
          /\ UNCHANGED <<metadataMap, users, loadMap, handler>>
    /\ UNCHANGED <<failoverVars, seqNumMap, req, store, log, historyVars>>

Deaths == Cardinality({s \in Servers : ~ Up(s)})

Next ==
    \/ \E w \in Writes :
         \/ \E f \in Files, type \in {"PUT", "DELETE"} : RequestWrite(w, f, type)
         \/ Forward(w) \/ AppendLog(w) \/ Apply(w) \/ Broken(w) \/ Return(w)
    \/ /\ heartbeatThreadFn \/ (Deaths < MaxDeaths /\ \E s \in Servers : Die(s))
       /\ UNCHANGED <<masterVars, req, rpc, backendVars, historyVars>>

Spec == Init /\ [][Next]_vars

-----------------------------------------------------------------------------
(* Type invariant of the write path. *)
Requests == [file : Files, type : {"PUT", "DELETE"}, size : Nat, group : Groups,
             servers : Seq(Servers), seqNum : Nat]
Commands == [write : Writes, file : Files, type : {"PUT", "DELETE"}, seqNum : Nat]

WritesTypeOK ==
    /\ metadataMap \in [Files -> {NotStored} \cup [size : Nat \ {0}, group : Groups]]
    /\ users \subseteq Users
    /\ \A f \in Files : metadataMap[f] # NotStored => UserOf[f] \in users
    /\ seqNumMap \in [Groups -> Nat]
    /\ loadMap \in [Groups -> Int]
    /\ req \in [Writes -> {NoRequest} \cup Requests]
    /\ rpc \in [Writes -> {"new", "calling", "ok", "failed"}]
    /\ \A w \in Writes : rpc[w] # "new" => req[w] \in Requests
    /\ handler \in [Writes -> [step : {"off", "forward", "log", "apply", "replied"},
                               at : 0..(GroupSize + 1), result : BOOLEAN]]
    /\ store \in [Servers -> [Files -> Writes \cup {Absent}]]
    /\ log \in [Servers -> Seq(Commands)]
    /\ lastWrite \in [Files -> Writes \cup {Absent}]
    /\ overlap \in BOOLEAN

TypeOK == FailoverTypeOK /\ WritesTypeOK

Live(g)      == {s \in {g} \X (1..GroupSize) : Up(s)}
Logged(s, w) == \E k \in 1..Len(log[s]) : log[s][k].write = w

(* A write the master reported as done is in the log of every server of    *)
(* the group that is alive, whatever writes ran at the same time and       *)
(* whoever died or was made the primary in between.                        *)
AckedInLogs ==
    \A w \in Writes : rpc[w] = "ok" => \A s \in Live(req[w].group) : Logged(s, w)

(* No server logs a write twice: no failover makes a server be sent what   *)
(* it has handled already.                                                 *)
LoggedOnce ==
    \A s \in Servers : \A j, k \in 1..Len(log[s]) :
        log[s][j].write = log[s][k].write => j = k

(* Writes made one at a time: when none is in progress, and the last one   *)
(* to a file was reported as done, every server alive, so every one the    *)
(* master can send a reader to, holds what it wrote, whoever has died.     *)
OneAtATime == ~ overlap /\ Active = {}

AckedReadable ==
    OneAtATime =>
        \A f \in Files : lastWrite[f] # Absent =>
            LET w == lastWrite[f]
            IN  rpc[w] = "ok" =>
                  \A s \in Live(req[w].group) :
                    store[s][f] = IF req[w].type = "PUT" THEN w ELSE Absent

SizesIn(g) ==
    MapThenSumSet(LAMBDA f : metadataMap[f].size, {f \in Files : metadataMap[f].group = g})

(* The loads cover the sizes of the files, and together count all files    *)
(* and one for each user.                                                  *)
LoadMatches ==
    /\ \A g \in Groups : loadMap[g] >= SizesIn(g)
    /\ MapThenSumSet(LAMBDA g : loadMap[g] - SizesIn(g), Groups) = Cardinality(users)

(* Writes made one at a time: between two of them the master's loads match *)
(* its files, also when writes have failed ("update load by difference     *)
(* between old file and new file"); and if no server has died, its record  *)
(* of where each file is agrees with what the servers hold, every file in  *)
(* one group only ("File exists so write it to the same server group").    *)
MetadataMatches ==
    OneAtATime =>
        /\ LoadMatches
        /\ Deaths = 0 =>
             \A f \in Files, s \in Servers :
                store[s][f] # Absent <=>
                    metadataMap[f] # NotStored /\ metadataMap[f].group = s[1]

(* Between two writes the servers of a group that are alive hold the same  *)
(* ("One server in each group is the primary, all others are replicas").   *)
ReplicasAgree ==
    Active = {} =>
        \A g \in Groups : \A s, t \in Live(g) : store[s] = store[t]

=============================================================================
