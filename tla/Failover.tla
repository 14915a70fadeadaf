------------------------------ MODULE Failover ------------------------------
(***************************************************************************)
(* PennCloud/BE_server/MasterServer.cc: the master's list of the back-end  *)
(* servers and the thread that polls them.  Each group is a deque; the     *)
(* server at its head is the primary.                                      *)
(*                                                                         *)
(* Server <<g, k>> is line k of group g in the configuration file.         *)
(***************************************************************************)
EXTENDS Integers, Sequences

CONSTANTS
    NumGroups,
    GroupSize,
    Suspects        \* may a heartbeat of a running server time out?

ASSUME GroupsAssumption ==
    /\ NumGroups \in Nat \ {0}
    /\ GroupSize \in Nat \ {0, 1}
    /\ Suspects \in BOOLEAN

Groups  == 1..NumGroups
Servers == Groups \X (1..GroupSize)

VARIABLES
    server,         \* what each back-end server is doing
    serverGroup,    \* the deque of each group
    status,         \* the status the master has for each server
    pc,             \* where the heartbeat thread is
    entry,          \* the group it is at
    at,             \* the position in the group it is at
    newStatus,      \* the answer it has got
    primaryFailed,
    oldPrimary

heartbeatVars == <<serverGroup, status, pc, entry, at, newStatus, primaryFailed, oldPrimary>>
failoverVars  == <<server, heartbeatVars>>

(* The head of the deque is the primary. *)
Primary(g) == Head(serverGroup[g])

FailoverInit ==
    /\ server = [s \in Servers |-> "RUNNING"]
    /\ serverGroup = [g \in Groups |-> [k \in 1..GroupSize |-> <<g, k>>]]
    /\ status = [s \in Servers |-> "UNKNOWN"]
    /\ pc = "heartbeat"
    /\ entry = 1
    /\ at = 1
    /\ newStatus = "UNKNOWN"
    /\ primaryFailed = FALSE
    /\ oldPrimary = <<1, 1>>

-----------------------------------------------------------------------------
(* Back-end processes: a server dies; it is started again and recovers;    *)
(* it has processed the logs (end of the constructor of WriteServiceImpl). *)
Die(s) ==
    /\ server[s] # "DOWN"
    /\ server' = [server EXCEPT ![s] = "DOWN"]
    /\ UNCHANGED heartbeatVars

Restart(s) ==
    /\ server[s] = "DOWN"
    /\ server' = [server EXCEPT ![s] = "RECOVERING"]
    /\ UNCHANGED heartbeatVars

Recovered(s) ==
    /\ server[s] = "RECOVERING"
    /\ server' = [server EXCEPT ![s] = "RUNNING"]
    /\ UNCHANGED heartbeatVars

-----------------------------------------------------------------------------
(* What a heartbeat call can return: the state the server reports, or      *)
(* UNKNOWN when it does not answer before the deadline.                    *)
Answers(s) ==
    {IF server[s] = "DOWN" THEN "UNKNOWN" ELSE server[s]}
        \cup (IF Suspects THEN {"UNKNOWN"} ELSE {})

(* The thread asks the server at that position, without the lock. *)
Heartbeat ==
    /\ pc = "heartbeat"
    /\ newStatus' \in Answers(serverGroup[entry][at])
    /\ pc' = "update"
    /\ UNCHANGED <<server, serverGroup, status, entry, at, primaryFailed, oldPrimary>>

(* The thread goes on with the next group, or sleeps and starts again.     *)
NextGroup ==
    /\ entry' = IF entry = NumGroups THEN 1 ELSE entry + 1
    /\ at' = 1
    /\ pc' = "heartbeat"
    /\ primaryFailed' = FALSE

(* Mutant: a primary counts as failed though it was never seen alive.      *)
FailedUnseen(s) == newStatus = "UNKNOWN" /\ at = 1

(* The primary has been seen alive, and now it does not answer.            *)
FailedNow(s) ==
    /\ newStatus = "UNKNOWN"
    /\ status[s] # "UNKNOWN"
    /\ at = 1

(* The answer is stored, under the lock. *)
Update ==
    LET s      == serverGroup[entry][at]
        failed == primaryFailed \/ FailedNow(s)
    IN  /\ pc = "update"
        /\ status' = [status EXCEPT ![s] = newStatus]
        /\ \/ /\ at < GroupSize
              /\ at' = at + 1
              /\ pc' = "heartbeat"
              /\ primaryFailed' = failed
              /\ UNCHANGED entry
           \/ /\ at = GroupSize
              /\ failed
              /\ pc' = "pop"
              /\ primaryFailed' = TRUE
              /\ UNCHANGED <<entry, at>>
           \/ /\ at = GroupSize
              /\ ~ failed
              /\ NextGroup
        /\ UNCHANGED <<server, serverGroup, newStatus, oldPrimary>>

(* The failed primary leaves the head of the deque and, in another step,   *)
(* joins its tail; the lock is not taken.                                  *)
PopFront ==
    /\ pc = "pop"
    /\ oldPrimary' = Primary(entry)
    /\ serverGroup' = [serverGroup EXCEPT ![entry] = Tail(@)]
    /\ pc' = "push"
    /\ UNCHANGED <<server, status, entry, at, newStatus, primaryFailed>>

(* Mutant: the old primary is put back at the head. *)
PushFront ==
    /\ pc = "push"
    /\ serverGroup' = [serverGroup EXCEPT ![entry] = <<oldPrimary>> \o @]
    /\ NextGroup
    /\ UNCHANGED <<server, status, newStatus, oldPrimary>>

PushBack ==
    /\ pc = "push"
    /\ serverGroup' = [serverGroup EXCEPT ![entry] = Append(@, oldPrimary)]
    /\ NextGroup
    /\ UNCHANGED <<server, status, newStatus, oldPrimary>>

heartbeatThreadFn == Heartbeat \/ Update \/ PopFront \/ PushBack

FailoverNext ==
    \/ \E s \in Servers : Die(s) \/ Restart(s) \/ Recovered(s)
    \/ heartbeatThreadFn

FailoverSpec == FailoverInit /\ [][FailoverNext]_failoverVars

(* The heartbeat thread runs until the master stops. *)
FairFailoverSpec == FailoverSpec /\ WF_failoverVars(heartbeatThreadFn)

-----------------------------------------------------------------------------
(* Type invariant; the deque of a group, with the server that is on its    *)
(* way to the tail, holds every server of the group once.                  *)
Statuses == {"UNKNOWN", "RUNNING", "RECOVERING"}

Members(g) ==
    IF pc = "push" /\ entry = g THEN Append(serverGroup[g], oldPrimary)
                                ELSE serverGroup[g]

FailoverTypeOK ==
    /\ server \in [Servers -> {"DOWN", "RUNNING", "RECOVERING"}]
    /\ serverGroup \in [Groups -> Seq(Servers)]
    /\ \A g \in Groups :
         /\ Len(Members(g)) = GroupSize
         /\ {Members(g)[k] : k \in 1..GroupSize} = {g} \X (1..GroupSize)
    /\ status \in [Servers -> Statuses]
    /\ pc \in {"heartbeat", "update", "pop", "push"}
    /\ entry \in Groups
    /\ at \in 1..GroupSize
    /\ newStatus \in Statuses
    /\ primaryFailed \in BOOLEAN
    /\ oldPrimary \in Servers

IsPrimary(s) == pc # "push" /\ Primary(s[1]) = s
Replaced(s)  == pc # "push" /\ Primary(s[1]) # s

(* A primary that was seen alive and dies is replaced, unless it is        *)
(* restarted ("If the primary server goes down ... move that server to the *)
(* back of the deque").                                                    *)
SeenPrimaryReplaced ==
    \A s \in Servers :
        (IsPrimary(s) /\ server[s] = "DOWN" /\ status[s] # "UNKNOWN")
            ~> (Replaced(s) \/ server[s] # "DOWN")

=============================================================================
