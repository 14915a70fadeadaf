---------------------------- MODULE MCHeartbeats ----------------------------
(***************************************************************************)
(* LoadBalancer and FailoverHistory for TLC: the two programs of PennCloud *)
(* that poll others.  They share nothing, so one of them moves.            *)
(***************************************************************************)
EXTENDS LoadBalancer

CONSTANTS NumGroups, GroupSize, Suspects

VARIABLES program, server, serverGroup, serverStatus, pc, entry, at, newStatus,
          primaryFailed, oldPrimary, seen

Master == INSTANCE FailoverHistory WITH status <- serverStatus

masterVars  == <<server, serverGroup, serverStatus, pc, entry, at, newStatus,
                 primaryFailed, oldPrimary, seen>>
pollingVars == <<program, balancerVars, masterVars>>

PollInit ==
    /\ program \in {"LoadBalancer", "MasterServer"}
    /\ BalancerInit
    /\ Master!HistoryInit

InBalancer == program = "LoadBalancer" /\ UNCHANGED <<program, masterVars>>
InMaster   == program = "MasterServer" /\ UNCHANGED <<program, balancerVars>>

PollNext ==
    \/ \E i \in Indexes : Toggle(i) /\ InBalancer
    \/ heartbeatThreadFn /\ InBalancer
    \/ Accept /\ InBalancer
    \/ Lock /\ InBalancer
    \/ Scan /\ InBalancer
    \/ Create /\ InBalancer
    \/ \E k \in Fds : Copy(k) /\ InBalancer
    \/ \E k \in Fds : Redirect(k) /\ InBalancer
    \/ \E s \in Master!Servers : Master!Die(s) /\ UNCHANGED seen /\ InMaster
    \/ \E s \in Master!Servers : Master!Restart(s) /\ UNCHANGED seen /\ InMaster
    \/ \E s \in Master!Servers : Master!Recovered(s) /\ UNCHANGED seen /\ InMaster
    \/ Master!heartbeatThreadSeen /\ InMaster

(* The fairness of the program that moves. *)
PollSpec ==
    /\ PollInit
    /\ [][PollNext]_pollingVars
    /\ SF_pollingVars(heartbeatThreadFn /\ InBalancer)
    /\ SF_pollingVars(Lock /\ InBalancer)
    /\ WF_pollingVars(Scan /\ InBalancer)
    /\ WF_pollingVars(Create /\ InBalancer)
    /\ \A k \in Fds : /\ WF_pollingVars(Copy(k) /\ InBalancer)
                      /\ WF_pollingVars(Redirect(k) /\ InBalancer)
    /\ WF_pollingVars(Master!heartbeatThreadSeen /\ InMaster)

(* FailoverHistory: a primary is demoted only if it answered and then died *)
(* or let a heartbeat time out; Failover: one that was seen alive and died *)
(* is replaced (heartbeatThreadFn).                                        *)
OnlyFailedDemoted   == Master!OnlyFailedDemoted
SeenPrimaryReplaced == Master!SeenPrimaryReplaced

=============================================================================
