--------------------------- MODULE FailoverHistory ---------------------------
(***************************************************************************)
(* Failover with a history variable: what the calls of the heartbeat       *)
(* thread have found.  No step reads it, so the behaviours are those of    *)
(* Failover.                                                               *)
(***************************************************************************)
EXTENDS Failover

VARIABLE seen       \* what the last two calls have found of each server: it answered
                    \* the last one; it answered only the one before, and was dead at
                    \* the last one, or late to answer; it answered neither

seenVars == <<failoverVars, seen>>

HistoryInit == FailoverInit /\ seen = [s \in Servers |-> "silent"]

HeartbeatSeen ==
    LET s == serverGroup[entry][at]
    IN  /\ Heartbeat
        /\ seen' = [seen EXCEPT ![s] =
                        IF newStatus' # "UNKNOWN" THEN "alive"
                        ELSE IF @ # "alive" THEN "silent"
                        ELSE IF server[s] = "DOWN" THEN "dead" ELSE "late"]

heartbeatThreadSeen ==
    \/ HeartbeatSeen
    \/ (Update \/ PopFront \/ PushBack) /\ UNCHANGED seen

HistoryNext ==
    \/ \E s \in Servers : (Die(s) \/ Restart(s) \/ Recovered(s)) /\ UNCHANGED seen
    \/ heartbeatThreadSeen

HistorySpec == HistoryInit /\ [][HistoryNext]_seenVars

-----------------------------------------------------------------------------
(* A primary loses its place only after it answered one call and missed    *)
(* the next, being dead or late; where no heartbeat of a running server    *)
(* times out, it was dead.  One that was never seen alive stays, and so    *)
(* does one that answers, whatever the other servers of its group do ("If  *)
(* the primary server goes down", heartbeatThreadFn).                      *)
OnlyFailedDemoted ==
    [][ \A g \in Groups :
          pc = "pop" /\ serverGroup'[g] # serverGroup[g] =>
              seen[Primary(g)] \in {"dead"} \cup (IF Suspects THEN {"late"} ELSE {})
      ]_seenVars

=============================================================================
