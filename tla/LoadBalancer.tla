---------------------------- MODULE LoadBalancer ----------------------------
(***************************************************************************)
(* PennCloud/Load_Balancer/LoadBalancer.cc and runLoadBalancer of          *)
(* PennCloud/FE_server/feserver.cc: a thread polls the front-end servers;  *)
(* the main thread accepts connections, chooses a server for each and      *)
(* hands it to a worker thread, which answers with the redirect.           *)
(***************************************************************************)
EXTENDS Integers

CONSTANTS
    NumServers,     \* length of the configuration file
    Fds             \* numbers of the sockets that can be open at a time

ASSUME LoadBalancerAssumption ==
    /\ NumServers \in Nat \ {0}
    /\ Fds \subseteq Nat

Indexes == 0..(NumServers - 1)

VARIABLES
    up,             \* is front-end server i running?
    status,         \* feServers[i].status
    mtx,            \* who holds the lock
    beat,           \* the heartbeat thread: where it is, server, answer
    main,           \* where the main thread is
    counter,        \* modulo NumServers
    arg,            \* the argument of pthread_create, on main's stack
    connections,    \* sockets: "closed" or "waiting" for an answer
    worker,         \* the threads, by the socket each was created for
    chosen          \* history: server of the last redirect

balancerVars == <<up, status, mtx, beat, main, counter, arg, connections, worker, chosen>>
pollVars == <<up, status, beat>>
serveVars == <<main, counter, arg, connections, worker, chosen>>

NoThread == [state |-> "none", connfd |-> 0, address |-> 0]

BalancerInit ==
    /\ up = [i \in Indexes |-> TRUE]
    /\ status = [i \in Indexes |-> "UNKNOWN"]
    /\ mtx = "free"
    /\ beat = [pc |-> "heartbeat", i |-> 0, answer |-> "UNKNOWN"]
    /\ main = "accept"
    /\ counter = 0
    /\ arg = [connfd |-> 0, address |-> 0]
    /\ connections = [fd \in Fds |-> "closed"]
    /\ worker = [fd \in Fds |-> NoThread]
    /\ chosen = NumServers - 1

-----------------------------------------------------------------------------
Toggle(i) ==
    /\ up' = [up EXCEPT ![i] = ~ @]
    /\ UNCHANGED <<status, mtx, beat, serveVars>>

(* The heartbeat thread asks server i, without the lock. *)
Heartbeat ==
    /\ beat.pc = "heartbeat"
    /\ beat' = [beat EXCEPT !.pc = "update",
                            !.answer = IF up[beat.i] THEN "RUNNING" ELSE "UNKNOWN"]
    /\ UNCHANGED <<up, status, mtx, serveVars>>

(* It stores the answer, under the lock, and goes on with the next server. *)
Update ==
    /\ beat.pc = "update"
    /\ mtx = "free"
    /\ status' = [status EXCEPT ![beat.i] = beat.answer]
    /\ beat' = [beat EXCEPT !.pc = "heartbeat", !.i = (@ + 1) % NumServers]
    /\ UNCHANGED <<up, mtx, serveVars>>

heartbeatThreadFn == Heartbeat \/ Update

-----------------------------------------------------------------------------
(* A client connects: the lowest free descriptor goes into the argument of *)
(* the thread to be created.                                               *)
Accept ==
    /\ main = "accept"
    /\ \E fd \in Fds :
         /\ connections[fd] = "closed"
         /\ worker[fd].state = "none"
         /\ \A o \in Fds : o < fd => connections[o] # "closed"
         /\ connections' = [connections EXCEPT ![fd] = "waiting"]
         /\ arg' = [arg EXCEPT !.connfd = fd]
    /\ main' = "lock"
    /\ UNCHANGED <<pollVars, mtx, counter, worker, chosen>>

(* getRedirectAddress takes the lock ... *)
Lock ==
    /\ main = "lock"
    /\ mtx = "free"
    /\ mtx' = "main"
    /\ main' = "scan"
    /\ UNCHANGED <<pollVars, counter, arg, connections, worker, chosen>>

(* Mutant: the counter stays at the server chosen. *)
ScanInPlace ==
    /\ main = "scan"
    /\ IF status[counter] = "UNKNOWN"
       THEN /\ counter' = (counter + 1) % NumServers
            /\ UNCHANGED <<main, arg, mtx, chosen>>
       ELSE /\ arg' = [arg EXCEPT !.address = counter]
            /\ chosen' = counter
            /\ main' = "create"
            /\ mtx' = "free"
            /\ UNCHANGED counter
    /\ UNCHANGED <<pollVars, connections, worker>>

(* Mutant: the lock is not released when a server is found. *)
ScanHoldsLock ==
    /\ main = "scan"
    /\ counter' = (counter + 1) % NumServers
    /\ \/ /\ status[counter] = "UNKNOWN"
          /\ UNCHANGED <<main, arg, chosen>>
       \/ /\ status[counter] # "UNKNOWN"
          /\ arg' = [arg EXCEPT !.address = counter]
          /\ chosen' = counter
          /\ main' = "create"
    /\ UNCHANGED <<pollVars, mtx, connections, worker>>

(* ... and keeps it while it looks for a server that is not UNKNOWN.       *)
Scan ==
    /\ main = "scan"
    /\ counter' = (counter + 1) % NumServers
    /\ \/ /\ status[counter] = "UNKNOWN"
          /\ UNCHANGED <<main, arg, mtx, chosen>>
       \/ /\ status[counter] # "UNKNOWN"
          /\ arg' = [arg EXCEPT !.address = counter]
          /\ chosen' = counter
          /\ main' = "create"
          /\ mtx' = "free"
    /\ UNCHANGED <<pollVars, connections, worker>>

(* The thread is created with the address of the argument. *)
Create ==
    /\ main = "create"
    /\ worker' = [worker EXCEPT ![arg.connfd].state = "created"]
    /\ main' = "accept"
    /\ UNCHANGED <<pollVars, mtx, counter, arg, connections, chosen>>

(* The worker thread copies what is there now. *)
Copy(k) ==
    /\ worker[k].state = "created"
    /\ worker' = [worker EXCEPT ![k] =
         [state |-> "serving", connfd |-> arg.connfd, address |-> arg.address]]
    /\ UNCHANGED <<pollVars, mtx, main, counter, arg, connections, chosen>>

(* Mutant: the socket is not closed. *)
RedirectOnly(k) ==
    /\ worker[k].state = "serving"
    /\ worker' = [worker EXCEPT ![k] = NoThread]
    /\ UNCHANGED <<pollVars, mtx, main, counter, arg, connections, chosen>>

(* It answers the request with the redirect, closes the socket and ends.   *)
Redirect(k) ==
    /\ worker[k].state = "serving"
    /\ worker' = [worker EXCEPT ![k] = NoThread]
    /\ connections' = [connections EXCEPT ![worker[k].connfd] = "closed"]
    /\ UNCHANGED <<pollVars, mtx, main, counter, arg, chosen>>

BalancerNext ==
    \/ \E i \in Indexes : Toggle(i)
    \/ heartbeatThreadFn
    \/ Accept \/ Lock \/ Scan \/ Create
    \/ \E k \in Fds : Copy(k) \/ Redirect(k)

BalancerSpec == BalancerInit /\ [][BalancerNext]_balancerVars

(* The threads run; the heartbeat thread, which sleeps between two rounds, *)
(* gets the lock if it is free again and again.  Nobody has to connect.    *)
FairBalancerSpec ==
    /\ BalancerSpec
    /\ SF_balancerVars(heartbeatThreadFn)
    /\ SF_balancerVars(Lock) /\ WF_balancerVars(Scan) /\ WF_balancerVars(Create)
    /\ \A k \in Fds : WF_balancerVars(Copy(k)) /\ WF_balancerVars(Redirect(k))

-----------------------------------------------------------------------------
(* Type invariant of the load balancer; main holds the lock while it scans. *)
BalancerTypeOK ==
    /\ up \in [Indexes -> BOOLEAN]
    /\ status \in [Indexes -> {"UNKNOWN", "RUNNING"}]
    /\ mtx \in {"free", "main"}
    /\ (mtx = "main") = (main = "scan")
    /\ beat \in [pc : {"heartbeat", "update"}, i : Indexes, answer : {"UNKNOWN", "RUNNING"}]
    /\ main \in {"accept", "lock", "scan", "create"}
    /\ counter \in Indexes
    /\ arg \in [connfd : Fds \cup {0}, address : Indexes]
    /\ connections \in [Fds -> {"closed", "waiting"}]
    /\ worker \in [Fds -> [state : {"none", "created", "serving"},
                           connfd : Fds \cup {0}, address : Indexes]]
    /\ chosen \in Indexes

(* Round robin: a redirect goes to the next server that is not UNKNOWN     *)
(* after the server of the last redirect, and passes over no other.        *)
RoundRobin ==
    [][ main = "scan" /\ main' = "create" =>
          \E n \in 1..NumServers :
            /\ chosen' = (chosen + n) % NumServers
            /\ \A m \in 1..(n - 1) : status[(chosen + m) % NumServers] = "UNKNOWN"
      ]_balancerVars

(* The accept loop has gone on to the next client before a worker thread   *)
(* has copied the argument it was created with.                            *)
Overtaken == main # "accept" /\ \E k \in Fds : worker[k].state = "created"

(* A client is redirected in the end if no worker is overtaken and, from   *)
(* some time on, there is always a server known to run, though not always  *)
(* the same one ("create worker thread and hand the 'hard and dirty' work  *)
(* to them", feserver.cc).                                                 *)
RedirectedIfKnown ==
    \A fd \in Fds :
        []~ Overtaken /\ <>[](\E i \in Indexes : status[i] # "UNKNOWN") =>
            (connections[fd] = "waiting" ~> connections[fd] = "closed")

=============================================================================
