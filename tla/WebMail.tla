------------------------------- MODULE WebMail -------------------------------
(***************************************************************************)
(* Accounts and mail of PennCloud: the requests of the account and inbox   *)
(* pages (FE_server/httpservice.cc), each handled by a thread of its own,  *)
(* a session of the SMTP gateway (FE_server/SMTP_external_to_bigtables.cc),*)
(* the master they ask (common/MasterServiceImpl.cc) and the groups of     *)
(* servers it sends them to.  The steps are the calls a handler makes.     *)
(*                                                                         *)
(* A group is one store: how its servers agree is the subject of           *)
(* Replication.  A mail stands for its uid, the hash of its sender, text   *)
(* and date to the second; the gateway hashes sender and date only.        *)
(***************************************************************************)
EXTENDS Naturals, Sequences, FiniteSets, SequencesExt

CONSTANTS
    Groups,         \* the groups of back-end servers
    Users,
    Passwords,
    None,           \* the empty password: there is no user
    WebMails,       \* mails written on the page
    GateMails,      \* uids of mails that come to the gateway
    Browsers,       \* threads of the front end that handle requests
    gateway,        \* the thread of the gateway's session
    MaxReceivers,   \* bound on the receivers of one mail
    MaxRequests     \* bound on the requests and mails of a behaviour

ASSUME WebMailAssumption ==
    /\ None \notin Passwords
    /\ gateway \notin Browsers
    /\ WebMails \cap GateMails = {} /\ "password" \notin WebMails \cup GateMails
    /\ None \notin Users
    /\ MaxReceivers \in Nat /\ MaxRequests \in Nat

Threads == Browsers \cup {gateway}
Mails   == WebMails \cup GateMails
Keys    == [user : Users, uid : Mails \cup {"password"}]

VARIABLES
    metadata,       \* the master's: the group of every uid of a user
    password,       \* the password each group keeps for a user
    mails,          \* the mails each group keeps
    job,            \* what a thread is doing
    pc,             \* the call it makes next
    smtp,           \* the session of the gateway
    requests,       \* how many there have been
    held,           \* history: passwords of the user during a request, and
                    \* None if there was no account
    sent,           \* history: mails that were acknowledged
    excused         \* history: mails deleted, or whose storing failed

gates   == <<smtp, requests>>
stores  == <<metadata, password, mails>>
history == <<sent, excused>>
vars    == <<stores, job, pc, gates, held, history>>

(* The states of a session, as numbered in the source. *)
INITI == 0
HELO_MAIL == 1
MAIL_RCPT == 2
RCPT_DATA == 3
STATE_DATA == 4

NoJob == [op |-> "none", user |-> None, uid |-> None, old |-> None, value |-> None,
          all |-> <<>>, to |-> <<>>, group |-> None, page |-> "home"]

Init ==
    /\ metadata = <<>>
    /\ password = [g \in Groups |-> [u \in Users |-> None]]
    /\ mails = [g \in Groups |-> {}]
    /\ job = [t \in Threads |-> NoJob]
    /\ pc = [t \in Threads |-> "idle"]
    /\ smtp = [state |-> INITI, receivers |-> <<>>]
    /\ requests = 0
    /\ held = [t \in Threads |-> {}]
    /\ sent = {} /\ excused = {}

KeyOf(j)     == [user |-> j.user, uid |-> j.uid]
Account(u)   == [user |-> u, uid |-> "password"]
PasswordOf(u) ==
    IF Account(u) \in DOMAIN metadata THEN password[metadata[Account(u)]][u] ELSE None

(* Those that any group keeps: two registrations of a name may reach two.  *)
PasswordsOf(u) ==
    ({password[g][u] : g \in Groups} \ {None})
        \cup (IF Account(u) \in DOMAIN metadata THEN {} ELSE {None})

-----------------------------------------------------------------------------
(* The passwords a user has from the request about them to its answer. *)
Noted ==
    LET now == [u \in Users |-> PasswordsOf(u)']
    IN  [t \in Threads |-> IF pc'[t] = "idle" \/ job'[t].uid # "password" THEN {}
                           ELSE held[t] \cup now[job'[t].user]]

(* A request comes to a thread of the front end; its first call is c. *)
Ask(t, j, c) ==
    /\ pc[t] = "idle"
    /\ requests < MaxRequests
    /\ requests' = requests + 1
    /\ job' = [job EXCEPT ![t] = j]
    /\ pc' = [pc EXCEPT ![t] = c]
    /\ UNCHANGED <<stores, smtp, sent>>
    /\ held' = Noted

HandleRegister(t, u, p) ==
    /\ Ask(t, [NoJob EXCEPT !.op = "register", !.user = u, !.uid = "password",
                            !.value = p], "find")
    /\ UNCHANGED excused

HandleLogin(t, u, p) ==
    /\ Ask(t, [NoJob EXCEPT !.op = "login", !.user = u, !.uid = "password", !.old = p],
           "find")
    /\ UNCHANGED excused

HandleCHPWD(t, u, p, q) ==
    /\ Ask(t, [NoJob EXCEPT !.op = "chpwd", !.user = u, !.uid = "password", !.old = p,
                            !.value = q], "find")
    /\ UNCHANGED excused

(* The receivers at penncloud.com, in order, after those elsewhere. *)
HandleSendEmail(t, to, m) ==
    /\ Ask(t, [NoJob EXCEPT !.op = "send", !.user = Head(to), !.uid = m, !.all = to,
                            !.to = Tail(to)], "external")
    /\ UNCHANGED excused

(* A mail is deleted from a page that lists it. *)
HandleDELETE(t, u, m) ==
    /\ [user |-> u, uid |-> m] \in DOMAIN metadata
    /\ Ask(t, [NoJob EXCEPT !.op = "delete", !.user = u, !.uid = m], "choose")
    /\ excused' = excused \cup {[user |-> u, uid |-> m]}

-----------------------------------------------------------------------------
Goto(t, c) == pc' = [pc EXCEPT ![t] = c] /\ UNCHANGED job

(* The page says success or failed. *)
Answer(t, page) ==
    /\ pc' = [pc EXCEPT ![t] = "idle"]
    /\ job' = [job EXCEPT ![t] = [NoJob EXCEPT !.page = page]]

(* A server elsewhere is connected to, or not; what it replies goes unread. *)
External_SMTP(t) ==
    /\ pc[t] = "external"
    /\ Goto(t, "find") \/ Answer(t, "failed")
    /\ UNCHANGED <<stores, gates, history>>
    /\ held' = Noted

(* The master is asked for a server that has the user's password.  It      *)
(* names none also when no server of the group runs, so that a handler     *)
(* cannot tell this from a user who does not exist.                        *)
RequestRead(t) ==
    LET j     == job[t]
        known == Account(j.user) \in DOMAIN metadata
    IN  /\ pc[t] = "find"
        /\ UNCHANGED <<stores, gates, history>>
        /\ \E found \in {known, FALSE} :
              /\ CASE j.op = "register" /\ ~found -> Goto(t, "choose")
                   [] j.op = "send" /\ found -> Goto(t, "choose")
                   [] j.op \in {"login", "chpwd"} /\ found ->
                        /\ job' = [job EXCEPT ![t].group = metadata[Account(j.user)]]
                        /\ pc' = [pc EXCEPT ![t] = "verify"]
                   [] OTHER -> Answer(t, "failed")
              /\ held' = IF found \/ pc'[t] = "idle" THEN Noted
                         ELSE [Noted EXCEPT ![t] = @ \cup {None}]

(* Mutant: a change of the password is not compared. *)
GetUserOfLogin(t) ==
    LET j == job[t]
    IN  /\ pc[t] = "verify"
        /\ \E real \in {password[j.group][j.user], None} :
              IF j.op = "chpwd" THEN Goto(t, "choose")
              ELSE Answer(t, IF real = j.old THEN "success" ELSE "failed")
        /\ UNCHANGED <<stores, gates, history>>
        /\ held' = Noted

(* That server is asked for the password, which is compared.  If the call  *)
(* fails the password is the empty one.                                    *)
GetUser(t) ==
    LET j == job[t]
    IN  /\ pc[t] = "verify"
        /\ \E real \in {password[j.group][j.user], None} :
              IF real # j.old THEN Answer(t, "failed")
              ELSE IF j.op = "chpwd" THEN Goto(t, "choose") ELSE Answer(t, "success")
        /\ UNCHANGED <<stores, gates, history>>
        /\ held' = Noted

-----------------------------------------------------------------------------
(* RequestWrite: a uid the master knows stays in its group; for another    *)
(* any group may have the least load.                                      *)
chooseServerGroup(k) == IF k \in DOMAIN metadata THEN {metadata[k]} ELSE Groups

Choose(t) ==
    /\ pc[t] = "choose"
    /\ \E g \in chooseServerGroup(KeyOf(job[t])) :
            job' = [job EXCEPT ![t].group = g]
    /\ pc' = [pc EXCEPT ![t] = "store"]
    /\ UNCHANGED <<stores, gates, history>>
    /\ held' = Noted

(* The next receiver of a mail; after the last the mail is acknowledged.   *)
(* Only the front end asks whether a receiver exists.                      *)
NextReceiver(t) ==
    LET j == job[t]
    IN  IF j.to = <<>>
        THEN /\ Answer(t, "success")
             /\ sent' = sent \cup {[user |-> u, uid |-> j.uid] : u \in ToSet(j.all)}
        ELSE /\ job' = [job EXCEPT ![t].user = Head(j.to), ![t].to = Tail(j.to)]
             /\ pc' = [pc EXCEPT ![t] = IF j.op = "send" THEN "find" ELSE "choose"]
             /\ UNCHANGED sent

(* Mutant: the front end does not look at a failed write of a mail either. *)
FailedUnseen(t) ==
    IF job[t].op \in {"relay", "send"}
    THEN NextReceiver(t) /\ UNCHANGED excused
    ELSE /\ Answer(t, IF job[t].op = "delete" THEN "inbox" ELSE "failed")
         /\ UNCHANGED history

(* What a handler does when RequestWrite has failed; the gateway does not  *)
(* look.                                                                   *)
Failed(t) ==
    IF job[t].op = "relay"
    THEN NextReceiver(t) /\ excused' = excused \cup {KeyOf(job[t])}
    ELSE /\ Answer(t, IF job[t].op = "delete" THEN "inbox" ELSE "failed")
         /\ UNCHANGED history

(* A mail that a group does not have cannot be deleted there.              *)
Refuses(j) == j.op = "delete" /\ KeyOf(j) \notin mails[j.group]

(* Mutant: the table is searched by the uid alone. *)
HandleByUid(j) ==
    /\ password' = IF j.op \in {"register", "chpwd"}
                   THEN [password EXCEPT ![j.group][j.user] = j.value] ELSE password
    /\ mails' = CASE j.op \in {"send", "relay"} ->
                       [mails EXCEPT ![j.group] = @ \cup {KeyOf(j)}]
                  [] j.op = "delete" ->
                       [mails EXCEPT ![j.group] = {k \in @ : k.uid # j.uid}]
                  [] OTHER -> mails

(* What a group does. *)
Handle(j) ==
    /\ password' = IF j.op \in {"register", "chpwd"}
                   THEN [password EXCEPT ![j.group][j.user] = j.value] ELSE password
    /\ mails' = CASE j.op \in {"send", "relay"} ->
                       [mails EXCEPT ![j.group] = @ \cup {KeyOf(j)}]
                  [] j.op = "delete" ->
                       [mails EXCEPT ![j.group] = @ \ {KeyOf(j)}]
                  [] OTHER -> mails

Store(t) ==
    LET j == job[t]
    IN  /\ pc[t] = "store"
        /\ \/ /\ ~Refuses(j)
              /\ Handle(j)
              /\ Goto(t, "record") /\ UNCHANGED history
           \/ Failed(t) /\ UNCHANGED <<password, mails>>
        /\ UNCHANGED <<metadata, gates>>
        /\ held' = Noted

(* The primary dies after the group has done it and before it answers.     *)
AnswerLost(t) ==
    LET j == job[t]
    IN  /\ pc[t] = "store" /\ ~Refuses(j)
        /\ Handle(j)
        /\ Failed(t)
        /\ UNCHANGED <<metadata, gates>>
        /\ held' = Noted

Recorded(k, g) == [l \in DOMAIN metadata \cup {k} |-> IF l = k THEN g ELSE metadata[l]]

(* The master notes where the uid is now, or that it is nowhere.           *)
Record(t) ==
    LET j == job[t]
        k == KeyOf(j)
    IN  /\ pc[t] = "record"
        /\ metadata' = IF j.op = "delete"
                       THEN [l \in DOMAIN metadata \ {k} |-> metadata[l]]
                       ELSE Recorded(k, j.group)
        /\ CASE j.op \in {"send", "relay"} -> NextReceiver(t)
             [] j.op = "delete"            -> Answer(t, "inbox") /\ UNCHANGED sent
             [] OTHER                      -> Answer(t, "success") /\ UNCHANGED sent
        /\ UNCHANGED <<password, mails, gates, excused>>
        /\ held' = Noted

-----------------------------------------------------------------------------
(* The gateway: a line of its session. *)
Line ==
    /\ pc[gateway] = "idle"
    /\ UNCHANGED <<stores, history, held>>

Says(state, receivers) ==
    /\ smtp' = [state |-> state, receivers |-> receivers]
    /\ UNCHANGED <<job, pc, requests>>

handle_helo == Line /\ smtp.state = INITI /\ Says(HELO_MAIL, <<>>)

(* A sender may be empty, so that the last one is kept. *)
ParseMailFrom == Line /\ smtp.state = HELO_MAIL /\ Says(MAIL_RCPT, smtp.receivers)

(* Nobody asks whether the receiver exists. *)
ParseRcptTo(u) ==
    /\ Line
    /\ smtp.state \in {MAIL_RCPT, RCPT_DATA}
    /\ Len(smtp.receivers) < MaxReceivers
    /\ Says(RCPT_DATA, Append(smtp.receivers, u))

(* Mutant: the receivers go and the state stays. *)
RsetReceivers == Line /\ smtp.state # STATE_DATA /\ Says(smtp.state, <<>>)

(* RSET answers like a HELO without a name: the receivers stay. *)
Rset == Line /\ smtp.state # STATE_DATA /\ Says(INITI, smtp.receivers)

(* QUIT, also at the beginning of a line of text, ends a session and the   *)
(* mail it is taking; the next one begins as all do.                       *)
Quit == Line /\ Says(INITI, <<>>)

(* DATA: the mail gets its uid, *)
WhetherStartData(m) ==
    /\ Line
    /\ smtp.state = RCPT_DATA
    /\ requests < MaxRequests
    /\ requests' = requests + 1
    /\ smtp' = [smtp EXCEPT !.state = STATE_DATA]
    /\ job' = [job EXCEPT ![gateway] = [NoJob EXCEPT !.uid = m]]
    /\ UNCHANGED pc

(* and after its last line it is written for all the receivers.  They stay *)
(* for the next mail.                                                      *)
Transmission_DATA ==
    /\ Line
    /\ smtp.state = STATE_DATA
    /\ smtp' = [smtp EXCEPT !.state = HELO_MAIL]
    /\ job' = [job EXCEPT ![gateway] =
                 [@ EXCEPT !.op = "relay", !.user = Head(smtp.receivers),
                           !.all = smtp.receivers, !.to = Tail(smtp.receivers)]]
    /\ pc' = [pc EXCEPT ![gateway] = "choose"]
    /\ UNCHANGED requests

Receivers == SeqOf(Users, MaxReceivers) \ {<<>>}

Next ==
    \/ \E t \in Browsers, u \in Users, p \in Passwords :
            HandleRegister(t, u, p) \/ HandleLogin(t, u, p)
    \/ \E t \in Browsers, u \in Users, p, q \in Passwords : HandleCHPWD(t, u, p, q)
    \/ \E t \in Browsers, to \in Receivers, m \in WebMails : HandleSendEmail(t, to, m)
    \/ \E t \in Browsers, u \in Users, m \in Mails : HandleDELETE(t, u, m)
    \/ \E t \in Browsers : External_SMTP(t) \/ RequestRead(t) \/ GetUser(t)
    \/ \E t \in Threads : Choose(t) \/ Store(t) \/ AnswerLost(t) \/ Record(t)
    \/ handle_helo \/ ParseMailFrom \/ \E u \in Users : ParseRcptTo(u)
    \/ Rset \/ Quit \/ Transmission_DATA
    \/ \E m \in GateMails : WhetherStartData(m)

Spec == Init /\ [][Next]_vars

-----------------------------------------------------------------------------
Steps == {"idle", "external", "find", "verify", "choose", "store", "record"}
Jobs  == [op    : {"none", "register", "login", "chpwd", "send", "delete", "relay"},
          user  : Users \cup {None},
          uid   : Mails \cup {"password", None},
          old   : Passwords \cup {None},
          value : Passwords \cup {None},
          all   : Seq(Users),
          to    : Seq(Users),
          group : Groups \cup {None},
          page  : {"home", "inbox", "success", "failed"}]

(* What a thread works on when it makes a call. *)
JobOK(t) ==
    LET j == job[t]
    IN  /\ j.user \in Users
        /\ IF t = gateway THEN j.op = "relay" ELSE j.op \notin {"none", "relay"}
        /\ j.uid \in (IF j.op \in {"register", "login", "chpwd"} THEN {"password"} ELSE Mails)
        /\ pc[t] \in {"verify", "store", "record"} => j.group \in Groups

(* Types; a thread that is not idle has a job on a key of the table, and   *)
(* the gateway takes a mail only after a receiver.                         *)
TypeOK ==
    /\ DOMAIN metadata \subseteq Keys
    /\ \A k \in DOMAIN metadata : metadata[k] \in Groups
    /\ password \in [Groups -> [Users -> Passwords \cup {None}]]
    /\ mails \in [Groups -> SUBSET [user : Users, uid : Mails]]
    /\ pc \in [Threads -> Steps]
    /\ job \in [Threads -> Jobs]
    /\ \A t \in Threads : pc[t] # "idle" => JobOK(t)
    /\ smtp \in [state : INITI..STATE_DATA, receivers : Seq(Users)]
    /\ Len(smtp.receivers) <= MaxReceivers
    /\ smtp.state \in {RCPT_DATA, STATE_DATA} => smtp.receivers # <<>>
    /\ requests \in 0..MaxRequests
    /\ held \in [Threads -> SUBSET (Passwords \cup {None})]
    /\ sent \cup excused \subseteq [user : Users, uid : Mails]

Readable(k) == k \in DOMAIN metadata /\ k \in mails[metadata[k]]

(* A mail whose page says success, or that the gateway has answered with   *)
(* 250, can be read by every receiver, whatever else goes on: unless the   *)
(* receiver has asked for its deletion, or the gateway has not looked at   *)
(* the failure of a write.                                                 *)
SentArrives == \A k \in sent \ excused : Readable(k)

(* The list of a user is read from the metadata, and the mails one by one  *)
(* from the groups: a mail that is listed is there, unless the user has    *)
(* asked for its deletion.                                                 *)
ListedReadable ==
    \A k \in DOMAIN metadata : k.uid # "password" => Readable(k) \/ k \in excused

(* A password changes only for a registration during which the account did *)
(* not exist, or no server that has it ran, and for a change during which  *)
(* the old password was the user's; and a login succeeds only with one     *)
(* that was the user's during the login.                                   *)
AccountKept ==
    [][/\ \A u \in Users : PasswordOf(u)' # PasswordOf(u) =>
            \E t \in Browsers :
                /\ pc[t] \in {"store", "record"} /\ job[t].user = u
                /\ \/ job[t].op = "register" /\ None \in held[t]
                   \/ job[t].op = "chpwd" /\ job[t].old \in held[t]
       /\ \A t \in Browsers :
            pc[t] = "verify" /\ job[t].op = "login" /\ job'[t].page = "success"
                => job[t].old \in held[t]]_vars
=============================================================================
