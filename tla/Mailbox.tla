------------------------------- MODULE Mailbox -------------------------------
(***************************************************************************)
(* Multithreaded-SMTP-POP3-email-servers: smtp.cc appends the mail it is   *)
(* given to mailbox files, pop3.cc lets a user read such a file and delete *)
(* from it.  They are two programs that share the files and nothing else;  *)
(* each has one thread per connection.                                     *)
(*                                                                         *)
(* A message in a file is its number in log, the record of what the SMTP   *)
(* server has been given.  A file is an inode; a path names one or none.   *)
(***************************************************************************)
EXTENDS Naturals, Sequences, FiniteSets, SequencesExt, FiniteSetsExt

CONSTANTS
    Users,          \* each has a mailbox file
    Senders,        \* SMTP connections
    Readers,        \* POP3 connections
    Lines,          \* lines a client may send after DATA
    Commands,       \* those that begin with HELO, MAIL or RCPT
    OneReader,      \* do users keep to one POP3 session at a time?
    MaxMails,       \* bound on the messages appended to files
    MaxLines,       \* bound on the lines sent for a mail
    MaxRcpts,       \* bound on the recipients of a mail
    MaxQuits,       \* bound on the mailbox rewrites
    MaxCrashes      \* bound on the restarts of the servers

NoFile == 0

ASSUME MailboxAssumption ==
    /\ OneReader \in BOOLEAN
    /\ Commands \subseteq Lines
    /\ {MaxMails, MaxLines, MaxRcpts, MaxQuits, MaxCrashes} \subseteq Nat
    /\ IsFiniteSet(Users) /\ IsFiniteSet(Senders) /\ IsFiniteSet(Readers)
    /\ NoFile \notin Users

(* One inode for each path, and one for each session that holds a file     *)
(* whose name has gone.                                                    *)
Inodes == 1..(2 * Cardinality(Users) + Cardinality(Readers))

VARIABLES
    content,        \* the messages in each inode
    mbox,           \* the inode of user.mbox
    mboxNew,        \* the inode of user.mbox.new
    MAILBOXES,      \* the mailboxes each server found when it started
    smtp,           \* the SMTP connections
    pop3,           \* the POP3 connections
    log,            \* the messages appended so far, and what was asked
    marked,         \* messages deleted with DELE and QUIT
    raced,          \* messages appended during a rewrite of their mailbox
    stranded,       \* messages left in user.mbox.new by a crash
    quits,
    crashes

files  == <<content, mbox, mboxNew>>
fate   == <<marked, raced, stranded>>
vars   == <<files, MAILBOXES, smtp, pop3, log, fate, quits, crashes>>

Box(u) == IF mbox[u] = NoFile THEN <<>> ELSE content[mbox[u]]

(* state: 0 connected, 1 HELO or RSET, 2 MAIL, 3 RCPT, 4 DATA, 5 finished; *)
(* todo: the recipients the mail is still to be written for.  asked and    *)
(* sent are what the client has asked for in this mail.                    *)
NewSmtp == [state |-> 0, is_data |-> FALSE, rcpts |-> <<>>, lines |-> <<>>,
            todo |-> <<>>, asked |-> <<>>, sent |-> <<>>]

NewPop3 == [state |-> "AUTHORIZATION", user |-> NoFile, messages |-> <<>>,
            deleted |-> {}, in |-> NoFile, new |-> NoFile, out |-> <<>>]

(* The mailboxes there are when a server starts.  smtp.cc leaves out the   *)
(* first two names it reads, whatever they are; pop3.cc leaves out the     *)
(* short ones, which are "." and "..".                                     *)
Present == {u \in Users : mbox[u] # NoFile}

get_mailboxes(server) ==
    IF server = "pop3" THEN {Present}
    ELSE {Present \ skipped : skipped \in {s \in SUBSET Present : Cardinality(s) <= 2}}

Init ==
    LET order == SetToSeq(Users)
    IN  /\ mbox = [u \in Users |-> CHOOSE i \in DOMAIN order : order[i] = u]
        /\ mboxNew = [u \in Users |-> NoFile]
        /\ content = [i \in Inodes |-> <<>>]
        /\ MAILBOXES \in [{"smtp", "pop3"} -> SUBSET Users]
        /\ \A server \in DOMAIN MAILBOXES : MAILBOXES[server] \in get_mailboxes(server)
        /\ smtp = [s \in Senders |-> NewSmtp]
        /\ pop3 = [r \in Readers |-> NewPop3]
        /\ log = <<>>
        /\ marked = {} /\ raced = {} /\ stranded = {}
        /\ quits = 0 /\ crashes = 0

(* An inode nothing refers to. *)
FreeInode ==
    CHOOSE i \in Inodes : /\ \A u \in Users : i \notin {mbox[u], mboxNew[u]}
                          /\ \A r \in Readers : i \notin {pop3[r].in, pop3[r].new}

-----------------------------------------------------------------------------
(* smtp.cc.  A thread reads the next command when it is done with the last *)
(* one.                                                                    *)
Idle(s) == smtp[s].todo = <<>>

Becomes(s, conn) ==
    /\ smtp' = [smtp EXCEPT ![s] = conn]
    /\ UNCHANGED <<files, MAILBOXES, pop3, log, fate, quits, crashes>>

handle_helo(s) ==
    /\ Idle(s) /\ smtp[s].state = 0
    /\ Becomes(s, [smtp[s] EXCEPT !.state = 1])

handle_mail(s) ==
    /\ Idle(s) /\ smtp[s].state = 1
    /\ Becomes(s, [smtp[s] EXCEPT !.state = 2])

handle_rcpt(s, u) ==
    /\ Idle(s) /\ smtp[s].state \in {2, 3}
    /\ u \in MAILBOXES["smtp"]
    /\ Len(smtp[s].rcpts) < MaxRcpts
    /\ Becomes(s, [smtp[s] EXCEPT !.state = 3, !.rcpts = Append(@, u),
                                  !.asked = Append(@, u)])

(* DATA, a line of text, and the line with a dot. *)
handle_data(s) ==
    /\ Idle(s) /\ smtp[s].state = 3
    /\ Becomes(s, [smtp[s] EXCEPT !.state = 4, !.is_data = TRUE])

(* HELO, MAIL and RCPT are looked for before anything else, in the text of *)
(* a mail, too: such a line is refused and does not become text.           *)
WithLine(lines, line) == IF line \in Commands THEN lines ELSE Append(lines, line)

Text(s, line) ==
    /\ smtp[s].is_data
    /\ Len(smtp[s].sent) < MaxLines
    /\ Becomes(s, [smtp[s] EXCEPT !.lines = WithLine(@, line), !.sent = Append(@, line)])

(* Messages in the files, and those the threads are writing. *)
Promised == Len(log) + MapThenSumSet(LAMBDA s : Len(smtp[s].todo), Senders)

Dot(s) ==
    /\ smtp[s].is_data
    /\ Promised + Len(smtp[s].rcpts) <= MaxMails
    /\ Becomes(s, [smtp[s] EXCEPT !.state = 5, !.is_data = FALSE, !.todo = smtp[s].rcpts])

(* Mutant: the text stays. *)
KeepText(conn) == [conn EXCEPT !.rcpts = <<>>]

(* The buffers a mail leaves behind are cleared. *)
Cleared(conn) == [conn EXCEPT !.lines = <<>>, !.rcpts = <<>>]

(* The client wants nothing of the next mail yet. *)
Forget(conn) == [conn EXCEPT !.asked = <<>>, !.sent = <<>>]

(* Mutant: RSET is looked for in the text, too. *)
RsetInText(s) ==
    /\ Idle(s) /\ smtp[s].state # 0
    /\ Becomes(s, [Forget(Cleared(smtp[s])) EXCEPT !.state = 1])

handle_rset(s) ==
    /\ Idle(s) /\ smtp[s].state # 0 /\ ~ smtp[s].is_data
    /\ Becomes(s, [Forget(Cleared(smtp[s])) EXCEPT !.state = 1])

(* QUIT, or a client that goes away: its thread never delivers anything,   *)
(* and the next client has a connection of its own.                        *)
handle_quit(s) ==
    /\ Idle(s) /\ smtp[s] # NewSmtp
    /\ Becomes(s, NewSmtp)

Rewriting(r, u) == pop3[r].user = u /\ pop3[r].state \in {"READ", "WRITTEN", "REMOVED"}

(* The text has the lines the client has sent for this mail in their       *)
(* order, all but those that begin as commands, which may be missing.      *)
OnlyCommandsMissing(text, sent) ==
    \E at \in [1..Len(text) -> 1..Len(sent)] :
        /\ \A i, j \in 1..Len(text) : i < j => at[i] < at[j]
        /\ \A i \in 1..Len(text) : text[i] = sent[at[i]]
        /\ \A k \in 1..Len(sent) :
             sent[k] \notin Commands => \E i \in 1..Len(text) : at[i] = k

(* The loop of handle_data: the mailbox of the next recipient is opened,   *)
(* and made if there is none, and the mail appended in one write.  After   *)
(* the last one the buffers are cleared.                                   *)
Deliver(s) ==
    LET conn == smtp[s]
        u    == Head(conn.todo)
        n    == Len(log) + 1
        box  == IF mbox[u] = NoFile THEN FreeInode ELSE mbox[u]
        left == [conn EXCEPT !.todo = Tail(@)]
    IN  /\ ~ Idle(s)
        /\ mbox' = [mbox EXCEPT ![u] = box]
        /\ content' = [content EXCEPT ![box] = IF mbox[u] = NoFile THEN <<n>> ELSE Append(@, n)]
        /\ log' = Append(log,
                [box   |-> u,
                 asked |-> u \in ToSet(conn.asked) /\ OnlyCommandsMissing(conn.lines, conn.sent)])
        /\ raced' = IF \E r \in Readers : Rewriting(r, u) THEN raced \cup {n} ELSE raced
        /\ smtp' = [smtp EXCEPT ![s] = IF left.todo = <<>> THEN Forget(Cleared(left)) ELSE left]
        /\ UNCHANGED <<mboxNew, MAILBOXES, pop3, marked, stranded, quits, crashes>>

SmtpStep ==
    \E s \in Senders :
        \/ handle_helo(s) \/ handle_mail(s) \/ handle_data(s) \/ Dot(s)
        \/ handle_rset(s) \/ handle_quit(s) \/ Deliver(s)
        \/ \E u \in Users : handle_rcpt(s, u)
        \/ \E line \in Lines : Text(s, line)

-----------------------------------------------------------------------------
(* pop3.cc.  USER and the right PASS: the mailbox is read into memory.  A  *)
(* user without a mailbox when the server started is refused.              *)
Using(r, u) == pop3[r].user = u

handle_pass(r, u) ==
    /\ pop3[r].state = "AUTHORIZATION"
    /\ u \in MAILBOXES["pop3"]
    /\ OneReader => \A other \in Readers : ~ Using(other, u)
    /\ pop3' = [pop3 EXCEPT ![r] = [NewPop3 EXCEPT !.state = "TRANSACTION", !.user = u,
                                                   !.messages = Box(u)]]
    /\ UNCHANGED <<files, MAILBOXES, smtp, log, fate, quits, crashes>>

handle_dele(r, i) ==
    /\ pop3[r].state = "TRANSACTION"
    /\ i \in 1..Len(pop3[r].messages) \ pop3[r].deleted
    /\ pop3' = [pop3 EXCEPT ![r].deleted = @ \cup {i}]
    /\ UNCHANGED <<files, MAILBOXES, smtp, log, fate, quits, crashes>>

Reset(r) ==
    /\ pop3[r].state = "TRANSACTION" /\ pop3[r].deleted # {}
    /\ pop3' = [pop3 EXCEPT ![r].deleted = {}]
    /\ UNCHANGED <<files, MAILBOXES, smtp, log, fate, quits, crashes>>

(* What the session has marked for deletion. *)
MarkedBy(r) == {pop3[r].messages[i] : i \in pop3[r].deleted}

(* QUIT opens user.mbox, and user.mbox.new, which is made or cut to        *)
(* nothing; ...                                                            *)
QuitOpen(r) ==
    LET u   == pop3[r].user
        new == IF mboxNew[u] = NoFile THEN FreeInode ELSE mboxNew[u]
    IN  /\ pop3[r].state = "TRANSACTION" /\ quits < MaxQuits
        /\ pop3' = [pop3 EXCEPT ![r].state = "OPENED", ![r].in = mbox[u], ![r].new = new]
        /\ mboxNew' = [mboxNew EXCEPT ![u] = new]
        /\ content' = [content EXCEPT ![new] = <<>>]
        /\ marked' = marked \cup MarkedBy(r)
        /\ quits' = quits + 1
        /\ UNCHANGED <<mbox, MAILBOXES, smtp, log, raced, stranded, crashes>>

(* Mutants: the count is off by one; every message is written twice. *)
KeptOff(r) ==
    LET old == content[pop3[r].in]
    IN  [i \in 1..Len(old) |-> IF i + 1 \in pop3[r].deleted THEN <<>> ELSE <<old[i]>>]

KeptTwice(r) ==
    LET old == content[pop3[r].in]
    IN  [i \in 1..Len(old) |-> IF i \in pop3[r].deleted THEN <<>> ELSE <<old[i], old[i]>>]

(* ... counts the messages as it reads them again, and leaves out those    *)
(* whose number is marked; ...                                             *)
Kept(r) ==
    LET old == IF pop3[r].in = NoFile THEN <<>> ELSE content[pop3[r].in]
    IN  [i \in 1..Len(old) |-> IF i \in pop3[r].deleted THEN <<>> ELSE <<old[i]>>]

QuitRead(r) ==
    /\ pop3[r].state = "OPENED"
    /\ pop3' = [pop3 EXCEPT ![r].state = "READ", ![r].out = FlattenSeq(Kept(r))]
    /\ UNCHANGED <<files, MAILBOXES, smtp, log, fate, quits, crashes>>

(* ... writes what is left from the start of the new file, ... *)
QuitClose(r) ==
    LET out == pop3[r].out
        was == content[pop3[r].new]
    IN  /\ pop3[r].state = "READ"
        /\ content' = [content EXCEPT ![pop3[r].new] =
                           out \o SubSeq(was, Len(out) + 1, Len(was))]
        /\ pop3' = [pop3 EXCEPT ![r].state = "WRITTEN"]
        /\ UNCHANGED <<mbox, mboxNew, MAILBOXES, smtp, log, fate, quits, crashes>>

(* ... removes user.mbox ... *)
QuitRemove(r) ==
    /\ pop3[r].state = "WRITTEN"
    /\ mbox' = [mbox EXCEPT ![pop3[r].user] = NoFile]
    /\ pop3' = [pop3 EXCEPT ![r].state = "REMOVED"]
    /\ UNCHANGED <<content, mboxNew, MAILBOXES, smtp, log, fate, quits, crashes>>

(* ... and gives the new file its name, if it still has the one it had.    *)
(* What the session has open and no path names any more is gone.           *)
QuitRename(r) ==
    LET u    == pop3[r].user
        open == {pop3[r].in, pop3[r].new}
        held == {mbox'[v] : v \in Users} \cup {mboxNew'[v] : v \in Users}
                    \cup {pop3'[o].in : o \in Readers} \cup {pop3'[o].new : o \in Readers}
    IN  /\ pop3[r].state = "REMOVED"
        /\ IF mboxNew[u] = NoFile
           THEN UNCHANGED <<mbox, mboxNew>>
           ELSE /\ mbox' = [mbox EXCEPT ![u] = mboxNew[u]]
                /\ mboxNew' = [mboxNew EXCEPT ![u] = NoFile]
        /\ pop3' = [pop3 EXCEPT ![r] = NewPop3]
        /\ content' = [i \in Inodes |-> IF i \in open \ held THEN <<>> ELSE content[i]]
        /\ UNCHANGED <<MAILBOXES, smtp, log, fate, quits, crashes>>

Pop3Step ==
    \E r \in Readers :
        \/ \E u \in Users : handle_pass(r, u)
        \/ \E i \in 1..MaxMails : handle_dele(r, i)
        \/ Reset(r) \/ QuitOpen(r) \/ QuitRead(r) \/ QuitClose(r)
        \/ QuitRemove(r) \/ QuitRename(r)

-----------------------------------------------------------------------------
(* A server is stopped, in the middle of what its threads do, and started  *)
(* again.                                                                  *)
NotRenamed(u) == IF mboxNew[u] = NoFile THEN {} ELSE ToSet(content[mboxNew[u]])

Restart(server) ==
    /\ crashes < MaxCrashes
    /\ crashes' = crashes + 1
    /\ \E found \in get_mailboxes(server) : MAILBOXES' = [MAILBOXES EXCEPT ![server] = found]
    /\ IF server = "smtp"
       THEN /\ smtp' = [s \in Senders |-> NewSmtp]
            /\ UNCHANGED <<pop3, stranded>>
       ELSE /\ pop3' = [r \in Readers |-> NewPop3]
            /\ stranded' = stranded \cup
                   UNION {NotRenamed(u) \ ToSet(Box(u)) : u \in Users}
            /\ UNCHANGED smtp
    /\ UNCHANGED <<files, log, marked, raced, quits>>

Next ==
    \/ SmtpStep
    \/ Pop3Step
    \/ \E server \in {"smtp", "pop3"} : Restart(server)

Spec == Init /\ [][Next]_vars

-----------------------------------------------------------------------------
(* Type invariant. *)
TypeOK ==
    /\ content \in [Inodes -> Seq(1..MaxMails)]
    /\ mbox \in [Users -> Inodes \cup {NoFile}]
    /\ mboxNew \in [Users -> Inodes \cup {NoFile}]
    /\ MAILBOXES \in [{"smtp", "pop3"} -> SUBSET Users]
    /\ \A s \in Senders :
         /\ smtp[s].state \in 0..5
         /\ smtp[s].is_data <=> smtp[s].state = 4
         /\ smtp[s].lines \in Seq(Lines)
         /\ smtp[s].rcpts \in Seq(Users)
    /\ \A r \in Readers :
         /\ pop3[r].state \in {"AUTHORIZATION", "TRANSACTION", "OPENED", "READ",
                               "WRITTEN", "REMOVED"}
         /\ pop3[r].user \in Users \cup {NoFile}
         /\ pop3[r].deleted \subseteq 1..Len(pop3[r].messages)
    /\ Len(log) <= MaxMails
    /\ marked \cup raced \cup stranded \subseteq 1..Len(log)

(* Every message in a mailbox went there because the client had named the  *)
(* mailbox in that mail; its text is all the client sent for it, in order, *)
(* but for the lines that begin with HELO, MAIL or RCPT, which are lost:   *)
(* neither RSET, a refused command nor the end of a mail leaves anything   *)
(* behind for the next one, or takes anything else from this one.          *)
AsAsked == \A n \in 1..Len(log) : log[n].asked

(* A mailbox has its messages in the order they came, each once, and none  *)
(* of another mailbox.                                                     *)
InOrder ==
    \A u \in Users :
        LET box == Box(u)
        IN  /\ \A i, j \in 1..Len(box) : i < j => box[i] < box[j]
            /\ \A i \in 1..Len(box) : log[box[i]].box = u

(* A message that was appended and is not in its mailbox, when no rewrite  *)
(* is under way, has been deleted by its reader, or came during a rewrite, *)
(* or is in the file a stopped server had not renamed yet.                 *)
Lost(n) ==
    /\ n \notin ToSet(Box(log[n].box))
    /\ \A r \in Readers : Using(r, log[n].box) => pop3[r].state = "TRANSACTION"

LossExplained == \A n \in 1..Len(log) : Lost(n) => n \in marked \cup raced \cup stranded

=============================================================================
