# PennCloud and the CIS 505 servers: TLA+ specifications and proofs

The repository holds four programs, written for one course and sharing no code:

- `src/Distributed-chat-server`: chat servers that multicast over UDP in unordered, FIFO,
  total or causal order;
- `src/PennCloud`: a small cloud (master, replicated back-end servers, front-end HTTP
  servers, load balancer, admin console) over gRPC;
- `src/Multithreaded-SMTP-POP3-email-servers`: SMTP, POP3 and echo servers with a thread
  per client;
- `src/Parallel-Sorting`: a sort by threads, or by processes over pipes or shared memory.

This directory specifies their protocols and stateful algorithms and model-checks them with
TLC on small instances. Every safety
property that a passing run checks is also proved with TLAPS, for all sizes (section 6). (Where a run puts two
programs side by side, of which one moves, each property is proved of the specification of its own
program: `BalancerSpec`, `HistorySpec`, `TableSpec`, `SortSpec`.)

## 1. Inventory

| Component (source) | State | Operations | Interacts with | What is hard | What makes it correct |
|---|---|---|---|---|---|
| Chat: clients and rooms (`chatserver.cc` 18-27, 324-492) | `CLIENTS`: who is registered, in which room | first datagram, `/join`, `/part`, `/quit`, text, `forward_to_clients` | ordering modes, by calls; clients, by UDP | clients come and go while texts are under way | a client sees the texts of a room in the order of the mode |
| Chat: FIFO (508-532) | `FIFO_MESSAGE_ID`, `RECEIVED`, hold-back queue by sender and room | post; datagram of a server | other servers, by UDP | loss, duplication, reordering | forwarded = prefix of posted; nothing deliverable is held |
| Chat: total order (566-638) | `PROPOSED`, `AGREED`, queue by (number, server), proposals by text | post; NEW_MESSAGE, PROPOSAL, AGREEMENT | other servers | three phases of several posts interleave; texts found by content; iterators used after `erase` | one order per room at every server |
| Chat: causal order (534-564, 640-656) | vector clock, queue of clocks | post; datagram | other servers | overtaking datagrams; queue changed while it is walked | clock = consistent cut; a text after all that its poster had seen |
| Master: failover (`MasterServer.cc` 35-84) | deque of servers per group, status of each | heartbeat round; move a failed primary to the tail | back end, by heartbeat calls; RequestWrite and reads, which copy the deque | deaths, late answers, deque changed in two steps and without the lock | the deque loses nobody; only a primary that answered and then failed is moved; such a primary is moved |
| Master: writes (`MasterServiceImpl.cc` 74-192) | `metadataMap`, `loadMap`, `seqNumMap` | RequestWrite, reads, rename | front end; primaries | state read under the lock, used after a call under another | metadata and loads agree with what is stored |
| Back end: replication (`WriteServiceImpl.cc` 302-367) | log; the table | WriteCommand at primary and replica | master, other servers | a thread per call, deaths in the middle, failures of replicas forgotten | what was reported as done is on every live server |
| Back end: recovery (`WriteServiceImpl.h` 49-79, `Logger.cpp`, `ServerTo*`) | log, request queue, state | replay of own log and of the primary's; AskForPrimary, AskForLog | master, primary | crash during replay, writes during recovery, log lock not released on error | after recovery the server holds what its peers hold |
| Back end: big table (`BigTable.cpp`) | metadata, memory buffer, disk files, lazy deletions | put, cput, get, dele, dele_disk, checkpoint | repositories, by calls | offsets across flush and compaction; names deleted while buffered | a file reads as it was last put |
| Back end: repositories (`*RepositoryImpl.cc`, handlers of `WriteServiceImpl.cc` 13-300) | file lists, e-mails, users in the table | upload, list, rename, delete, mail, register | front end; table | list, content and metadata changed by several calls; names matched by prefix | what is listed can be read; a request touches what its name matches |
| Load balancer (`LoadBalancer.cc`, `feserver.cc` 121-216, 527-615) | status of each front end, `counter`, lock, worker threads | heartbeat, accept, getRedirectAddress, worker | front ends; browsers | lock held while waiting, argument on the stack of another thread | round robin; every client answered |
| Front end: HTTP (`httpservice.cc`, `feserver.cc`) | cookies, threads | register, login, pages, upload, mail | back end, by gRPC | a request is several calls, with others in between; any of them may fail | what a page calls a success is so; an account changes only for its owner |
| SMTP gateway (`SMTP_external_to_bigtables.cc`) | SMTP session | SMTP commands | back end | several recipients, one write fails; what a mail leaves behind for the next | mail accepted = mail stored |
| Admin console | none of its own | show tables and statuses, kill a server | master, back end | none | none beyond those of what it calls |
| Mail: SMTP, POP3 (`smtp.cc`, `pop3.cc`) | session automaton; mailbox files | commands; append; QUIT rewrites the file without the marked messages | each other, through the files | POP3 marks by position in a snapshot, file changed by others, no lock | no message is lost unless deleted, nor in the wrong box or order |
| Mail: dispatcher (`smtp.cc`, `pop3.cc`, `echoserver.cc`) | open connections | accept, thread per client, SIGINT | clients | address of a loop variable given to a thread | one thread for one client |
| Parallel sort (`mysort.cc`) | pipes, shared memory with flags | split, sort, merge | its own processes | flags in shared memory reset after fork | the output is the sorted input |
| Chat client and test tools; vendored JSON, generated protocol code, views | | | | | not of interest here |

## 2. Plan

The order of the modules follows what the rest stands on: first the distributed protocols
(chat orders, failover, replicated writes) and the big table, then the load balancer, then the
programs and services above them (`Drive`, `WebMail`), the two programs that stand
alone (`Mailbox`, `ParallelSort`), and the recovery of a back-end server (`Recovery`).

Abstract specifications: `FifoMulticast` (learn the posts of each sender in order), refined by
`ChatFifo`, and `KeyValue` (a cell holds what was put last), refined by `BigTable`.

What could come next:

1. the steps of a recovering server before its constructor, once the program that takes them
   (`sample` in `BE_server/README.txt`) is there to be read;
2. checkpoint and load of the big table;
3. unordered mode of the chat server.

## 3. Modules

| Module | Models | Notes |
|---|---|---|
| `ChatServers` | `SERVERS`, rooms, `forward_to_servers` | base of the chat modules |
| `ChatClients` | `CLIENTS`, commands, `forward_to_clients` | `inbox` is history |
| `ChatFifo`, `MCChatFifo` | fifo mode | extends `ChatClients` |
| `FifoMulticast` | abstract: learn the posts of each sender in order | refined by `ChatFifo` |
| `ChatFifo_proofs` | theorems about `ChatFifo` | |
| `ChatTotal` | total mode | texts are contents |
| `ChatCausal`, `MCChatCausal` | causal mode | the loops are recursive functions |
| `ChatOrder`, `MCChatOrder` | `ChatTotal` and `ChatCausal` together | a chat runs in one of the modes |
| `ChatOrder_proofs` | theorems about `ChatTotal`, `ChatCausal` and `ChatOrder` | |
| `Failover` | heartbeat thread, deque, back-end processes | |
| `FailoverHistory` | `Failover`, with what the calls have found of each server | `seen` is history |
| `Failover_proofs` | theorems about `Failover` and `FailoverHistory` | |
| `Replication`, `MCReplication` | RequestWrite, WriteCommand | extends `Failover`: same deque, read while the heartbeat thread changes it |
| `Replication_proofs` | theorems about `Replication` | extends `Failover_proofs` |
| `Recovery` | log, replay, AskForPrimary, AskForLog, with writes and deaths | extends `Failover`; any number of groups |
| `Recovery_proofs` | theorems about `Recovery` | extends `Failover_proofs` |
| `BigTable` | the table, buffer, disk files | |
| `KeyValue` | abstract: a cell holds what was last put | refined by `BigTable` |
| `LoadBalancer` | heartbeat thread, accept loop, workers | |
| `MCHeartbeats` | instances of `FailoverHistory` and `LoadBalancer` | the two programs that poll; one of them moves |
| `Drive`, `MCDrive` | requests of the drive page: front end, master, list and contents | |
| `Storage_proofs` | theorems about `Drive` and `BigTable` | what the two share is the lemmas on `FlattenSeq` |
| `WebMail`, `MCWebMail` | accounts, mail pages, SMTP gateway, master, cells | |
| `FrontEnd_proofs` | theorems about `LoadBalancer` and `WebMail` | the two share nothing |
| `Mailbox` | SMTP and POP3 servers over mailbox files | |
| `ParallelSort` | parent and workers, three ways of passing numbers | |
| `MCTableAndSort` | `BigTable` and `ParallelSort` | the two programs that speak to no other; one of them moves |
| `MailSort_proofs` | theorems about `Mailbox` and `ParallelSort` | what the two share is a lemma on numbers |

Variables and actions have the names of the code's variables and functions. Definitions
marked "Mutant" are plausible bugs (a dropped guard, an off-by-one, a missing reset); no
specification uses them. Replacing the definition they stand for by one of them violates
a property, which shows that the property depends on the code being as it is.

### Chat servers

A server is a loop over `recvfrom`: it handles a datagram to its end, so a pass of the loop
is one action. `net` is the set of datagrams under way; taking any member of it is reordering,
`ReceiveCopy` duplication and `Lose` loss. In fifo mode a text is named by its number among
those posted in a room through a server: neither `handle_fifo_order` nor the clients' code
looks at more. In total mode the program compares texts, so a text is a content, and
`Repeats` says whether two posts may have the same one. `LastInRun` is the while loop
over the hold-back queue: how far it gets. `Agree` and `Ready` are the two range-for loops
of the AGREEMENT branch (`InKeyOrder` the order in which the second takes entries off the map), and
`Deliver`/`Pass`/`Passes` the loops of `handle_causal_order`, with the
entry that an `erase` makes it skip. The outer one is over when a pass delivers nothing; in the model it
makes as many passes as there are entries, after which none can be delivered (`CausalQueueDrained`).

Undefined behaviour. In the AGREEMENT branch, `erase` invalidates the iterator the range-for
goes on with, and `begin()` of an emptied queue is dereferenced. `Agree` chooses which of
several entries of one text are met after the first; with `Crashes` the server may die at
either place, before or after forwarding (`up`).

### Master and back end

`Failover` splits the heartbeat thread where other threads can see the difference: the call,
which is made without the lock; the store of the answer; `pop_front`; `push_back`.
`Suspects` lets the call to a running server miss its deadline. `FailoverHistory` notes in `seen`, from what the
calls return and from what the server was at the time, whether a server answered the last call, or answered
only the one before and was dead or late at the last, or neither; the statuses of the master cannot
tell these apart, as UNKNOWN is also what they are at the start. `Replication` adds the master's
handler of a write in two steps around the call of the primary (`RequestWrite`, `Return`),
and the primary's thread: for each replica and then for itself, log and apply, with a server
death possible between any two. The lists `req[w].servers` are the copy of the deque that
travels with the write. `overlap` is history: it lets properties speak of writes made one
at a time. `store` holds one cell for each file, as for e-mails and passwords.

`Recovery` lets the servers come back. A server that is started again goes through `ReadLog`, `AskForPrimary`,
`AskForLog`, and then the constructor of `WriteServiceImpl`: `Clear`, `Replay` once for each request
of its queue, `EndRecovery`; any other server's or the master's step, and a `Crash`, may come between two of
them. The program that calls the constructor is not in the repository. That it reads its own log and
asks for the primary's is read off the calls the code offers and the comment at
`WriteServiceImpl.h:61`, and its steps are marked external. AskForPrimary sends no group
(`ServerToMasterClient.cc` 14), so `PrimaryTold` is the primary of the first one for every server that asks:
group 1 of the model is group 0 of the configuration. A write is named by its place among the requests of
the master, and each group numbers its own; the
lock of the logger is modelled by who keeps it for ever (`lockKept`). `AfterDeath` is
what becomes of the threads when a server dies: the calls of others to it fail, and a replica
that a dead primary has called works on. Four history variables say what the properties except: `overlap`
(two writes in progress at a time), `missed` (a write in progress while a server catches up), `alone` (a server
that got no log from a primary) and `skipped` (a write that was not meant for a server that runs), each a set of
the groups in which it has happened.

### Big table

A byte is the number of the put that wrote it and its place, so that a byte read from a wrong
offset shows. `Deleted`, `Dropped`, `MayDrop`, `KeptNames` and `Moved` are the steps of
`dele_file`. `MayDrop` is undefined behaviour: `top()` of an empty queue, in which the
file dropped last may still be found. `process` becomes `aborted` on the exception that
`put_helper` does not catch, and `hangs` in the loop of `dele_disk` that meets the same
entry for ever.

### Load balancer

`arg` is the one structure on the accept loop's stack whose address every worker is given.
`Scan` is one turn of the loop of `getRedirectAddress`, with the lock held.

### Drive

One user makes one request after another; a request goes from the front end (`Ask`) to the
master, which chooses a group (`RequestWrite`), to the handler of that group, call by call of
its big table (`PutFile`, `PutContent`, `PutList`; `Delete`, `DeleteContent`; `PutFolder`;
`RenameFile`), and back to the master, which notes it in its metadata (`Record`).
`Unreachable` ends a request at the group's door, and `AnswerLost` after the group has done
it but before the master has been told; `lost` are the contents whose upload ended so. A group
is one store: that its servers agree is what `Replication` is about. `parseFileList` compares each line with a name by
`line.compare(0, len, name)`, so names are sequences of pieces, and `/a` is a prefix of
`/ab`; that is the whole reason for `Matches`, `Matched`, `Unmatched` and `UidOf`. `uid` is the
MD5 of the content for an upload, and the name itself for a folder and a deletion, as in
`httpservice.cc`; the master looks up what it is given.

### Web mail

Every request of the front end is a thread whose steps are the calls it makes:
`find` (RequestRead), `verify` (getUser), `choose` and `store` and `record` (RequestWrite at the
master, at the group, and at the master again). Other threads' steps come in between.
`Store` may fail, `AnswerLost` fails after the write has taken effect. The gateway's session is
the automaton of `worker` with the numbers the source gives its states; a line that does
nothing but answer is not a step. `sent` are the mails whose page said success or that were
answered with 250, `excused` those whose deletion was asked for or whose failed write the
gateway did not look at. `held[t]` are the passwords that any group has kept for the user while
thread `t` works (two registrations of a name may reach two groups), with `None` if at some
time there was no account.

### Mailbox

`smtp.cc` and `pop3.cc` are two programs that share only the files of a directory. A message
in a file is its number in `log`, which records for whom it was written and whether the client had
asked for that. Files are inodes under the two names `user.mbox` and `user.mbox.new`, since
QUIT reads one, writes the other, removes the first and renames the second, in steps between
which mail arrives and either server may be stopped and started (`Restart`). Each server reads
the directory when it starts (`get_mailboxes`), the SMTP server without the first two
entries it happens to meet. A line of text is a member of `Lines`, and `Commands` are those
that begin with HELO, MAIL or RCPT, which `worker` looks for before it looks whether a text is being sent
(`WithLine`; the word is compared without the zero that would end it, so the code reads the byte behind
`command`, which the model takes for zero). `asked` and `sent` are what the client has named and sent for the mail, the lines that are
refused included, and no step reads them but the one that notes in `log` whether the mail is what
they say. `marked`, `raced` and `stranded` say by which way a message has
left its mailbox.

### Parallel sort

`pc` is where the parent is, `child[i]` where worker `i` is; `down` and `up` are the pipes,
`shm` the segment with a part and two flags for each worker. `mode` is one of the three ways
of the command line. The loops of `BubbleSort` and of the merge are functions of
their loop counters. A pipe holds `Capacity` numbers, and its writer waits when it is full.

## 4. Runs

| Run | Instance | What it shows |
|---|---|---|
| `chat_fifo` | 2 servers, a client of each, 1 room, 2 posts each; loss, duplication, reordering | type, `FifoOrder`, `ClientFifo`, `NothingStuck`, and that the servers implement `FifoMulticast` |
| `chat_order` | 3 servers, 1 room; total mode: 2 posts with different texts, crashes; causal mode: 4 posts | types, `TotalOrder`, `AgreedOrder`, `Settled`; `ConsistentCut` |
| `chat_causal_reply` | 3 servers, 3 posts | violates `CausalOrder` |
| `heartbeats` | 2 front ends that come and go, 2 sockets; 1 group of 3 with deaths, restarts, late answers | type, `RoundRobin`, `RedirectedIfKnown` (liveness); `OnlyFailedDemoted`, `SeenPrimaryReplaced` (liveness) |
| `replication` | 2 groups of 2, 2 files, 2 writes at a time, 1 death | type, `AckedInLogs`, `LoggedOnce`; for writes one at a time `AckedReadable`, `MetadataMatches` |
| `replication_diverges` | 1 group of 2, 1 file, 3 writes, 2 at a time, no death | violates `ReplicasAgree` |
| `recovery` | 1 group of 2, 1 file, 2 puts or deletes, 1 death | `CaughtUp`, `RecoveredReadable`, `NobodyWaits` (liveness) |
| `recovery_groups` | 2 groups of 2, 2 files, 2 puts, 1 death | violates `AllCaughtUp` |
| `table_and_sort` | 3 files, sizes 1, 2, 4, buffer 4, 5 puts, any deletions and compactions; 3 workers, 0, 1, 3, 6 or 7 numbers of two values, pipes that hold one | type, `Readable`, implements `KeyValue`; `SortedInput`, `SortTerminates` (liveness) |
| `drive` | 2 groups, names `/a`, `/ab`, `/a/`, `/a/b`, 2 contents, 3 lines | type, `WhereRecorded`, `UploadServed`, `OnlyMatchedLost` |
| `web_mail` | 2 groups, 2 users, 2 passwords, 2 requests at a time, a gateway session, 2 receivers a mail, 3 requests | type, `SentArrives`, `ListedReadable`, `AccountKept` |
| `mailbox` | 2 users, 1 SMTP and 1 POP3 connection, 3 messages, at most a line each, 2 rewrites, 1 restart | type, `AsAsked`, `InOrder`, `LossExplained` |

Why these bounds. *Chat, FIFO*: the state of a server is a separate table for each sender and
room, so two servers and one room show all the interaction there is; two posts give a gap,
and the copies of an old datagram that put a text back into the queue. The theorems lift
the bounds. *Total*: three servers are needed for an agreement that comes from a third party
between two proposals; two posts, each through any server, give ties and both orders. With
three servers a third post is out of reach. *Causal*: three servers are the fewest for a reply
that overtakes, four posts give a queue in which an entry is skipped. *Failover*: groups are
independent but for the order in which they are visited, so one suffices; three servers
let one die while another is moved. *Replication*: two writes are the fewest that can
overlap, delete or overwrite, and two groups the fewest among which a file could be
misplaced; the two files, with a user each, are symmetric. *Recovery*: one death is enough for a
write while a server is down, a recovery, and the failover of a primary; two writes are the fewest whose
order the replay must keep. The passing run has the first group alone, since in the others the properties do not
hold (section 5); the theorems are about the first group of any number, whose servers other groups'
servers ask for their logs. `recovery_groups` needs two groups, and two writes because nothing but a first stored file
brings another to the second group. The two invariants were also checked with two deaths (a
server dies while it replays, or the other one after a failover), and with three servers, one write and
two deaths; these take longer than the runs here should. *Big table*: sizes below, at half and at the buffer's size (the comparison is
`<`, so a content of the buffer's size goes to disk), five puts fill the buffer, flush,
refill and flush; files can change places, and that this is sound for the liveness of the sort is because the table
is empty in all of its states. *Load balancer*: two servers suffice to come
and go during a scan, and `RoundRobin` is proved for any number; two sockets the fewest for a worker to be overtaken. *Drive*: three lines
let an upload meet two matches, of which one is in the wrong place; two contents let one be
listed twice and another replaced; one lost answer to an upload is enough for a content that the
metadata does not know. The number of requests is not bounded; contents and groups are symmetric. *Web mail*:
two threads are the fewest that race, three requests let an account be made, used and changed,
or a mail be sent, deleted and sent again; two receivers let the second write fail.
*Mailbox*: three messages are needed to delete the middle one while another arrives, two
rewrites for a stale `user.mbox.new` to meet a second one; a line of
text, which is kept or lost, is enough for one to be left for the next mail (mails of two lines, of which one is lost, were
checked, too, in twice the time; the theorem is about any number). *Sort*: seven numbers give
the last of three workers a larger share, three numbers are few enough for the parent
to sort alone, and pipes of one number are the tightest there can be.

Constants that restrict. `MaxPosts`, `MaxPuts`, `Writes`, `MaxActive`, `MaxDeaths`, `MaxWrites`, `MaxOff`, `MaxLines`,
`MaxLost`, `MaxRequests`, `MaxReceivers`, `MaxMails`, `MaxRcpts`, `MaxQuits`, `MaxCrashes` bound counters.
These leave out behaviours in which the properties do not hold (section 5):
`Repeats = FALSE` (texts posted are different), `Repeated = FALSE` (no compaction of a disk file
that lists a name twice), `Suspects = FALSE` in the replication runs (no heartbeat of a live server
is late while writes run), `LogsExist = TRUE` in `recovery` (every server has a
log file, if an empty one), `OneReader = TRUE` (a user has one POP3 session at a time),
`Fresh = TRUE` (the shared segment is new, hence zero).

`CHECK_DEADLOCK FALSE` is set where the program comes to rest in the model: chat servers
in total and causal mode once the posts are used up and all datagrams handled (or every
server has died), the big table when its process has aborted or hangs, the sort when it has
finished, and the drive when the bound on its names is reached while no group is known to have
a file, so that there is nothing left to ask. In the other runs some process can always step.

Fairness. `Recovery`: as long as the thread of a write or the main thread of a server that recovers can
go on, one of them does (`WF` of the disjunction of `Serve` and `Recover`, less than the operating system gives,
and enough because there are finitely many steps to take); a thread that waits for a
lock that is kept cannot. Deaths, starts and requests need not happen. `MCHeartbeats` and `MCTableAndSort`
are fair to the one of their two programs that moves. `Failover`: the heartbeat thread keeps running; its calls have a
deadline, so each of its steps is finite (`WF`). `LoadBalancer`: the threads run (`WF` of their steps), and
strong fairness for the lock: the heartbeat thread sleeps between its rounds, so neither
it nor the accept loop keeps the mutex from the other, except in `Scan`, where the lock
is never released and fairness does not help. Clients need not connect, and servers may
come and go as they like. `ParallelSort`: the operating system runs every process and thread
(`WF` of the steps of each); waiting for a flag is a step that is not enabled, or, for
the parent, a turn of its polling loop. There is no fairness in the other modules: `Settled`
states what is true when the chat servers have come to rest, instead of that they do.

## 5. Where the code departs from what it says

Three violation runs show it, each against a line of the repository; PROJECT.json quotes it.

- `chat_causal_reply`: the queue keeps clocks without texts, so what is forwarded for
  a held clock is the text of the datagram at hand.
- `replication_diverges`: forwarding and applying are not ordered by sequence number,
  so concurrent writes end in different orders at primary and replica.
- `recovery_groups`: AskForPrimary takes a group and sends none (`ServerToMasterClient.cc` 14), so a server of group 1
  recovers from the log of group 0's primary: it replays writes that are not its group's, and runs again
  without those its group made while it was down. `BE_server/README.txt` (21-24) gives an example with these
  two groups. `CaughtUp` and `RecoveredReadable` are therefore stated of the first group.
  If the configuration names no group 0, the master takes the head of an empty deque
  (`ServerToMasterImpl.cc` 18), which is undefined; the model has a group 0.

TLC shows these, too, when a constant that restricts is changed, or a condition of a property is left out:

- with `Repeats = TRUE`, `TotalOrder` is violated: a message is found by its text, so two posts
  of one text are mixed up (`chatserver.cc` 594);
- with `Suspects = TRUE`, `AckedInLogs` is violated: a write that copies the deque between
  `pop_front` and `push_back` is not sent to the old primary, which is alive if only its
  heartbeat was late (`MasterServer.cc` 76);
- without `~ alone`, `CaughtUp` is violated: AskForPrimary names the head of the deque whatever its status, so
  a server that was primary and comes back before it is demoted asks itself; and a server that dies after
  `Clear` has lost from its own log what it had not replayed;
- without `~ skipped`, `CaughtUp` is violated: a write that copies the deque between `pop_front` and `push_back`
  is not sent to the old primary, which may run again by then;
- without `~ missed`, `CaughtUp` is violated: nothing adds the requests that come during a recovery to a
  hold-back queue, as the comment at `WriteServiceImpl.h` 57 announces. A write that is in progress while a
  server catches up is reported as done, and is missing on that server ever after;
- with `LogsExist = FALSE`, `NobodyWaits` is violated: `get` returns with the lock of the logger when there
  is no log file. A primary that has not logged anything yet and is asked for its log can never log again, and
  its next write keeps the master's call waiting for ever (`Logger.cpp` 42);
- `process = "aborted"` is reached in `table_and_sort`: a name deleted while buffered is looked
  up by the next flush (`BigTable.cpp` 98); `"hangs"`, because `dele_disk` does not get past the
  entry of a file deleted while in the buffer (268); and with `Repeated = TRUE` the live copy of
  a name can be dropped (317);
- a connection that the load balancer accepts while every server is UNKNOWN spins with the
  lock that the thread needs which would report one (`feserver.cc` 126);
- with `OneReader = FALSE`, `LossExplained` is violated: a session deletes by position from a
  file that another session has rewritten (`pop3.cc` 544);
- with `Fresh = FALSE`, `SortedInput` is violated: the segment has a fixed key (5678), and a flag
  left from an earlier run lets a worker go before its numbers are there (`mysort.cc` 448).

Seen while modelling, and described here without a run. Master and load balancer:

- a server that is down already when it becomes the primary is never replaced: only the
  *change* to UNKNOWN of the head counts (`MasterServer.cc` 66);
- the master takes lines of four fields (`MasterServer.cc` 94), and ends on those of the README's example, which
  have three (an address and its port with a colon);
- two concurrent writes of one file both subtract the size it had before, so the load
  stays wrong (`MasterServiceImpl.cc` 136);
- a worker of the load balancer that starts late serves the next client's socket
  (`feserver.cc` 199), hence "no worker is overtaken" in `RedirectedIfKnown`. The accept loops
  of the mail servers and the gateway also give each thread the address of a loop local.

Chat: with three servers in causal mode a text can stay in the queue for good, since only
entries that follow the sender of the datagram at hand are examined.

Drive:

- names match by prefix, so an upload of `/a` drops `/ab` from the list, and its content
  stays in the table with no name; a deletion of `/a` deletes `/ab` (`StorageRepositoryImpl.cc`
  549, 631). `OnlyMatchedLost` says that this is all a request takes;
- a deletion is routed by the name, which the metadata knows only for folders: for a file
  it goes to the group with the least load, which may not have it, and the page says
  nothing. The metadata of the file's uid is never erased;
- an upload whose answer is lost is in the list of its group, but the metadata does not know
  its content: it cannot be downloaded, and a second upload of it may go to another group;
- two files with equal content share one uid and one copy; deleting one deletes the other's content;
- HandleCFolder ignores the result of its write (`httpservice.cc` 1391); a group with folders
  and no files is not asked for its list; a rename turns the line of a folder into that of a
  file with an empty uid;
- the list is read, changed and put back with no lock, so two requests of one user can
  lose a line. `Drive` takes requests one at a time.

Accounts and mail:

- two registrations of one name at the same time both succeed (`httpservice.cc` 1540; the
  comment at `httpservice.h` 112 says "return false if user already exist");
- RequestRead names no server for a user whose group has no running server, so CreateUser takes
  an existing user for a new one;
- a change whose answer is lost takes effect though the page says that it failed, and a
  deletion whose answer is lost leaves an entry in the list that cannot be deleted;
- a mail that fails for a later receiver has reached the earlier ones; failures of servers
  elsewhere go unnoticed (`smtp_common.cpp` 18-95);
- the gateway answers 250 without looking at the results of its writes (508-514), does not
  ask whether a receiver exists, and gives two mails of one sender in one second the same
  uid; receivers of a mail stay for the next one, RSET does not clear them (238-241), and a line of
  text that begins with QUIT ends the session.

Mail servers: lines of a mail that begin with HELO, MAIL or RCPT are taken for commands,
answered 503 and lost from the text (`smtp.cc` 228-241), so the mail is not all that the client sent: `AsAsked`
says that nothing else is missing; a line of a mail that begins with "From " splits the message when it is
read (`pop3.cc` 623); the first two entries of the directory are skipped whatever they
are (`smtp.cc` 171); a mail that arrives between the reading and the renaming of QUIT is
lost (`raced`), and what is in `user.mbox.new` when the server is stopped between `remove` and
`rename` is not found again (`stranded`); a client that goes away leaves its thread spinning.

Sort: strings (`-L`) given to more than one worker are not printed (`mysort.cc` 165).

## 6. Proofs

Eight modules hold the proofs. `ChatFifo_proofs` proves for every number of servers, rooms, clients
and posts, every assignment of clients to servers, and a network that loses, repeats and reorders:

| Theorem | Statement |
|---|---|
| `TypeCorrect` | `Spec => []TypeOK` |
| `FifoCorrect` | `Spec => []FifoOrder` |
| `ClientFifoCorrect` | `Spec => []ClientFifo` |
| `NothingStuckCorrect` | `Spec => []NothingStuck` |
| `FifoRefines` | `Spec => ImplementsMulticast` |

Assumptions: `ServersAssumption` (at least one server and room), `ClientsAssumption` (each
client talks to one of the servers), `FifoAssumption` (the bound is a natural number).
Nothing is assumed of the network.

The argument. `FifoOrder` is not inductive: it says nothing of the queue the next texts come
from. `OrderInv` adds that a datagram carries its text under the number it was posted
with, of a post that has been made, and never goes back to its sender (`NetSound`);
that a held text sits under its own number, of a post that has been made (`HeldSound`,
which also covers a repeated datagram that is put back after it was forwarded);
and that `forwarded` is as long as `RECEIVED` says, or `FIFO_MESSAGE_ID` for a server's
own posts (`Counts`). Then the run that `LastInRun` finds continues the prefix
(`LastInRunProperties`, by the least gap, `LeastNatural`; `CountOn`). For `ClientFifo`,
`ClientInv` adds that a client's inbox is never ahead of what its server has forwarded
(`InboxBehind`), so a text that is forwarded later has a larger number than any in the inbox,
whichever rooms the client has been in meanwhile. `NothingStuck` follows from the third
property of the run. For the refinement, a post is `Post`, a datagram that releases k
texts is `Learn` of k, and every other step a stutter.

`ChatOrder_proofs` is first about the servers in total mode, for every number of servers, rooms, texts and
posts, with datagrams in any order and with servers that die (`Crashes`):

| Theorem | Statement |
|---|---|
| `TotalTyped` | `Spec => []TypeOK` |
| `AgreedOrderHolds` | `Spec => []AgreedOrder`, if `~ Repeats` |
| `TotalOrderHolds` | `Spec => []TotalOrder`, if `~ Repeats` |
| `SettledHolds` | `Spec => []Settled`, if `~ Repeats` |

Assumptions: `ServersAssumption`, `TotalAssumption` (the bound is a number), and that no content is
posted twice: the program finds the entry of an agreement by comparing contents, so with two posts
of one content it takes the entries and proposals of one for the other's. The run has `Repeats = FALSE`, too.

The argument. `TotalOrder` compares the logs of two servers and says nothing of how they come
about. The invariant `OrderInv` follows a text through its stages: on its way to a server
(`Coming`), waiting there under the number the server gave it (`Waits`), its proposal on its way or
received (`InFlight`, `Got`), its key announced, held and logged (`Announced`, `Holds`, `Logged`;
`Agreed` if any server has got so far). Each conjunct ties two stages: a text has one room, one
server that collects, one proposal of each server and one key (`OneRoom`, `OneHome`, `OneOffer`, `OneKey`); no key is agreed on
while a server has yet to give a number (`NewFirst`); the key is not below the number under which a server
still waits (`Expected`), nor is anything logged from that number on (`OneOffer`, `LogFirst`); and a text
that has a key anywhere is, at every server, logged or still to come, unless the server died
before it logged anything beyond that key (`Everywhere`). Hence a server that has logged a
text has logged all texts with smaller keys that any server has logged (`NothingMissed`), the logs are
in order of their keys (`LogOrdered`), and two of them agree as far as the shorter goes (`LogsAgree`,
by the least place where they differ). The steps are stated in terms of the stages (`PostSteps`,
`NewSteps`, `ProposalSteps`, `StagesMove`), and each conjunct is shown from that. `TypeOK`
needs that numbers stay below `NumServers * MaxPosts`: `Typed` counts the proposals that have been
made and those that are still to be made. For `Settled`, `SettledInv` adds that a posted text without a key
is on its way to each server or was given a number by it (`Underway`), that of the proposals a server
collects one is still to come (`Outstanding`), and that no queue begins with an entry that can be delivered (`HeadWaits`).

Then `ChatOrder_proofs` is about causal mode, for every number of servers, rooms and posts and datagrams
in any order, and about the two modes together:

| Theorem | Statement |
|---|---|
| `CausalTypes` | `CausalSpec => []CausalTypeOK` |
| `CutsAreConsistent` | `CausalSpec => []ConsistentCut` |
| `CausalQueueDrained` | after a datagram from a server, no entry of its queue can be delivered for that server |
| `ChatTyped` | `ChatSpec => []TypesOK` |
| `ChatOrders` | `ChatSpec => [](TotalOrder /\ AgreedOrder /\ Settled /\ ConsistentCut)`, if `~ Repeats` |

Assumptions: `ServersAssumption` and `CausalAssumption` (the bound is a number).

The argument. `ConsistentCut` is about the clocks of servers alone. `CausalInv` adds that what is in flight or
held is the clock of a post (`FromPosts`, `HeldBack`), that a server's own clock counts just its own posts and
all that they had counted (`OwnPosts`), and that the clocks of a server's posts grow (`Growing`).
Then an entry that can be delivered for `n` is the clock of the very post of `n` that comes next
(`DeliveredIs`), though `Deliverable` does not ask whose clock it is: that of another server's post, if nothing
but `n` may be missing, is one of a post that was counted, and what it says of `n` was counted with it. So counting it leaves
a consistent cut (`DeliverReached`), and so do a pass and the passes (`PassReached`, `PassesReached`). The loops are
recursive functions: that they exist is `LoopExists`, and what holds after every step of
one is `LoopKeeps`, both by the least counterexample. That the passes suffice is `PassesClear`: a pass that leaves the
queue as long as it was has found nothing, and the length cannot shrink more often than there are entries (`Climb`).
For the composition, a step of one mode is a stutter of the other (`ChatParts`).

`Failover_proofs` and `Replication_proofs` are about the master and the back end, for every number
of groups, servers, files and writes in progress, and any deaths:

| Theorem | Statement |
|---|---|
| `FailoverTypeCorrect` | `FailoverSpec => []FailoverTypeOK` |
| `OnlyFailedDemotedHolds` | `HistorySpec => OnlyFailedDemoted` |
| `WritePathTyped` | `Spec => []TypeOK` |
| `LoggedOnceHolds` | `Spec => []LoggedOnce` |
| `AckedInLogsHolds` | `Spec => []AckedInLogs`, if `~ Suspects` |
| `AckedReadableHolds` | `Spec => []AckedReadable`, if `~ Suspects` |
| `LoadsHold` | `Spec => [](OneAtATime => LoadMatches)` |
| `MetadataMatchesHolds` | `Spec => []MetadataMatches`, if `~ Suspects` |

Assumptions: `GroupsAssumption` (groups of two servers or more; with one, the deque of the code is
empty between `pop_front` and `push_back`), `WritesAssumption` (sizes and bounds are numbers;
the mark of an empty cell is not a write).

The argument. `FailoverTypeOK` says that the deque of a group, with the server on its way to the
tail, holds all its servers; this is inductive only in the form `Rotations`, in which it holds
each *once*. `FailureSeen` ties `primaryFailed` to the status that has been stored for the head.
`FailoverInv` is the conjunction. `OnlyFailedDemoted` is about what the calls have found, and no status says that
of a server that is UNKNOWN: `Seen` adds that a status is UNKNOWN just for the servers that did not answer the
last call, but for the one whose answer is still to be stored, and that the head of a group found failed answered the
call before the last and was dead or, with `Suspects`, late at the last. For the writes, `AckedInLogs` speaks of a state in
which the handler is done, so `Inv` says for every write in progress where its handler is and
what has been logged by then (`WriteInv`): the list that travels with it has servers of one group,
each once, and, if no live server is suspected, all that are alive (`Copied`); the position is
within that list (`Placed`); the servers that have logged it are those at the positions that
the handler is done with, but for the dead (`Progress`). `LoggedOnce` follows because the
handler is never done twice with a position and no server has two. `Copied` holds when a
write copies the deque between `pop_front` and `push_back` because the server that is missing
from it is down (`MissedAreDown`). That is where `~ Suspects` is needed, and without it
the property is false. `AckedReadable` is about cells, and about the last write to a file. While
no two writes overlap, a write in progress is the last one requested for its file (`ActiveLast`);
the servers the handler is done with hold what that write leaves, unless they are dead (`AppliedHeld`);
and when the handler has come to its end these are all servers of the group that are alive, which
stays so until the next write to the file (`AckedHeld`). `AloneInv` is the conjunction.

`MetadataMatches` counts. What `MapThenSumSet` computes is defined by a recursive function on the subsets,
so its equations are proved first (`SumsExist`, `SumsUnique`, by the smallest subset for which
they fail), then that the elements may be taken in any order (`SumWithout`) and what a change at one
of them does (`SumChanged`). `MetadataInv` says that the size and the group that the
master has read before it calls the primary are still those of the record when the call returns
(`RequestCurrent`, true because no other write is in progress), that the loads fit the
sizes at every step (`LoadsMatch`), and, while nobody has died, that a server which the write in progress has
not touched holds what is recorded and that the primary's answer tells whether there was a
file (`Placement`). Loads need neither live servers nor prompt heartbeats (`LoadsHold`).

`Recovery_proofs` stands on `Failover_proofs`, too. It is about any number of groups of any number of
servers, any writes in progress, any deaths, and heartbeats that may be late; what it says of logs
and cells is said of the first group, whose primary the master names to servers of every group:

| Theorem | Statement |
|---|---|
| `RecoveryTyped` | `Spec => []TypeOK` |
| `CaughtUpHolds` | `Spec => []CaughtUp` |
| `RecoveredReadableHolds` | `Spec => []RecoveredReadable` |

Assumptions: `GroupsAssumption`, and `RecoveryAssumption` (writes are PUT or DELETE, bounds are numbers, and the marks are no log and no group).

The argument. `CaughtUp` speaks of writes that are done and servers that run; the invariant `Inv`
follows both on their way there. A write in progress has, for every server, been logged by it, or is
still to be sent to it (`Pending`, from where the thread of the write stands), or the server is away:
down, or back but not yet past its question for the primary (`Reached`). A write that is done is known to
every server that runs, and to one that has heard from its primary, in its queue until it is replayed
and in its log after that (`Knows`). What connects the two is `Window`: no write is in progress while a
server is between the question and the end of the replay, unless `missed` says so. Hence a
write that is done when a server asks is in the log of the primary that answers, because that one runs;
and one that comes later finds the server running again. All this is of the first group, the servers `Home`. `HomeInv` is why the
other groups do not disturb it, and why a queue ordered by number loses nothing: the servers of `Home` ask one of `Home` for
its log (`AsksHome`), what they have logged or gathered is of writes of the group, under the numbers of those (`AllFit`),
and these numbers are all different, and grow with the writes (`AllNumbered`). `Attended` and `Placed` say where a
thread can be, in particular after its primary has died and the replica it had called works on
(`AfterDeathPlace`). `RecoveredReadable` needs more than logs, as the replay applies entries in the order
of their numbers and writes over what is in the table. `HeldInv` says of the latest write to a file:
while it is in progress, every server has applied it, is still to be sent it, or is away
(`Applied`); when it is done, a server that runs has it in its cell, and one that replays has it
in the queue, or in the cell with nothing older left to replay (`Restored`). The second holds when the
replay starts because the queue then has the entry (`Knows` of `Inv`), and is kept because the
smallest number goes first: what follows the latest write to a file is about other files.

The other modules stand on no proofs of others. `FrontEnd_proofs`, `Storage_proofs` and
`MailSort_proofs` are each about two components that share no state:

| Module | Theorem | Statement | For every |
|---|---|---|---|
| `FrontEnd_proofs` | `BalancerTyped` | `BalancerSpec => []BalancerTypeOK` | number of servers, sockets and connections |
| | `RoundRobinHolds` | `BalancerSpec => RoundRobin` | |
| | `MailTyped` | `Spec => []TypeOK` | number of groups, users, mails, threads and requests |
| | `ListedReadableHolds` | `Spec => []ListedReadable` | |
| | `SentArrivesHolds` | `Spec => []SentArrives` | |
| | `AccountKeptHolds` | `Spec => AccountKept` | |
| `Storage_proofs` | `DriveTyped` | `Spec => []TypeOK` | number of groups, names, contents and requests |
| | `WhereRecordedHolds` | `Spec => []WhereRecorded` | |
| | `UploadServedHolds` | `Spec => []UploadServed` | |
| | `OnlyMatchedLostHolds` | `Spec => OnlyMatchedLost` | |
| | `TableTyped` | `TableSpec => []TableTypeOK` | files, sizes, size of the buffer and number of puts |
| | `ReadableHolds` | `TableSpec => []Readable`, if not `Repeated` | |
| | `TableRefines` | `TableSpec => ImplementsKeyValue`, if not `Repeated` | |
| `MailSort_proofs` | `AsAskedHolds` | `Spec => []AsAsked` | number of users, connections, mails and restarts |
| | `MailboxTyped` | `Spec => []TypeOK`, if `OneReader` | |
| | `InOrderHolds` | `Spec => []InOrder`, if `OneReader` | |
| | `LossExplainedHolds` | `Spec => []LossExplained`, if `OneReader` | |
| | `Sorts` | `SortSpec => [](Fresh \/ mode # "shared" => SortedInput)` | numbers and length, number of workers, size of the pipes |
| | `SortsFresh` | `SortSpec => []SortedInput`, if `Fresh` | |

Assumptions: `LoadBalancerAssumption` (at least one server; sockets are numbers),
`DriveAssumption` (a name is not empty, and that of a folder ends with a slash; the marks are
no contents; no content's uid is a name, as an MD5 sum has no slash and the page puts one into every
name but the target of a move, which the user types) and `WebMailAssumption` (bounds are numbers; the uids of pages, those of the gateway and the key
`password` differ, as MD5 sums of different contents do but for collisions) and `BigTableAssumption`
(sizes are positive, and `Absent` is no metadata). What a file of the big table reads as is proved for
compactions of disk files that list each name once (`Repeated = FALSE`, as in the run): with a name
listed twice the code compares with the top of an empty queue, and can drop the live file. The files of
`Mailbox` need `MailboxAssumption` (finitely many users and connections; bounds are numbers; the
mark of a path without a file is not a user), and that no user has two POP3 sessions at once
(`OneReader`, as in the run: the server does not see to it, and with two, each
rewrites the file from what it read). The sort needs `SortAssumption` (numbers are integers, there is at
least one worker, and a pipe holds at least one number).

`FrontEnd_proofs`, the load balancer: `Position` says how far the scan has come since the last choice, and that
every server it has passed is known to be down. It is kept because the scan holds the lock,
so that the heartbeat thread changes no status it has seen; `Places` and `NextPlace` are the
arithmetic of the counter that wraps round.

`Storage_proofs`, the drive: a request goes through the master to a group and back, in up to five
steps, and the properties are about its ends. `DriveInv` adds what is true half way: the master knows
of no other group for the uid than the one it has chosen (`Routed`), so that what it records in the
end does not contradict the lists; the lines a handler keeps are those of the list that do not match
(`Keeping`); an upload has its content in the group before its line, and its line before its answer
(`Putting`); and the contents still to be deleted belong to matches served when the request was
made (`Deleting`). `WhereRecorded` is its own part of the induction: renamed lines keep uids that
were listed in the same group (`ListRecorded`, `RenamedIs`), and a folder or a deletion, which
the master looks up by name, changes the record of no content (`RecordKeeps`). `MatchingLines` says
which lines `Selected` takes from a list; it rests on what `FlattenSeq` computes (`FlattenMembers`).

`Storage_proofs`, the big table: `Readable` says what `get` returns; `TableInv` says why. Every file's
metadata names a place of its own length, within the buffer or the disk file, that holds what was put
last (`Placed`). A flush writes the buffer to a disk file whose number the buffered files already have, so it
must mark those files and no others: `Named` says that a file not flushed is listed in the buffer, and one
that is flushed is not. A compaction drops names by counting deletions, while the metadata is kept by file:
`Accounted` says that what was deleted is still listed, and that a name listed once is either that of
a file there or of one deleted, so the count drops what was deleted and nothing else (`DroppedAre`);
a file kept then starts after all that is kept before it (`RewrittenAre`, which rests on where
`FlattenSeq` puts each of the sequences it joins, `FlattenPlace`). For the refinement each step is a put
into one cell, a deletion of one, or no change of any (`CellsStep`): a compaction, one that hangs, and a
put that ends the server change none. The types hold whatever is dropped.

`FrontEnd_proofs`, web mail: the properties speak of finished requests, so `Inv` says of every thread what
is true half way (`Working`). A thread about to note a mail at the master has put it into the
group that it notes (`Written`), hence what is listed can be read; every receiver the thread has
done with has the mail listed or is excused, and the others are still in its list (`Reached`),
hence a mail acknowledged after the last has reached them all; the passwords a user has now are
among those noted by each thread that works for the user (`Known`), and a thread goes on to
write one only after it has read a password, or found no account, at some moment of its
request (`Allowed`). `GateOK` says that the session takes a text only while no write for it is
under way. Each of these is about one thread, and must survive the steps of the others: `Evolves`
is what those steps may do to the stores.

`MailSort_proofs`, the mail servers: `AsAsked` is about the log; `Matching` adds that in every connection the
buffers of the program hold what its client has asked for in this mail (`rcpts`, `lines`, and in
`todo` the boxes still to be written), where the lines of `Commands` may be missing from `lines` and no others
(`OnlyCommandsMissing`, by the places of the lines kept among those sent, `LineSent`), so that nothing is left of an earlier mail after RSET, QUIT
or a restart. `InOrder` and `LossExplained` look at the files, and QUIT takes five steps to rewrite one,
between which mail arrives and servers are stopped. `MailInv` says that no two paths name one inode
(`Names`); that every file with a name has mail of its user only, in the order it came (`Owned`);
and for each session where in the rewrite it stands and what is true there (`Session`): before the mailbox is
read again, what the session has in memory is what the file begins with (`HasRead`), so the
numbers it deletes are those of the messages it marked; after that, all mail of the user that is
not explained is in what was read, then in the new file, and while there is no `user.mbox`, only there. `LeftIn`
says the same of the mailbox itself at all other times, which is where `LossExplained` comes from. A mail
that is appended in the meantime is `raced`, and a restart makes `stranded` of what only the new file
had. That a new file gets an inode nobody has is a matter of counting: there are
`2 * Cardinality(Users) + Cardinality(Readers)` of them, and a session's new file always has a name
(`FreeInodeIs`). `FlattenSeq`, with which `Kept` is put together, is defined by a recursive function, and what it
computes is proved by the smallest counterexample (`FlattenExists`, `FlattenUnique`, `WithoutIs`);
`MaxMails` bounds the log because the mails still to be written are counted with it (`TodosNat`).

`MailSort_proofs`, the sort, has two halves. First, what the algorithms compute. The loops are recursive
functions, so each is shown to exist (`LoopExists`), and what holds after every pass is shown by the least
pass after which it would not (`LoopKeeps`). An exchange keeps the numbers (`ExchangeCounts`);
a pass over the first `m` pairs brings the greatest of the first `m + 1` numbers to place
`m + 1` (`ExchangeSettles`); after `i` passes the last `i` places hold the `i` greatest numbers in order (`Settled`, `BubbleSettles`), hence
`BubbleSorts`. `Merge` takes the smaller of two heads, so what it has put down so far is in order, holds
every number as often as the two beginnings do, and is not above what is left of either (`MergeSteps`, `MergeMerges`);
`GroupsMerge` does the same for one group after another and adds up that the groups are the input
(`PartsCount`). Then the program. `SortedInput` is about the end, so `SortInv` says, for each way of working,
where each number is on the way. `ProcessesInv`: what a worker has and what is in its pipes are
consecutive parts of its group, or of its sorted group, as many numbers as the parent has written less
those it has read (`Piped`), and the parent's group is sorted up to there (`Held`). `ThreadsInv`: a group is sorted if its
thread has ended, and the parent has joined all below the one it waits for. `SharedInv`: a worker is not past its
flag unless it has been told to go, and not told before its part was filled (`Told`, `Copied`); its part is sorted from
the time it says it is done; and the parent counts the workers whose part it has not taken, each of them once
(`Collected`). This is where `Fresh` is needed: the parent clears the flags when the worker already
runs, so if one was set by an earlier run the worker need not have been told.

Model-checked only: of `Mailbox`, whatever happens when a user has two sessions. Liveness
(`SeenPrimaryReplaced`, `RedirectedIfKnown`, `NobodyWaits`, `SortTerminates`) is out of the
prover's reach and stays with TLC. The three properties that runs refute (`CausalOrder`,
`ReplicasAgree`, `AllCaughtUp`) have nothing to prove.

## 7. Not modelled

- More than half of the lines of the repository's implementation are `common/json.hpp`, a vendored
  library.
- Unordered chat mode (every datagram is forwarded as it comes), `/nick`, debug output,
  replies to clients. The codec that cuts a text at its first comma
  (`chatserver.cc` 227-232): texts are opaque.
- Loss in total and causal mode: the code has no retransmission, and a lost
  datagram blocks its room for good.
- Data races on the standard containers (the big table called by several gRPC threads, the
  load balancer's `threads` set) and buffers read before they are written (the
  mail servers'): they have no outcomes to enumerate. The big table is called by one
  thread, and the flags in shared memory are read and written whole.
- Of recovery, what the repository does not hold: the program that gathers the requests and calls the
  constructor of `WriteServiceImpl` (`Recovery` takes it to use the two calls in turn), and a log
  that arrives in part because the primary dies while it sends. In `Replication` a server that
  dies stays dead. Renames are not replayed. Checkpoint and load of the big table.
- The socket loops of the front end and the admin console (`feserver.cc` 218-526), parsing of HTTP,
  MIME and SMTP, cookies, rendering of pages.
- `StorageRepositoryImpl`'s and the other repositories' Add and Delete operations: they do
  again what `WriteServiceImpl`'s handlers do, and the front end never calls them.
- The mail servers' commands that change nothing and the accept loop; `echoserver`; reading
  and printing of numbers in the sort, and sorting of strings.
- The admin console, clients' stubs, chat client, test tools, and views: no state or
  protocol of their own. The protocol code is generated.
