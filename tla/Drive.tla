-------------------------------- MODULE Drive --------------------------------
(***************************************************************************)
(* The drive of one PennCloud user: the requests of the drive page         *)
(* (FE_server/httpservice.cc), the group of servers the master sends each  *)
(* of them to (common/MasterServiceImpl.cc), and what a server does with   *)
(* its list of names and its contents (common/WriteServiceImpl.cc).        *)
(*                                                                         *)
(* The uid of a file is the hash of its content, so contents stand for     *)
(* their uids here; none has a slash, so none is a name.  A name is a      *)
(* sequence of pieces, so that one name can begin with another; that of a  *)
(* folder ends with a slash.  A group is one store: how its servers agree  *)
(* is the subject of Replication.  The user makes one request after        *)
(* another.                                                                *)
(***************************************************************************)
EXTENDS Naturals, Sequences, FiniteSets, SequencesExt

CONSTANTS
    Groups,         \* the groups of back-end servers
    FileNames,      \* full names of files
    FolderNames,    \* full names of folders
    Contents,       \* what files hold
    NoUid,          \* the empty string
    Folder,         \* in the place of a uid: a line without a tab
    MaxLines,       \* bound on the names in the drive
    MaxLost         \* bound on the contents whose upload was not answered

Slash == "/"

ASSUME DriveAssumption ==
    /\ \A n \in FolderNames : n # <<>> /\ Last(n) = Slash
    /\ \A n \in FileNames : n # <<>> /\ Last(n) # Slash
    /\ {NoUid, Folder} \cap Contents = {} /\ NoUid # Folder
    /\ Contents \cap (FileNames \cup FolderNames) = {}
    /\ MaxLines \in Nat /\ MaxLost \in Nat

Names == FileNames \cup FolderNames
Lines == [name : Names, uid : Contents \cup {NoUid, Folder}]

VARIABLES
    filelist,       \* the list of names each group keeps
    files,          \* the contents each group keeps
    metadata,       \* the master's: group and type of every uid
    request,        \* the request the user has made last
    pc,             \* how far it has come
    group,          \* where the master has sent it
    unmatched,      \* lines the handler keeps
    matched,        \* contents it is still to delete
    page,           \* what the user sees in the end
    before,         \* history: the files served when a request under way was made
    lost            \* history: contents of uploads whose answer was lost

handler == <<unmatched, matched>>
history == <<before, lost>>
vars    == <<filelist, files, metadata, request, pc, group, handler, page, history>>

Stored(g) == {l \in ToSet(filelist[g]) : l.uid \in files[g]}
Served    == UNION {Stored(g) : g \in Groups}

Init ==
    /\ filelist = [g \in Groups |-> <<>>]
    /\ files = [g \in Groups |-> {}]
    /\ metadata = <<>>
    /\ request = [op |-> "none"]
    /\ pc = "idle"
    /\ group \in Groups
    /\ unmatched = <<>> /\ matched = {}
    /\ page = "drive"
    /\ before = {} /\ lost = {}

-----------------------------------------------------------------------------
(* The front end.  It names a file by its content when it is uploaded, by  *)
(* the uid on the page when it is renamed or moved, and by its name when   *)
(* it is deleted.                                                          *)
Ask(r) ==
    /\ pc = "idle"
    /\ request' = r
    /\ pc' = "route"
    /\ before' = Served
    /\ UNCHANGED <<filelist, files, metadata, group, handler, page, lost>>

LineCount == FoldFunctionOnSet(+, 0, [g \in Groups |-> Len(filelist[g])], Groups)

HandleUpload(n, c) ==
    LineCount < MaxLines /\ Ask([op |-> "upload", name |-> n, uid |-> c])

HandleCFolder(n) ==
    LineCount < MaxLines /\ Ask([op |-> "cfolder", name |-> n, uid |-> n])

(* The page of a folder shows the groups that have files of the user.      *)
Asked  == {metadata[u].group : u \in {v \in DOMAIN metadata : metadata[v].ftype = "FILE"}}
Listed == UNION {ToSet(filelist[g]) : g \in Asked}

(* A file is deleted by its name, a folder by a path that some name has.   *)
HandleDELETE(n) ==
    /\ \E l \in Listed : l.name = n \/ (n \in FolderNames /\ IsPrefix(n, l.name))
    /\ Ask([op |-> "delete", name |-> n, uid |-> n])

HandleRename(l, n) ==
    /\ l \in Listed /\ l.uid # Folder
    /\ Ask([op |-> "rename", name |-> l.name, to |-> n, uid |-> l.uid])

-----------------------------------------------------------------------------
(* Mutant: the metadata is not looked up. *)
AnyServerGroup(u) == Groups

(* The master.  A uid it knows stays in its group; for another any group   *)
(* may have the least load.                                                *)
chooseServerGroup(u) == IF u \in DOMAIN metadata THEN {metadata[u].group} ELSE Groups

RequestWrite ==
    /\ pc = "route"
    /\ group' \in chooseServerGroup(request.uid)
    /\ pc' = "handle"
    /\ UNCHANGED <<filelist, files, metadata, request, handler, page, history>>

Answer(result) == pc' = "idle" /\ page' = result /\ before' = {}

(* Only uploads and changes of a name look at the answer. *)
Refused == CASE request.op = "delete" -> "drive"
             [] request.op = "cfolder" -> "success"
             [] OTHER -> "failed"

(* The group's primary cannot be reached. *)
Unreachable ==
    /\ pc = "handle"
    /\ Answer(Refused)
    /\ UNCHANGED <<filelist, files, metadata, request, group, handler, lost>>

(* The primary dies when its group has done it and before it answers.      *)
AnswerLost ==
    /\ pc = "record"
    /\ Cardinality(lost) < MaxLost
    /\ Answer(Refused)
    /\ lost' = IF request.op = "upload" THEN lost \cup {request.uid} ELSE lost
    /\ UNCHANGED <<filelist, files, metadata, request, group, handler>>

RecordPut(ftype) ==
    [u \in DOMAIN metadata \cup {request.uid} |->
        IF u = request.uid THEN [group |-> group, ftype |-> ftype] ELSE metadata[u]]

Record ==
    /\ pc = "record"
    /\ metadata' = CASE request.op = "upload"  -> RecordPut("FILE")
                     [] request.op = "cfolder" -> RecordPut("FOLDER")
                     [] request.op = "delete"  ->
                            [u \in DOMAIN metadata \ {request.uid} |-> metadata[u]]
                     [] request.op = "rename"  -> metadata
    /\ Answer(IF request.op = "delete" THEN "drive" ELSE "success")
    /\ UNCHANGED <<filelist, files, request, group, handler, lost>>

-----------------------------------------------------------------------------
(* The back end.  Every line that begins with the name is a match.         *)

(* Mutant: only the length that both have is compared. *)
MatchesEither(n, l) == IsPrefix(n, l.name) \/ IsPrefix(l.name, n)

Matches(n, l) == IsPrefix(n, l.name)

(* The lines of the group's list that match, or that do not, in order.     *)
Selected(match) ==
    LET list == filelist[group]
    IN  FlattenSeq([i \in DOMAIN list |->
            IF Matches(request.name, list[i]) = match THEN <<list[i]>> ELSE <<>>])

Matched   == Selected(TRUE)
Unmatched == Selected(FALSE)

(* A match below the name counts as a folder and has no uid. *)
UidOf(l) ==
    IF \E i \in (Len(request.name) + 1)..Len(l.name) : l.name[i] = Slash THEN NoUid ELSE l.uid

(* An upload drops the content of the first match, *)
PutFile ==
    /\ pc = "handle" /\ request.op = "upload"
    /\ files' = [files EXCEPT ![group] =
                    IF Matched = <<>> THEN @ ELSE @ \ {UidOf(Head(Matched))}]
    /\ unmatched' = Unmatched
    /\ pc' = "content"
    /\ UNCHANGED <<filelist, metadata, request, group, matched, page, history>>

(* Mutant: the content of the first match is dropped after the new one has been put. *)
PutContentDropsOld ==
    /\ pc = "content"
    /\ files' = [files EXCEPT ![group] =
                    (@ \cup {request.uid}) \ {UidOf(l) : l \in ToSet(Matched)}]
    /\ pc' = "list"
    /\ UNCHANGED <<filelist, metadata, request, group, handler, page, history>>

(* puts the new one, *)
PutContent ==
    /\ pc = "content"
    /\ files' = [files EXCEPT ![group] = @ \cup {request.uid}]
    /\ pc' = "list"
    /\ UNCHANGED <<filelist, metadata, request, group, handler, page, history>>

(* and then the list, without any of the matches. *)
PutList ==
    /\ pc = "list"
    /\ filelist' = [filelist EXCEPT ![group] =
                        Append(unmatched, [name |-> request.name, uid |-> request.uid])]
    /\ unmatched' = <<>>
    /\ pc' = "record"
    /\ UNCHANGED <<files, metadata, request, group, matched, page, history>>

(* A folder is added unless some name begins with its name. *)
PutFolder ==
    /\ pc = "handle" /\ request.op = "cfolder"
    /\ IF Matched = <<>>
       THEN /\ filelist' = [filelist EXCEPT ![group] =
                                Append(@, [name |-> request.name, uid |-> Folder])]
            /\ pc' = "record" /\ UNCHANGED <<page, before>>
       ELSE Answer(Refused) /\ UNCHANGED filelist
    /\ UNCHANGED <<files, metadata, request, group, handler, lost>>

(* Files and folders are deleted alike: the matches leave the list, *)
Delete ==
    /\ pc = "handle" /\ request.op = "delete"
    /\ filelist' = [filelist EXCEPT ![group] = Unmatched]
    /\ matched' = {l.uid : l \in ToSet(Matched)} \ {Folder, NoUid}
    /\ pc' = "delete"
    /\ UNCHANGED <<files, metadata, request, group, unmatched, page, history>>

(* and then their contents are deleted one by one. *)
DeleteContent ==
    /\ pc = "delete"
    /\ \/ \E u \in matched :
            /\ files' = [files EXCEPT ![group] = @ \ {u}]
            /\ matched' = matched \ {u}
            /\ UNCHANGED pc
       \/ matched = {} /\ pc' = "record" /\ UNCHANGED <<files, matched>>
    /\ UNCHANGED <<filelist, metadata, request, group, unmatched, page, history>>

(* Mutant: a line keeps what stood after its name. *)
RenamedAsIs(l) == [l EXCEPT !.name = request.to]

(* The match of a folder becomes that of a file with no uid. *)
Renamed(l) == [name |-> request.to, uid |-> IF l.uid = Folder THEN NoUid ELSE l.uid]

(* A file is renamed, and all that begin with its name, unless there is    *)
(* none or one that begins with the new name.                              *)
RenameFile ==
    /\ pc = "handle" /\ request.op = "rename"
    /\ IF Matched = <<>> \/ \E l \in ToSet(filelist[group]) : IsPrefix(request.to, l.name)
       THEN Answer(Refused) /\ UNCHANGED filelist
       ELSE /\ filelist' = [filelist EXCEPT ![group] =
                    Unmatched \o [i \in DOMAIN Matched |-> Renamed(Matched[i])]]
            /\ pc' = "record" /\ UNCHANGED <<page, before>>
    /\ UNCHANGED <<files, metadata, request, group, handler, lost>>

Next ==
    \/ \E n \in FileNames, c \in Contents : HandleUpload(n, c)
    \/ \E n \in FolderNames : HandleCFolder(n)
    \/ \E n \in Names : HandleDELETE(n)
    \/ \E l \in Listed, n \in FileNames : HandleRename(l, n)
    \/ RequestWrite \/ Unreachable \/ AnswerLost \/ Record
    \/ PutFile \/ PutContent \/ PutList \/ PutFolder
    \/ Delete \/ DeleteContent \/ RenameFile

Spec == Init /\ [][Next]_vars

-----------------------------------------------------------------------------
(* Types; a line without a tab is that of a folder. *)
TypeOK ==
    /\ filelist \in [Groups -> Seq(Lines)]
    /\ \A g \in Groups : \A l \in ToSet(filelist[g]) : l.uid = Folder => l.name \in FolderNames
    /\ files \in [Groups -> SUBSET Contents]
    /\ DOMAIN metadata \subseteq Contents \cup Names
    /\ \A u \in DOMAIN metadata :
            metadata[u] \in [group : Groups, ftype : {"FILE", "FOLDER"}]
    /\ pc \in {"idle", "route", "handle", "content", "list", "delete", "record"}
    /\ group \in Groups
    /\ unmatched \in Seq(Lines) /\ matched \subseteq Contents
    /\ page \in {"drive", "success", "failed"}
    /\ before \subseteq Lines /\ lost \subseteq Contents

(* The master sends a download, and a change of the name, to the group     *)
(* that has the line: a content is listed in one group only, the one the   *)
(* metadata names, through uploads of it under any names, changes of name  *)
(* that join lines, and deletions that the master looks up by name; unless *)
(* the master was not told that it had been uploaded.                      *)
WhereRecorded ==
    \A g \in Groups : \A l \in ToSet(filelist[g]) :
        l.uid \in Contents =>
            \/ l.uid \in DOMAIN metadata /\ metadata[l.uid] = [group |-> g, ftype |-> "FILE"]
            \/ pc = "record" /\ request.op = "upload" /\ request.uid = l.uid /\ group = g
            \/ l.uid \in lost

(* A page that says success after an upload is followed by pages that list *)
(* the file, and its content can be downloaded, also when it replaces the  *)
(* same content or several names that begin with its own.                  *)
UploadServed ==
    pc = "idle" /\ request.op = "upload" /\ page = "success" =>
        LET l == [name |-> request.name, uid |-> request.uid]
        IN  l \in Listed /\ l \in Stored(metadata[request.uid].group)

(* What a request can take from the user: a file that is listed and can be *)
(* downloaded stays so at every step unless its name begins with the one   *)
(* the request is about, or such a name had the same content when the      *)
(* request was made.                                                       *)
OnlyMatchedLost ==
    [][\A l \in Served \ Served' :
            \/ IsPrefix(request.name, l.name)
            \/ \E m \in before : m.uid = l.uid /\ IsPrefix(request.name, m.name)]_vars

=============================================================================
