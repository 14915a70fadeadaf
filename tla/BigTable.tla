------------------------------ MODULE BigTable ------------------------------
(***************************************************************************)
(* PennCloud/BE_server/BigTable.cpp: the storage of a back-end server.     *)
(* Small files collect in a memory buffer, which is written out, with the  *)
(* file that does not fit, to a new disk file; deletion is lazy, and       *)
(* dele_disk compacts the disk files.                                      *)
(*                                                                         *)
(* A file is a row and column of the table.  A byte is the number of the   *)
(* put that wrote it and its place in the content.  One call is one step:  *)
(* the calls of one thread.                                                *)
(***************************************************************************)
EXTENDS Integers, Sequences, SequencesExt, FiniteSets, FiniteSetsExt

CONSTANTS
    Files,
    Sizes,              \* the sizes of the contents put
    MAX_BUFFER_SIZE,
    MaxPuts,            \* bound on the puts
    Repeated,           \* are disk files compacted that list a name twice?
    Absent              \* stands for no file

Indexes  == 0..MaxPuts
Metadata == [file : Files, disk_filename : Indexes, start : Nat, filesize : Sizes,
             is_flushed : BOOLEAN]

ASSUME BigTableAssumption ==
    /\ Absent \notin Metadata
    /\ Sizes \subseteq Nat \ {0}
    /\ MAX_BUFFER_SIZE \in Nat
    /\ MaxPuts \in Nat
    /\ Repeated \in BOOLEAN

VARIABLES
    bigtable,           \* the metadata of each file, or Absent
    memspace,           \* the buffer, up to mem_pos
    mem_files,          \* names in the buffer, in order
    disk,               \* the bytes of each disk file
    disk_files,         \* names in each disk file, in order
    deleted_files,      \* metadata of the files deleted, by disk file
    disk_file_index,    \* the disk file the buffer will go to
    process,            \* "runs", "aborted" by an exception, or "hangs"
    puts                \* history: the names put, in order

tableVars == <<bigtable, memspace, mem_files, disk, disk_files, deleted_files,
               disk_file_index, process, puts>>

Content(p, n) == [k \in 1..n |-> <<p, k>>]

TableInit ==
    /\ bigtable = [f \in Files |-> Absent]
    /\ memspace = <<>>
    /\ mem_files = <<>>
    /\ disk = [d \in Indexes |-> <<>>]
    /\ disk_files = [d \in Indexes |-> <<>>]
    /\ deleted_files = [d \in Indexes |-> <<>>]
    /\ disk_file_index = 0
    /\ process = "runs"
    /\ puts = <<>>

-----------------------------------------------------------------------------
exists(f) == bigtable[f] # Absent

(* What is read of a file that ends too early is cut short. *)
Slice(bytes, start, size) ==
    SubSeq(bytes, start + 1, Min({start + size, Len(bytes)}))

get(f) ==
    IF ~ exists(f) THEN <<>>
    ELSE LET md == bigtable[f]
         IN  Slice(IF md.is_flushed THEN disk[md.disk_filename] ELSE memspace,
                   md.start, md.filesize)

Remember(md) == [deleted_files EXCEPT ![md.disk_filename] = Append(@, md)]

dele(f) ==
    /\ process = "runs"
    /\ exists(f)
    /\ deleted_files' = Remember(bigtable[f])
    /\ bigtable' = [bigtable EXCEPT ![f] = Absent]
    /\ UNCHANGED <<memspace, mem_files, disk, disk_files, disk_file_index, process, puts>>

(* Mutants: the size counts a terminator; the place is one too far. *)
WithTerminator(f, n) ==
    [file |-> f, disk_filename |-> disk_file_index, start |-> Len(memspace),
     filesize |-> n + 1, is_flushed |-> FALSE]

ShiftedMetadata(f, n) ==
    [file |-> f, disk_filename |-> disk_file_index, start |-> Len(memspace) + 1,
     filesize |-> n, is_flushed |-> FALSE]

(* The metadata of a new file: it will be in the next disk file, after the *)
(* bytes that are in the buffer now.                                       *)
NewMetadata(f, n) ==
    [file |-> f, disk_filename |-> disk_file_index, start |-> Len(memspace),
     filesize |-> n, is_flushed |-> FALSE]

(* The content joins the buffer. *)
PutMemory(f, n) ==
    /\ Len(memspace) + n < MAX_BUFFER_SIZE
    /\ bigtable' = [bigtable EXCEPT ![f] = NewMetadata(f, n)]
    /\ memspace' = memspace \o Content(Len(puts) + 1, n)
    /\ mem_files' = Append(mem_files, f)
    /\ UNCHANGED <<disk, disk_files, disk_file_index, process>>

MarkFlushed(table, names) ==
    [f \in Files |-> IF f \in ToSet(names) THEN [table[f] EXCEPT !.is_flushed = TRUE]
                                           ELSE table[f]]

(* The buffer and the content are written to a new disk file and all the   *)
(* names in the buffer are marked.  A name that has been deleted since it  *)
(* joined the buffer is looked up all the same: the exception is not       *)
(* caught, and ends the server; its memory is kept here as it was.         *)
PutDisk(f, n) ==
    LET names == Append(mem_files, f)
        table == [bigtable EXCEPT ![f] = NewMetadata(f, n)]
    IN  /\ Len(memspace) + n >= MAX_BUFFER_SIZE
        /\ disk' = [disk EXCEPT ![disk_file_index] =
                        memspace \o Content(Len(puts) + 1, n)]
        /\ IF \E g \in ToSet(names) : table[g] = Absent
           THEN /\ process' = "aborted"
                /\ UNCHANGED <<bigtable, memspace, mem_files, disk_files, disk_file_index>>
           ELSE /\ bigtable' = MarkFlushed(table, names)
                /\ disk_files' = [disk_files EXCEPT ![disk_file_index] = names]
                /\ memspace' = <<>>
                /\ mem_files' = <<>>
                /\ disk_file_index' = disk_file_index + 1
                /\ UNCHANGED process

(* A file that exists is deleted first. *)
put(f, n) ==
    /\ process = "runs"
    /\ Len(puts) < MaxPuts
    /\ puts' = Append(puts, f)
    /\ deleted_files' = IF exists(f) THEN Remember(bigtable[f]) ELSE deleted_files
    /\ PutMemory(f, n) \/ PutDisk(f, n)

-----------------------------------------------------------------------------
(* The places in the list of disk file d that dele_file drops: as many of  *)
(* a name, from the front, as have been deleted.                           *)
Deleted(d, f) == Cardinality({k \in DOMAIN deleted_files[d] : deleted_files[d][k].file = f})

Dropped(d) ==
    LET names == disk_files[d]
    IN  {k \in DOMAIN names :
            Cardinality({j \in 1..(k - 1) : names[j] = names[k]}) < Deleted(d, names[k])}

(* When the queue of deleted files is empty, its top is still compared     *)
(* with the names that follow, which is undefined: the file dropped last   *)
(* may still be found there, and its successor of the same name dropped.   *)
MayDrop(d) ==
    LET last == Max(Dropped(d))
    IN  {k \in DOMAIN disk_files[d] : k > last /\ disk_files[d][k] = disk_files[d][last]}

(* The names at the places of disk file d that are kept, and the content   *)
(* each place then has: none where the name is dropped.                    *)
KeptNames(d, kept) ==
    FlattenSeq([k \in DOMAIN disk_files[d] |->
                    IF k \in kept THEN <<disk_files[d][k]>> ELSE <<>>])

KeptContents(d, kept) ==
    [k \in DOMAIN disk_files[d] |-> IF k \in kept THEN get(disk_files[d][k]) ELSE <<>>]

(* Mutant: the bytes are moved but the places are not updated. *)
NotMoved(f, d, kept) == bigtable[f]

(* The metadata of file f of disk file d when the kept files move up.      *)
Moved(f, d, kept) ==
    LET at == {k \in kept : disk_files[d][k] = f}
    IN  IF at = {} THEN bigtable[f]
        ELSE [bigtable[f] EXCEPT !.start =
                Len(FlattenSeq(SubSeq(KeptContents(d, kept), 1, Min(at) - 1)))]

(* Every disk file with deletions is rewritten (dele_file), unless one of  *)
(* the deletions is of a file that was in the buffer that is still there:  *)
(* the loop over deleted_files does not get past its entry.                *)
dele_disk ==
    /\ process = "runs"
    /\ Repeated \/ \A d \in Indexes : deleted_files[d] # <<>> => IsInjective(disk_files[d])
    /\ \/ /\ deleted_files[disk_file_index] # <<>>
          /\ process' = "hangs"
          /\ UNCHANGED <<bigtable, disk, disk_files, deleted_files>>
       \/ LET D == {d \in Indexes : deleted_files[d] # <<>>}
          IN  /\ disk_file_index \notin D
              /\ D # {}
              /\ \E stray \in SUBSET UNION {{d} \X MayDrop(d) : d \in D} :
                   LET kept == [d \in D |-> {k \in DOMAIN disk_files[d] :
                                               k \notin Dropped(d) /\ <<d, k>> \notin stray}]
                   IN  /\ disk' = [d \in Indexes |->
                            IF d \in D THEN FlattenSeq(KeptContents(d, kept[d])) ELSE disk[d]]
                       /\ disk_files' = [d \in Indexes |->
                            IF d \in D THEN KeptNames(d, kept[d]) ELSE disk_files[d]]
                       /\ bigtable' = [f \in Files |->
                            IF exists(f) /\ bigtable[f].disk_filename \in D
                            THEN LET d == bigtable[f].disk_filename IN Moved(f, d, kept[d])
                            ELSE bigtable[f]]
              /\ deleted_files' = [d \in Indexes |-> <<>>]
              /\ UNCHANGED process
    /\ UNCHANGED <<memspace, mem_files, disk_file_index, puts>>

TableNext ==
    \/ \E f \in Files : dele(f) \/ \E n \in Sizes : put(f, n)
    \/ dele_disk

TableSpec == TableInit /\ [][TableNext]_tableVars

-----------------------------------------------------------------------------
(* Type invariant of the big table; a file is where its metadata says.     *)
Bytes == (1..MaxPuts) \X Nat

TableTypeOK ==
    /\ bigtable \in [Files -> Metadata \cup {Absent}]
    /\ \A f \in Files : exists(f) => bigtable[f].file = f
    /\ memspace \in Seq(Bytes)
    /\ mem_files \in Seq(Files)
    /\ disk \in [Indexes -> Seq(Bytes)]
    /\ disk_files \in [Indexes -> Seq(Files)]
    /\ deleted_files \in [Indexes -> Seq(Metadata)]
    /\ disk_file_index \in Indexes
    /\ process \in {"runs", "aborted", "hangs"}
    /\ puts \in Seq(Files)

(* While the server runs, a file reads as it was put last, in memory, on   *)
(* disk or moved by a compaction (get, put_helper, dele_file).             *)
Readable ==
    process = "runs" =>
        \A f \in Files : exists(f) =>
            LET p == Max({k \in DOMAIN puts : puts[k] = f})
            IN  get(f) = Content(p, bigtable[f].filesize)

(* The big table implements the abstract one, in which a file has its      *)
(* content whether it is in the buffer or on disk.                         *)
TableContents == {Content(p, n) : p \in 1..MaxPuts, n \in Sizes}

Table == INSTANCE KeyValue
           WITH Contents <- TableContents,
                cell <- [f \in Files |-> IF exists(f) THEN get(f) ELSE Absent]

ImplementsKeyValue == Table!Spec

=============================================================================
