----------------------------- MODULE ParallelSort -----------------------------
(***************************************************************************)
(* Parallel-Sorting/mysort.cc: the numbers are split into groups, each     *)
(* sorted by a worker of its own, and merged.  The workers are processes   *)
(* that are fed and answer through pipes, threads that sort in place (-t), *)
(* or processes that share a segment of memory with the parent (-s).       *)
(***************************************************************************)
EXTENDS Integers, Sequences, FiniteSets

CONSTANTS
    Values,         \* the numbers to sort
    Lengths,        \* how many of them there may be
    num_process,    \* how many workers
    Capacity,       \* numbers a pipe holds
    Fresh           \* is there no segment of an earlier run?

ASSUME SortAssumption ==
    /\ Values \subseteq Int
    /\ Lengths \subseteq Nat
    /\ num_process \in Nat \ {0}
    /\ Capacity \in Nat \ {0}
    /\ Fresh \in BOOLEAN

Workers == 1..num_process

VARIABLES
    mode,               \* how the program has been started
    arr,                \* its input
    groups,             \* the parent's groups
    sorted_arr,         \* its output
    pc,                 \* where the parent is
    child_id,           \* the worker it is at
    passed,             \* numbers of that worker's it has written or read
    num_child_pending,  \* workers whose part it has not read
    child,              \* where each worker is
    own_vector,         \* the numbers each worker has
    down, up,           \* the pipes to and from each worker
    shm                 \* the segment: a part and two flags for each worker

parent  == <<groups, sorted_arr, pc, child_id, passed, num_child_pending>>
workers == <<child, own_vector>>
memory  == <<down, up, shm>>
sortVars == <<mode, arr, parent, workers, memory>>

size_avg == Len(arr) \div num_process

(* An equal share for every worker, and the rest for the last one. *)
Group(i) ==
    LET first == (i - 1) * size_avg
        last  == IF i = num_process THEN Len(arr) ELSE i * size_avg
    IN  SubSeq(arr, first + 1, last)

(* The body of the loops: two neighbours in the wrong order are exchanged. *)
Exchange(j) ==
    [s \in Seq(Int) |->
        IF s[j] > s[j + 1] THEN [s EXCEPT ![j] = s[j + 1], ![j + 1] = s[j]] ELSE s]

(* Mutant: the first pair is left out. *)
BubbleShort(s, m) ==
    LET upTo[j \in 0..m] == IF j < 2 THEN s ELSE Exchange(j)[upTo[j - 1]]
    IN  upTo[m]

(* The inner loop of BubbleSort, over the first m pairs of neighbours.     *)
Bubble(s, m) ==
    LET upTo[j \in 0..m] == IF j = 0 THEN s ELSE Exchange(j)[upTo[j - 1]]
    IN  upTo[m]

(* The outer loop: every pass is one pair shorter (the last one is empty). *)
BubbleSort(s) ==
    LET after[i \in 0..Len(s)] == IF i = 0 THEN s ELSE Bubble(after[i - 1], Len(s) - i)
    IN  after[Len(s)]

(* Two sorted sequences merged; of equal numbers the second's goes first.  *)
(* taken[k] of the first k numbers are from a.                             *)
Merge(a, b) ==
    LET fromFirst(i, j) == i < Len(a) /\ (j = Len(b) \/ a[i + 1] < b[j + 1])
        take(k) == [i \in Nat |-> IF fromFirst(i, k - 1 - i) THEN i + 1 ELSE i]
        taken[k \in 0..(Len(a) + Len(b))] == IF k = 0 THEN 0 ELSE take(k)[taken[k - 1]]
    IN  [k \in 1..(Len(a) + Len(b)) |->
            IF taken[k] > taken[k - 1] THEN a[taken[k]] ELSE b[k - taken[k]]]

Merge_sorted_groups(gs) ==
    LET arr1[g_id \in 0..(num_process - 1)] ==
            IF g_id = 0 THEN gs[1] ELSE Merge(arr1[g_id - 1], gs[g_id + 1])
    IN  arr1[num_process - 1]

NoNumbers == [i \in Workers |-> <<>>]
AllDown   == [i \in Workers |-> 0]

(* A segment is zero when it is made; one left behind holds anything.      *)
Segments ==
    [data : {[i \in Workers |-> [k \in 1..Len(Group(i)) |-> 0]]},
     go   : IF Fresh THEN {AllDown} ELSE [Workers -> {0, 1}],
     done : IF Fresh THEN {AllDown} ELSE [Workers -> {0, 1}]]

SortInit ==
    /\ mode \in {"processes", "threads", "shared"}
    /\ arr \in UNION {[1..n -> Values] : n \in Lengths}
    /\ groups = [i \in Workers |-> Group(i)]
    /\ sorted_arr = <<>>
    /\ pc = IF num_process = 1 \/ size_avg < 2 THEN "alone" ELSE "fork"
    /\ child_id = 1
    /\ passed = 0
    /\ num_child_pending = num_process
    /\ child = [i \in Workers |-> "none"]
    /\ own_vector = NoNumbers
    /\ down = NoNumbers /\ up = NoNumbers
    /\ shm \in Segments

-----------------------------------------------------------------------------
(* The parent.  It goes from worker to worker, and then on to what is next. *)
Turn(again, next) ==
    IF child_id = num_process THEN pc' = next /\ child_id' = 1
                              ELSE pc' = again /\ child_id' = child_id + 1

(* Few numbers are sorted by the parent. *)
Alone ==
    /\ pc = "alone"
    /\ sorted_arr' = BubbleSort(arr)
    /\ pc' = "finished"
    /\ UNCHANGED <<mode, arr, groups, child_id, passed, num_child_pending, workers, memory>>

(* Mutant: the parent reads the answers before it writes the groups. *)
ForkReads ==
    /\ pc = "fork"
    /\ child' = [child EXCEPT ![child_id] = "read"]
    /\ Turn("fork", "collect")
    /\ UNCHANGED <<mode, arr, groups, sorted_arr, passed, num_child_pending, own_vector, memory>>

Fork ==
    /\ pc = "fork"
    /\ \/ /\ mode = "processes"
          /\ child' = [child EXCEPT ![child_id] = "read"]
          /\ Turn("fork", "write")
       \/ /\ mode = "threads"
          /\ child' = [child EXCEPT ![child_id] = "sort"]
          /\ Turn("fork", "join")
       \/ /\ mode = "shared"
          /\ child' = [child EXCEPT ![child_id] = "wait"]
          /\ pc' = "clear" /\ UNCHANGED child_id
    /\ UNCHANGED <<mode, arr, groups, sorted_arr, passed, num_child_pending, own_vector, memory>>

(* Pipes: the parent writes the group of one worker after that of another, *)
(* and waits when the pipe is full ...                                     *)
Write ==
    /\ pc = "write"
    /\ Len(down[child_id]) < Capacity
    /\ down' = [down EXCEPT ![child_id] = Append(@, groups[child_id][passed + 1])]
    /\ IF passed + 1 < Len(groups[child_id])
       THEN passed' = passed + 1 /\ UNCHANGED <<pc, child_id>>
       ELSE passed' = 0 /\ Turn("write", "collect")
    /\ UNCHANGED <<mode, arr, groups, sorted_arr, num_child_pending, workers, up, shm>>

(* ... and then reads the answers in the same order. *)
Collect ==
    /\ pc = "collect"
    /\ up[child_id] # <<>>
    /\ groups' = [groups EXCEPT ![child_id][passed + 1] = Head(up[child_id])]
    /\ up' = [up EXCEPT ![child_id] = Tail(@)]
    /\ IF passed + 1 < Len(groups[child_id])
       THEN passed' = passed + 1 /\ UNCHANGED <<pc, child_id>>
       ELSE passed' = 0 /\ Turn("collect", "merge")
    /\ UNCHANGED <<mode, arr, sorted_arr, num_child_pending, workers, down, shm>>

(* Threads: the parent waits for one after the other. *)
Join ==
    /\ pc = "join"
    /\ child[child_id] = "ended"
    /\ Turn("join", "merge")
    /\ UNCHANGED <<mode, arr, groups, sorted_arr, passed, num_child_pending, workers, memory>>

(* Shared memory: the flags of a worker are cleared when it already runs. *)
Clear ==
    /\ pc = "clear"
    /\ shm' = [shm EXCEPT !.go[child_id] = 0, !.done[child_id] = 0]
    /\ Turn("fork", "copy")
    /\ UNCHANGED <<mode, arr, groups, sorted_arr, passed, num_child_pending, workers, down, up>>

(* Its group is copied into its part, *)
Copy ==
    /\ pc = "copy"
    /\ shm' = [shm EXCEPT !.data[child_id] = groups[child_id]]
    /\ pc' = "raise"
    /\ UNCHANGED <<mode, arr, groups, sorted_arr, child_id, passed, num_child_pending,
                   workers, down, up>>

(* and then it is told to go. *)
Raise ==
    /\ pc = "raise"
    /\ shm' = [shm EXCEPT !.go[child_id] = 1]
    /\ Turn("copy", "poll")
    /\ UNCHANGED <<mode, arr, groups, sorted_arr, passed, num_child_pending, workers, down, up>>

(* The parent looks at the workers in turn until all are done. *)
Poll ==
    /\ pc = "poll"
    /\ IF shm.done[child_id] = 1
       THEN /\ shm' = [shm EXCEPT !.done[child_id] = 0]
            /\ num_child_pending' = num_child_pending - 1
            /\ groups' = [groups EXCEPT ![child_id] = shm.data[child_id]]
       ELSE UNCHANGED <<shm, num_child_pending, groups>>
    /\ IF num_child_pending' = 0
       THEN pc' = "merge" /\ child_id' = 1
       ELSE Turn("poll", "poll")
    /\ UNCHANGED <<mode, arr, sorted_arr, passed, workers, down, up>>

MergeAll ==
    /\ pc = "merge"
    /\ sorted_arr' = Merge_sorted_groups(groups)
    /\ pc' = "finished"
    /\ UNCHANGED <<mode, arr, groups, child_id, passed, num_child_pending, workers, memory>>

-----------------------------------------------------------------------------
(* The workers.  A process reads as many numbers as its group has, ...     *)
Receive(i) ==
    /\ child[i] = "read"
    /\ down[i] # <<>>
    /\ own_vector' = [own_vector EXCEPT ![i] = Append(@, Head(down[i]))]
    /\ down' = [down EXCEPT ![i] = Tail(@)]
    /\ child' = [child EXCEPT ![i] =
                    IF Len(own_vector[i]) + 1 = Len(Group(i)) THEN "sort" ELSE "read"]
    /\ UNCHANGED <<mode, arr, parent, up, shm>>

(* ... or waits until it is told to go, and copies its part.               *)
Load(i) ==
    /\ child[i] = "wait"
    /\ shm.go[i] # 0
    /\ own_vector' = [own_vector EXCEPT ![i] = shm.data[i]]
    /\ child' = [child EXCEPT ![i] = "sort"]
    /\ UNCHANGED <<mode, arr, parent, memory>>

(* It sorts its own numbers; a thread sorts the parent's group.            *)
Sort(i) ==
    /\ child[i] = "sort"
    /\ IF mode = "threads"
       THEN /\ groups' = [groups EXCEPT ![i] = BubbleSort(@)]
            /\ child' = [child EXCEPT ![i] = "ended"]
            /\ UNCHANGED own_vector
       ELSE /\ own_vector' = [own_vector EXCEPT ![i] = BubbleSort(@)]
            /\ child' = [child EXCEPT ![i] = IF mode = "shared" THEN "store" ELSE "answer"]
            /\ UNCHANGED groups
    /\ UNCHANGED <<mode, arr, sorted_arr, pc, child_id, passed, num_child_pending, memory>>

(* A process answers number by number, *)
Answer(i) ==
    /\ child[i] = "answer"
    /\ Len(up[i]) < Capacity
    /\ up' = [up EXCEPT ![i] = Append(@, Head(own_vector[i]))]
    /\ own_vector' = [own_vector EXCEPT ![i] = Tail(@)]
    /\ child' = [child EXCEPT ![i] = IF own_vector'[i] = <<>> THEN "ended" ELSE "answer"]
    /\ UNCHANGED <<mode, arr, parent, down, shm>>

(* or copies its numbers into its part *)
Store(i) ==
    /\ child[i] = "store"
    /\ shm' = [shm EXCEPT !.data[i] = own_vector[i]]
    /\ child' = [child EXCEPT ![i] = "signal"]
    /\ UNCHANGED <<mode, arr, parent, own_vector, down, up>>

(* and then says that it is done. *)
Signal(i) ==
    /\ child[i] = "signal"
    /\ shm' = [shm EXCEPT !.done[i] = 1]
    /\ child' = [child EXCEPT ![i] = "ended"]
    /\ UNCHANGED <<mode, arr, parent, own_vector, down, up>>

Parent    == Alone \/ Fork \/ Write \/ Collect \/ Join \/ Clear \/ Copy \/ Raise \/ Poll \/ MergeAll
Worker(i) == Receive(i) \/ Load(i) \/ Sort(i) \/ Answer(i) \/ Store(i) \/ Signal(i)

SortNext == Parent \/ \E i \in Workers : Worker(i)

(* The operating system runs every process and thread. *)
SortSpec ==
    /\ SortInit /\ [][SortNext]_sortVars
    /\ WF_sortVars(Parent)
    /\ \A i \in Workers : WF_sortVars(Worker(i))

-----------------------------------------------------------------------------
Sortable == Values \cup {0}

Ascending(s)       == \A k \in 1..(Len(s) - 1) : s[k] <= s[k + 1]
Count(s, v)        == Cardinality({k \in 1..Len(s) : s[k] = v})
Permutation(s, t)  == \A v \in Sortable : Count(s, v) = Count(t, v)

(* However the workers run, whichever way they exchange numbers with the   *)
(* parent, what is printed in the end is the input in ascending order with *)
(* every number as often as it was given: no part is read before it is     *)
(* complete, taken from another worker, or read unsorted.                  *)
SortedInput ==
    pc = "finished" => Ascending(sorted_arr) /\ Permutation(sorted_arr, arr)

(* The program ends: no worker and no parent waits for a full or an empty  *)
(* pipe, a flag or a thread for ever.                                      *)
Terminates == <>(pc = "finished")

=============================================================================
