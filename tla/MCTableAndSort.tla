--------------------------- MODULE MCTableAndSort ---------------------------
(***************************************************************************)
(* BigTable and ParallelSort for TLC: the two programs that speak to no    *)
(* other.  They share nothing, so one of them moves.  Files can change     *)
(* places: while mysort runs the table is empty, the same for all of them, *)
(* so its states stay what they are and its liveness can be checked.       *)
(***************************************************************************)
EXTENDS BigTable, ParallelSort

CONSTANTS f1, f2, f3

VARIABLE program

Symmetry == Permutations(Files)

bothVars == <<program, tableVars, sortVars>>

(* What mysort is given makes no difference while it does not run.         *)
BothInit ==
    /\ TableInit /\ SortInit
    /\ \/ program = "BE_server" /\ mode = "threads" /\ arr = <<>>
       \/ program = "mysort"

InTable == program = "BE_server" /\ UNCHANGED <<program, sortVars>>
InSort  == program = "mysort" /\ UNCHANGED <<program, tableVars>>

BothNext ==
    \/ \E f \in Files : dele(f) /\ InTable
    \/ \E f \in Files, n \in Sizes : put(f, n) /\ InTable
    \/ dele_disk /\ InTable
    \/ Alone /\ InSort
    \/ Fork /\ InSort
    \/ Write /\ InSort
    \/ Collect /\ InSort
    \/ Join /\ InSort
    \/ Clear /\ InSort
    \/ Copy /\ InSort
    \/ Raise /\ InSort
    \/ Poll /\ InSort
    \/ MergeAll /\ InSort
    \/ \E i \in Workers : Receive(i) /\ InSort
    \/ \E i \in Workers : Load(i) /\ InSort
    \/ \E i \in Workers : Sort(i) /\ InSort
    \/ \E i \in Workers : Answer(i) /\ InSort
    \/ \E i \in Workers : Store(i) /\ InSort
    \/ \E i \in Workers : Signal(i) /\ InSort

BothSpec ==
    /\ BothInit /\ [][BothNext]_bothVars
    /\ WF_bothVars(Parent /\ InSort)
    /\ \A i \in Workers : WF_bothVars(Worker(i) /\ InSort)

(* If it is the sort that runs, it ends: no worker and no parent waits for *)
(* a full or an empty pipe, a flag or a thread for ever (mysort.cc).       *)
SortTerminates == program = "mysort" => Terminates

=============================================================================
