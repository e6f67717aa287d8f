------------------------------ MODULE TaskList -------------------------------
(***************************************************************************)
(* The task lists of kernel/core/scheduler.c as sequences: the intrusive   *)
(* list of list.h read from the head.  list_add_before(list, node) is      *)
(* Append, list_remove_head is Head and Tail, list_delete is RemoveAt.     *)
(***************************************************************************)
EXTENDS Integers, SequencesExt

\* Positions of |list| where a task of lower priority than |t| stands.
Lower(list, t, pr) == { i \in 1..Len(list) : pr[list[i]] < pr[t] }

\* A loop over a list stops at the first position of |S|.
IsFirst(i, S) == i \in S /\ \A j \in S : i <= j

\* Mutant of task_put: the tail test alone, whatever the priority.
task_put_append(list, t, pr) == Append(list, t)

\* Mutant of task_put: ahead of the tasks of the same priority.
task_put_lifo(list, t, pr) ==
    LET I == { i \in 1..Len(list) : pr[list[i]] <= pr[t] }
    IN  IF I = {} THEN Append(list, t)
        ELSE InsertAt(list, CHOOSE i \in I : IsFirst(i, I), t)

\* Insert |t| in |list|, ordered by decreasing priority |pr|, behind the tasks of
\* its own priority.
task_put(list, t, pr) ==
    IF list = << >> \/ pr[Last(list)] >= pr[t]
    THEN Append(list, t)
    ELSE InsertAt(list, CHOOSE i \in Lower(list, t, pr) :
                            IsFirst(i, Lower(list, t, pr)), t)

\* No task is linked twice in |q|.
NoDuplicate(q) == \A i, j \in 1..Len(q) : q[i] = q[j] => i = j

\* |q| is ordered by decreasing priority |pr|.
Ordered(q, pr) == \A i, j \in 1..Len(q) : i < j => pr[q[i]] >= pr[q[j]]
=============================================================================
