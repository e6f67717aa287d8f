------------------------------ MODULE LinkedList ------------------------------
(***************************************************************************)
(* The intrusive doubly linked lists of kernel/core/list.h, on which the   *)
(* scheduler, the CompactFlash driver, the block devices and the mounts    *)
(* keep everything: the other modules take them for sequences, and this    *)
(* one shows that they are.                                                *)
(*                                                                         *)
(* A list is a node of its own, closed on itself while it is empty.  The   *)
(* lists are used with interrupts disabled: an operation is one step.  A   *)
(* loop list_for_every_entry_safe() is a step per turn, in which its body  *)
(* may take the current entry off the list and put it on another one, as   *)
(* the loops over sleepers and waiters do.                                 *)
(***************************************************************************)
EXTENDS Integers, Sequences, SequencesExt, FiniteSets

CONSTANTS
    ListHead,   \* the lists
    Item,       \* the nodes that are put on them
    NoNode

ASSUME ListAssumption ==
    /\ ListHead \cap Item = {} /\ NoNode \notin ListHead \cup Item
    /\ ListHead # {} /\ IsFiniteSet(Item)

Node == ListHead \cup Item

VARIABLES
    next, prev,   \* the two links of every node
    loop          \* the loop under way, or NoLoop

links == << next, prev >>
listvars == << next, prev, loop >>

NoLoop == [ list |-> NoNode ]

\* LIST_INITIAL_VALUE, list_initialize() and list_clear_node().
LinkInit ==
    /\ next = [ n \in Node |-> IF n \in ListHead THEN n ELSE NoNode ]
    /\ prev = [ n \in Node |-> IF n \in ListHead THEN n ELSE NoNode ]

ListInit == LinkInit /\ loop = NoLoop

-----------------------------------------------------------------------------
(* What a list answers.                                                    *)

list_in_list(i) == ~(prev[i] = NoNode /\ next[i] = NoNode)
list_is_empty(l) == next[l] = l
list_peek_head(l) == IF next[l] # l THEN next[l] ELSE NoNode
list_peek_tail(l) == IF prev[l] # l THEN prev[l] ELSE NoNode
list_next(l, i) == IF next[i] # l THEN next[i] ELSE NoNode
list_prev(l, i) == IF prev[i] # l THEN prev[i] ELSE NoNode

list_next_wrap(l, i) ==
    CASE next[i] # l -> next[i]
      [] next[i] = l /\ next[next[i]] # l -> next[next[i]]
      [] OTHER -> NoNode

list_prev_wrap(l, i) ==
    CASE prev[i] # l -> prev[i]
      [] prev[i] = l /\ prev[prev[i]] # l -> prev[prev[i]]
      [] OTHER -> NoNode

\* list_for_every(), along the links |f|: the nodes that the loop visits.  A
\* list that does not come back to |l| gives more nodes than there are.
list_for_every(f, l) ==
    LET at[ k \in 1..(Cardinality(Item) + 1) ] ==
            IF k = 1 THEN f[l]
            ELSE IF at[k - 1] \in { l, NoNode } THEN at[k - 1] ELSE f[at[k - 1]]
    IN  [ k \in { j \in DOMAIN at : at[j] \notin { l, NoNode } } |-> at[k] ]

list_length(l) == Len(list_for_every(next, l))

-----------------------------------------------------------------------------
(* What changes a list.                                                    *)

\* Mutant of list_add_head: the order of two assignments is swapped, and the old
\* first node is found through the list once that is changed.
list_add_head_swapped(e, i) ==
    /\ next' = [next EXCEPT ![i] = next[e], ![e] = i]
    /\ prev' = [prev EXCEPT ![i] = e]

\* list_add_head(), and list_add_after() when |e| is an entry.
list_add_head(e, i) ==
    /\ next' = [next EXCEPT ![i] = next[e], ![e] = i]
    /\ prev' = [prev EXCEPT ![i] = e, ![next[e]] = i]

\* list_add_tail(), and list_add_before() when |e| is an entry.
list_add_tail(e, i) ==
    /\ prev' = [prev EXCEPT ![i] = prev[e], ![e] = i]
    /\ next' = [next EXCEPT ![i] = e, ![prev[e]] = i]

list_delete(i) ==
    /\ prev' = [prev EXCEPT ![next[i]] = prev[i], ![i] = NoNode]
    /\ next' = [next EXCEPT ![prev[i]] = next[i], ![i] = NoNode]

list_remove_head(l) == next[l] # l /\ list_delete(next[l])
list_remove_tail(l) == prev[l] # l /\ list_delete(prev[l])

\* An operation on entries in the state its callers have checked: what is added
\* is on no list, what is deleted is on one.
Operation ==
    \/ \E e \in Node, i \in Item :
          /\ list_in_list(e) /\ ~list_in_list(i)
          /\ list_add_head(e, i) \/ list_add_tail(e, i)
    \/ \E i \in Item : list_in_list(i) /\ list_delete(i)
    \/ \E l \in ListHead : list_remove_head(l) \/ list_remove_tail(l)

-----------------------------------------------------------------------------
(* The loop over a list whose entries are deleted.                         *)

LoopStart(l) ==
    /\ loop = NoLoop
    /\ loop' = [ list |-> l, entry |-> next[l], temp_entry |-> next[next[l]],
                 seen |-> << >>, all |-> list_for_every(next, l) ]
    /\ UNCHANGED links

\* Mutant of LoopNext: list_for_every_entry(), which reads the link afterwards.
LoopNextUnsafe ==
    loop' = [loop EXCEPT !.seen = Append(@, loop.entry), !.entry = next'[loop.entry],
                         !.temp_entry = next'[loop.entry]]

LoopNext ==
    loop' = [loop EXCEPT !.seen = Append(@, loop.entry), !.entry = loop.temp_entry,
                         !.temp_entry = next'[loop.temp_entry]]

\* The body keeps the entry, or deletes it ...
LoopTurn ==
    /\ loop # NoLoop /\ loop.entry # loop.list
    /\ UNCHANGED links \/ list_delete(loop.entry)
    /\ LoopNext

\* Mutant of LoopMove: the entry is put at the head of the other list.
LoopMoveFirst(l) ==
    /\ loop # NoLoop /\ loop.entry # loop.list
    /\ l # loop.list
    /\ LET i == loop.entry
       IN  /\ prev' = [prev EXCEPT ![next[i]] = prev[i], ![i] = l, ![next[l]] = i]
           /\ next' = [next EXCEPT ![prev[i]] = next[i], ![i] = next[l], ![l] = i]
    /\ LoopNext

\* ... and may put it at the end of another list: list_delete(), list_add_tail().
LoopMove(l) ==
    /\ loop # NoLoop /\ loop.entry # loop.list
    /\ l # loop.list
    /\ LET i == loop.entry
       IN  /\ prev' = [prev EXCEPT ![next[i]] = prev[i], ![i] = prev[l], ![l] = i]
           /\ next' = [next EXCEPT ![prev[i]] = next[i], ![i] = l, ![prev[l]] = i]
    /\ LoopNext

LoopEnd ==
    /\ loop # NoLoop /\ loop.entry = loop.list
    /\ loop' = NoLoop
    /\ UNCHANGED links

ListNext ==
    \/ loop = NoLoop /\ Operation /\ UNCHANGED loop
    \/ \E l \in ListHead : LoopStart(l) \/ LoopMove(l)
    \/ LoopTurn
    \/ LoopEnd

ListSpec == ListInit /\ [][ListNext]_listvars

-----------------------------------------------------------------------------
(* Properties.                                                             *)

\* The shape of the links of list.h: a node, or null once list_delete() has cleared them.
LinksTypeOK ==
    /\ next \in [ Node -> Node \cup { NoNode } ]
    /\ prev \in [ Node -> Node \cup { NoNode } ]

\* The two links of list.h mirror each other: whatever is on a list is the |prev|
\* of its |next| and the |next| of its |prev|, and what is on none has neither.
\* list_delete() finds the neighbours of an entry from the entry alone, so a
\* single stale link lets it cut a list that it does not know.
LinksMirror ==
    \A n \in Node : IF list_in_list(n)
                    THEN /\ next[n] # NoNode /\ prev[next[n]] = n
                         /\ prev[n] # NoNode /\ next[prev[n]] = n
                    ELSE n \in Item

\* Nothing is on two lists of list.h at once: every node has an owner, a list is its
\* own, and the links never lead from the nodes of one list to those of another.
OneListEach ==
    \E owner \in [ Node -> ListHead ] :
        /\ \A l \in ListHead : owner[l] = l
        /\ \A n \in Node : next[n] # NoNode => owner[next[n]] = owner[n]

\* The sequences the lists stand for, read along |next|.
Seqs == [ l \in ListHead |-> list_for_every(next, l) ]

\* How many entries of |l| come before one that is added after |e|, or before it.
Before(l, e, after) ==
    CASE e = l /\ after  -> 0
      [] e = l /\ ~after -> Len(Seqs[l])
      [] e # l -> (CHOOSE k \in 1..Len(Seqs[l]) : Seqs[l][k] = e) - IF after THEN 0 ELSE 1

\* Each operation of list.h acts where it says: list_add_head() and list_add_tail()
\* at the ends of a list or beside an entry, the removals at the ends.  task_put()
\* relies on it to keep the ready list in order of priority.
OperationsInPlace ==
    [][ links' # links => \A l \in ListHead :
          /\ \A i \in Item, e \in { l } \cup ToSet(Seqs[l]) : ~list_in_list(i) =>
                /\ list_add_head(e, i) =>
                      Seqs' = [Seqs EXCEPT ![l] = InsertAt(@, Before(l, e, TRUE) + 1, i)]
                /\ list_add_tail(e, i) =>
                      Seqs' = [Seqs EXCEPT ![l] = InsertAt(@, Before(l, e, FALSE) + 1, i)]
          /\ list_remove_head(l) => Seqs' = [Seqs EXCEPT ![l] = Tail(@)]
          /\ list_remove_tail(l) => Seqs' = [Seqs EXCEPT ![l] = Front(@)]
      ]_listvars

\* What list_peek_head() to list_length() answer, from both ends, is what the
\* sequence of the list's entries says.  The wrapping forms give the entry itself
\* when it is alone.
QueriesAgree ==
    \A l \in ListHead :
        LET s == Seqs[l]
        IN  /\ list_for_every(prev, l) = Reverse(s)
            /\ list_is_empty(l) <=> s = << >>
            /\ list_length(l) = Cardinality(ToSet(s))
            /\ list_peek_head(l) = IF s = << >> THEN NoNode ELSE s[1]
            /\ list_peek_tail(l) = IF s = << >> THEN NoNode ELSE s[Len(s)]
            /\ \A k \in 1..Len(s) :
                  /\ list_next(l, s[k]) = IF k = Len(s) THEN NoNode ELSE s[k + 1]
                  /\ list_prev(l, s[k]) = IF k = 1 THEN NoNode ELSE s[k - 1]
                  /\ list_next_wrap(l, s[k]) = s[(k % Len(s)) + 1]
                  /\ list_prev_wrap(l, s[k]) = s[IF k = 1 THEN Len(s) ELSE k - 1]

IsSequences == INSTANCE ListOfSequences WITH seqs <- Seqs

\* The lists of list.h are sequences that share no element: every step adds, deletes
\* or moves one entry, where it says, leaves the others in their order, and all
\* queries answer what the sequences say.
ListsAreSequences == IsSequences!Spec /\ OperationsInPlace /\ []QueriesAgree

\* A loop that may delete or move its current entry visits every entry that was
\* on the list once, in order, and ends there.
LoopVisitsAll ==
    loop # NoLoop =>
        /\ IsPrefix(loop.seen, loop.all)
        /\ loop.entry = Append(loop.all, loop.list)[Len(loop.seen) + 1]
=============================================================================
