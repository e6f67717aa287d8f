--------------------------- MODULE ListOfSequences ----------------------------
(***************************************************************************)
(* What lists of list.h promise: sequences of items that share none.  An   *)
(* item is added at an end, or beside an item, of a list, and leaves from  *)
(* wherever it is; it may go from one list to the end of another at once.  *)
(***************************************************************************)
EXTENDS Sequences, SequencesExt, Naturals

CONSTANTS ListHead, Item

VARIABLE seqs

Listed == UNION { ToSet(seqs[l]) : l \in ListHead }

Init == seqs = [ l \in ListHead |-> << >> ]

Insert(l, k, i) ==
    /\ i \notin Listed
    /\ seqs' = [seqs EXCEPT ![l] = InsertAt(@, k, i)]

Delete(l, k) == seqs' = [seqs EXCEPT ![l] = RemoveAt(@, k)]

Move(l, k, m) ==
    seqs' = [seqs EXCEPT ![l] = RemoveAt(@, k), ![m] = Append(@, seqs[l][k])]

Next ==
    /\ seqs' # seqs
    /\ \E l \in ListHead :
        \/ \E i \in Item, k \in 1..(Len(seqs[l]) + 1) : Insert(l, k, i)
        \/ \E k \in 1..Len(seqs[l]) :
              \/ Delete(l, k)
              \/ \E m \in ListHead \ { l } : Move(l, k, m)

Spec == Init /\ [][Next]_seqs
=============================================================================
