----------------------------- MODULE BoundedFifo -----------------------------
(***************************************************************************)
(* The abstract specification of a ring buffer: a first-in first-out queue *)
(* of at most Cap bytes where a new byte takes the place of the oldest.    *)
(***************************************************************************)
EXTENDS FifoOps

CONSTANTS Byte, Cap, MaxArr

VARIABLES
    items,    \* bytes queued, oldest first
    output    \* bytes the last reading call stored

FifoInit == items = << >> /\ output = << >>

Put(s) ==
    /\ items' = PushAll(items, s, Cap)
    /\ UNCHANGED output

\* The |n| oldest bytes, or all of them when there are fewer.
Get(n) ==
    /\ output' = SubSeq(items, 1, IF n < Len(items) THEN n ELSE Len(items))
    /\ items' = SubSeq(items, Len(output') + 1, Len(items))

\* A look at one byte, which stays in the queue; nothing is there beyond the last.
Look(i) ==
    /\ output' = SubSeq(items, i + 1, IF i < Len(items) THEN i + 1 ELSE 0)
    /\ UNCHANGED items

Reset == items' = << >> /\ UNCHANGED output

FifoNext ==
    \/ Reset
    \/ \E s \in UNION { [1..n -> Byte] : n \in 0..MaxArr } : Put(s)
    \/ \E n \in 0..MaxArr : Get(n)
    \/ \E i \in 0..Cap : Look(i)

FifoSpec == FifoInit /\ [][FifoNext]_<< items, output >>
=============================================================================
