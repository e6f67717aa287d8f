----------------------------- MODULE RingBuffer ------------------------------
(***************************************************************************)
(* The ring buffer of kernel/core/ringbuffer.c: an array of Size bytes,    *)
(* Size a power of two, with a head and a tail index that are equal when   *)
(* the buffer is empty.  "& buffer_mask" is "% Size".                      *)
(*                                                                         *)
(* Every call runs with the interrupts disabled (it is made from int 0x21  *)
(* or from an interrupt handler), so each one is a single step.            *)
(***************************************************************************)
EXTENDS Integers, Sequences

CONSTANTS
    Byte,     \* values of a byte
    Size,     \* size of the array
    MaxArr    \* bound on the length of the arrays given to the calls

ASSUME RingBufferAssumption == Size \in Nat \ {0} /\ MaxArr \in Nat

VARIABLES
    buffer,       \* the array
    head_index,   \* where the next byte goes
    tail_index,   \* where the oldest byte is
    output        \* bytes the last reading call stored

ringvars == << buffer, head_index, tail_index, output >>

\* RING_BUFFER_MASK()
Mask(n) == n % Size

\* ring_buffer_num_items()
num_items(head, tail) == Mask(head - tail)

is_empty(head, tail) == head = tail

\* Mutant of is_full: full only when every slot is used.
is_full_late(head, tail) == num_items(head, tail) = Size

\* ring_buffer_is_full(): one slot always stays free.
is_full(head, tail) == num_items(head, tail) = Size - 1

\* ring_buffer_init(), which also resets the buffer: the array is left alone.
RingInit ==
    /\ buffer \in [0..(Size - 1) -> Byte]
    /\ head_index = 0 /\ tail_index = 0
    /\ output = << >>

Reset ==
    /\ head_index' = 0 /\ tail_index' = 0
    /\ UNCHANGED << buffer, output >>

\* The buffer after ring_buffer_queue() of one byte.
Queued(b, c) ==
    [ array |-> [b.array EXCEPT ![b.head] = c],
      head  |-> Mask(b.head + 1),
      tail  |-> IF is_full(b.head, b.tail) THEN Mask(b.tail + 1) ELSE b.tail ]

\* ring_buffer_queue_arr() queues byte after byte; ring_buffer_queue() is the case
\* of one byte.
QueueArr(s) ==
    LET start == [ array |-> buffer, head |-> head_index, tail |-> tail_index ]
        after[n \in 0..Len(s)] == IF n = 0 THEN start ELSE Queued(after[n - 1], s[n])
        b == after[Len(s)]
    IN /\ buffer' = b.array /\ head_index' = b.head /\ tail_index' = b.tail
       /\ UNCHANGED output

\* How many bytes the loop of ring_buffer_dequeue_arr() finds: it stops at |n| or
\* when the tail meets the head.
Taken(n) == IF is_empty(head_index, tail_index) THEN 0
            ELSE CHOOSE k \in 0..n :
                    /\ k = n \/ Mask(tail_index + k) = head_index
                    /\ \A j \in 0..(k - 1) : Mask(tail_index + j) # head_index

\* ring_buffer_dequeue_arr(); ring_buffer_dequeue() is the case of one byte.
DequeueArr(n) ==
    /\ output' = [ i \in 1..Taken(n) |-> buffer[Mask(tail_index + i - 1)] ]
    /\ tail_index' = Mask(tail_index + Taken(n))
    /\ UNCHANGED << buffer, head_index >>

\* ring_buffer_peek()
Peek(i) ==
    /\ output' = IF i >= num_items(head_index, tail_index) THEN << >>
                 ELSE << buffer[Mask(tail_index + i)] >>
    /\ UNCHANGED << buffer, head_index, tail_index >>

Arrays == UNION { [1..n -> Byte] : n \in 0..MaxArr }

RingNext ==
    \/ Reset
    \/ \E s \in Arrays : QueueArr(s)
    \/ \E n \in 0..MaxArr : DequeueArr(n)
    \/ \E i \in 0..(Size - 1) : Peek(i)

RingSpec == RingInit /\ [][RingNext]_ringvars

-----------------------------------------------------------------------------
(* Properties.                                                             *)

\* The indexes stay inside the array whatever the sequence of calls.
RingTypeOK ==
    /\ buffer \in [0..(Size - 1) -> Byte]
    /\ head_index \in 0..(Size - 1) /\ tail_index \in 0..(Size - 1)
    /\ output \in Seq(Byte)

\* The queue the array and its indexes stand for.
Items == [ i \in 1..num_items(head_index, tail_index) |->
             buffer[Mask(tail_index + i - 1)] ]

Fifo == INSTANCE BoundedFifo WITH items <- Items, Cap <- Size - 1

\* "Due to the design only RING_BUFFER_SIZE-1 items can be contained in the buffer"
\* (ringbuffer.h:33): the ring buffer is a queue of that capacity which gives the
\* bytes back in order and loses the oldest ones, and only those, when it is full; its
\* indexes stay inside the array.
IsBoundedFifo == Fifo!FifoSpec /\ []RingTypeOK
=============================================================================
