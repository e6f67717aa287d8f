------------------------------- MODULE FifoOps -------------------------------
(***************************************************************************)
(* A queue of bytes that keeps the last |cap| of them, as a sequence: what *)
(* the ring buffers of the kernel promise to the console and to the UART   *)
(* drivers.  Module RingBuffer shows that kernel/core/ringbuffer.c keeps   *)
(* that promise.                                                           *)
(***************************************************************************)
EXTENDS Integers, Sequences

\* The last |cap| elements of |s|.
KeepLast(s, cap) == IF Len(s) > cap THEN SubSeq(s, Len(s) - cap + 1, Len(s)) ELSE s

\* ring_buffer_queue(): a full queue loses its oldest byte.
Push(q, c, cap) == KeepLast(Append(q, c), cap)

\* ring_buffer_queue_arr(): the bytes of |s|, one after the other.
PushAll(q, s, cap) == KeepLast(q \o s, cap)
=============================================================================
