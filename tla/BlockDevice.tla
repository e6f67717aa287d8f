----------------------------- MODULE BlockDevice -----------------------------
(***************************************************************************)
(* Byte access to block devices: blk_read() and blk_write() of             *)
(* kernel/core/blkdev.c with their default implementations, on a disk and  *)
(* on a partition of it (kernel/core/subdev.c).                            *)
(*                                                                         *)
(* A call reads or writes whole blocks through the driver.  The driver     *)
(* puts the calling task to sleep for each transfer (module CompactFlash), *)
(* so the calls of several tasks interleave between transfers, and each    *)
(* transfer may fail.  One block is moved at a time, as the card does.     *)
(*                                                                         *)
(* Bytes are told apart: byte a of the disk starts as <<"disk", a>>, and   *)
(* byte i of the buffer that task t writes is <<t, i>>.                    *)
(***************************************************************************)
EXTENDS Integers, Sequences, FiniteSets

CONSTANTS
    Task,          \* tasks that use the disk
    block_size,    \* bytes of a block
    block_count,   \* blocks of the disk
    Range32,       \* number of values of block_t and of off_t (2^32)
    Range16,       \* number of values of an int and of a ssize_t (2^16)
    Entries,       \* entries of the partition table: name, lba_start, lba_len
    Uses,          \* the devices each task works on
    Offsets,       \* offsets of the calls
    Lengths,       \* lengths of the calls
    MaxCalls       \* bound on the calls of a task

ASSUME BlockDeviceAssumption ==
    /\ block_size \in Nat \ {0} /\ block_count \in Nat
    /\ Range16 \in Nat \ {0}
    /\ Range32 \in Nat \ {0} /\ 2 * (block_size * block_count) <= Range32
    /\ Entries \subseteq [ name : STRING, lba_start : 0..(Range32 - 1), lba_len : 1..(Range32 - 1) ]
    /\ \A e \in Entries : e.name # "disk"
    /\ DOMAIN Uses = Task
    /\ Offsets \subseteq Nat /\ Lengths \subseteq Nat /\ MaxCalls \in Nat

VARIABLES
    disk,    \* bytes of the disk
    pc,      \* where each task is in its call
    call,    \* what each task asked for
    pos,     \* offset on the disk of the next byte to move
    len,     \* bytes still to move
    temp,    \* temporary buffer of each task
    buf,     \* bytes each read has copied so far
    result,  \* what the last call of each task returned
    calls    \* calls made by each task

vars == << disk, pc, call, pos, len, temp, buf, result, calls >>

Byte == 0..(block_size * block_count - 1)
ERR_IO == -1
ERR_NO_MEM == -2

\* mbr_is_valid_entry(): a partition that leaves the disk is not published, unless the
\* sum, of 32 bits, comes round.
mbr_is_valid_entry(e) ==
    e.lba_start < block_count /\ (e.lba_start + e.lba_len) % Range32 <= block_count

\* A product of 32 bits as an off_t, which is signed.
ToOff(n) == IF n % Range32 < Range32 \div 2 THEN n % Range32 ELSE (n % Range32) - Range32

\* A count of bytes as an int, which is signed too.
ToInt(n) == IF n % Range16 < Range16 \div 2 THEN n % Range16 ELSE (n % Range16) - Range16

\* The block devices: the disk and a subdevice per partition.
Devices ==
    { [ name |-> "disk", lba_start |-> 0, lba_len |-> block_count ] }
        \cup { e \in Entries : mbr_is_valid_entry(e) }

NoCall == [ op |-> "read", dev |-> "disk", offset |-> 0, len |-> 0 ]

Init ==
    /\ disk = [ a \in Byte |-> << "disk", a >> ]
    /\ pc = [ t \in Task |-> "none" ]
    /\ call = [ t \in Task |-> NoCall ]
    /\ pos = [ t \in Task |-> 0 ] /\ len = [ t \in Task |-> 0 ]
    /\ temp = [ t \in Task |-> << >> ] /\ buf = [ t \in Task |-> << >> ]
    /\ result = [ t \in Task |-> 0 ]
    /\ calls = [ t \in Task |-> 0 ]

-----------------------------------------------------------------------------
(* The range of a call.                                                    *)

\* Mutant of blk_trim_range: a range that is cut loses one byte too many.
blk_trim_range_short(blocks, offset, n) ==
    LET total == ToOff(block_size * blocks)
    IN IF offset >= total THEN 0
       ELSE IF offset + n > total THEN total - 1 - offset
       ELSE n

\* blk_trim_range() on a device of |blocks| blocks.
blk_trim_range(blocks, offset, n) ==
    LET total == ToOff(block_size * blocks)
    IN IF offset >= total THEN 0
       ELSE IF offset + n > total THEN total - offset
       ELSE n

\* The offset on the disk, and the length, of a call.  subdev_read() and
\* subdev_write() call blk_read() and blk_write() of the parent, which trims again.
Device(c) == CHOOSE d \in Devices : d.name = c.dev
Place(c) == c.offset + Device(c).lba_start * block_size
Trimmed(c) ==
    LET n == IF c.dev = "disk" THEN c.len
             ELSE blk_trim_range(Device(c).lba_len, c.offset, c.len)
    IN IF n = 0 THEN 0 ELSE blk_trim_range(block_count, Place(c), n)

-----------------------------------------------------------------------------
(* blk_default_read() and blk_default_write().                             *)

\* The step that follows when |n| bytes are left: blocks, then what remains.
AfterFirst(n) == IF n >= block_size THEN "middle" ELSE IF n > 0 THEN "last" ELSE "done"

\* The call: nothing to move, no memory for the temporary buffer, or the first
\* transfer: of a partial block when the offset is inside one.
Call(t, c) ==
    /\ pc[t] = "none"
    /\ calls[t] < MaxCalls
    /\ calls' = [calls EXCEPT ![t] = @ + 1]
    /\ call' = [call EXCEPT ![t] = c]
    /\ pos' = [pos EXCEPT ![t] = Place(c)]
    /\ len' = [len EXCEPT ![t] = Trimmed(c)]
    /\ buf' = [buf EXCEPT ![t] = << >>]
    /\ \/ /\ Trimmed(c) = 0
          /\ result' = [result EXCEPT ![t] = 0]
          /\ UNCHANGED pc
       \/ /\ Trimmed(c) > 0
          /\ result' = [result EXCEPT ![t] = ERR_NO_MEM]
          /\ UNCHANGED pc
       \/ /\ Trimmed(c) > 0
          /\ pc' = [pc EXCEPT ![t] = IF Place(c) % block_size # 0 THEN "first"
                                     ELSE AfterFirst(Trimmed(c))]
          /\ UNCHANGED result
    /\ UNCHANGED << disk, temp >>

\* The block a task is at, and the part of it that the next transfer concerns: up
\* to the end of the block or of the call.
Block(t) == pos[t] \div block_size
BlockBytes(t) == [ i \in 0..(block_size - 1) |-> disk[Block(t) * block_size + i] ]

\* Mutant of InBlock: one byte more than the block.
InBlockOneMore(t, a) == a >= Block(t) * block_size /\ a <= Block(t) * block_size + block_size

\* The bytes a write of one block replaces.
InBlock(t, a) == a \div block_size = Block(t)

\* MIN(dev->block_size - block_offset, len)
Piece(t) == LET room == block_size - (pos[t] % block_size)
            IN IF room < len[t] THEN room ELSE len[t]

\* |n| bytes were moved.
Advance(t, n) ==
    /\ pos' = [pos EXCEPT ![t] = @ + n]
    /\ len' = [len EXCEPT ![t] = @ - n]
    /\ pc' = [pc EXCEPT ![t] = AfterFirst(len[t] - n)]

\* A partial block is read in the temporary buffer.  A read copies what it needs; a
\* write puts its bytes over it, and the block is still to be written back.
FetchPartial(t) ==
    /\ pc[t] \in { "first", "last" }
    /\ LET o == pos[t] % block_size
           n == Piece(t)
       IN IF call[t].op = "read"
          THEN /\ temp' = [temp EXCEPT ![t] = BlockBytes(t)]
               /\ buf' = [buf EXCEPT ![t] = @ \o [ i \in 1..n |-> temp'[t][o + i - 1] ]]
               /\ Advance(t, n)
          ELSE /\ temp' = [temp EXCEPT ![t] =
                    [ i \in 0..(block_size - 1) |->
                        IF i \in o..(o + n - 1)
                        THEN << t, pos[t] - Place(call[t]) + i - o >>
                        ELSE BlockBytes(t)[i] ]]
               /\ pc' = [pc EXCEPT ![t] = "store"]
               /\ UNCHANGED << buf, pos, len >>
    /\ UNCHANGED << disk, call, result, calls >>

\* The partial block is written back.
StorePartial(t) ==
    /\ pc[t] = "store"
    /\ disk' = [ a \in Byte |-> IF InBlock(t, a)
                                THEN temp[t][a % block_size] ELSE disk[a] ]
    /\ Advance(t, Piece(t))
    /\ UNCHANGED << call, temp, buf, result, calls >>

\* One of the blocks in the middle, straight from or to the caller's buffer.
MoveBlock(t) ==
    /\ pc[t] = "middle"
    /\ IF call[t].op = "read"
       THEN /\ buf' = [buf EXCEPT ![t] = @ \o [ i \in 1..block_size |-> BlockBytes(t)[i - 1] ]]
            /\ UNCHANGED disk
       ELSE /\ disk' = [ a \in Byte |-> IF InBlock(t, a)
                            THEN << t, a - Place(call[t]) >> ELSE disk[a] ]
            /\ UNCHANGED buf
    /\ Advance(t, block_size)
    /\ UNCHANGED << call, temp, result, calls >>

\* The driver reports an error: the call gives up.
TransferFails(t) ==
    /\ pc[t] \in { "first", "middle", "last", "store" }
    /\ pc' = [pc EXCEPT ![t] = "none"]
    /\ result' = [result EXCEPT ![t] = ERR_IO]
    /\ UNCHANGED << disk, call, pos, len, temp, buf, calls >>

\* The call returns the number of bytes moved, counted in an int.
Return(t) ==
    /\ pc[t] = "done"
    /\ pc' = [pc EXCEPT ![t] = "none"]
    /\ result' = [result EXCEPT ![t] = ToInt(pos[t] - Place(call[t]))]
    /\ UNCHANGED << disk, call, pos, len, temp, buf, calls >>

Calls(t) == [ op : { "read", "write" }, dev : Uses[t] \cap { d.name : d \in Devices },
              offset : Offsets, len : Lengths ]

Next ==
    \E t \in Task :
        \/ \E c \in Calls(t) : Call(t, c)
        \/ FetchPartial(t) \/ StorePartial(t) \/ MoveBlock(t)
        \/ TransferFails(t) \/ Return(t)

Spec == Init /\ [][Next]_vars

-----------------------------------------------------------------------------
(* Properties.                                                             *)

\* The shape of the state.
TypeOK ==
    /\ pc \in [Task -> { "none", "first", "middle", "last", "store", "done" }]
    /\ \A t \in Task : /\ call[t] \in Calls(t) \cup { NoCall }
                       /\ pos[t] \in Nat /\ len[t] \in Nat
                       /\ pc[t] # "none" => pos[t] + len[t] <= block_size * block_count
    /\ DOMAIN disk = Byte

\* What a call is about, as its caller sees it: the bytes from |offset| on that
\* belong to the device; a partition that leaves the disk has none.
First(c) == Device(c).lba_start * block_size + c.offset
Window(c) ==
    LET end == (Device(c).lba_start + Device(c).lba_len) * block_size
    IN { a \in Byte : /\ First(c) <= a /\ a < First(c) + c.len
                      /\ a < end /\ end <= block_size * block_count }

\* The blocks of the device of a call, of which a partition that leaves the disk has
\* none, and the use the kernel means: devices of different tasks share no block.
Extent(c) ==
    { b \in 0..(block_count - 1) :
        /\ Device(c).lba_start <= b /\ b < Device(c).lba_start + Device(c).lba_len
        /\ Device(c).lba_start + Device(c).lba_len <= block_count }
DisjointUse ==
    \A t, u \in Task : t # u =>
        \A c \in Calls(t), k \in Calls(u) : Extent(c) \cap Extent(k) = {}

\* "blk_write writes |len| bytes starting at bytes |offset|" (blkdev.h:67): a byte of
\* the disk only ever changes to the byte that a write puts there, whatever else is
\* going on, whether or not transfers fail; a partition is never left.
OnlyOwnBytes ==
    [][ \A a \in Byte : disk'[a] # disk[a] =>
          \E t \in Task : /\ pc[t] # "none" /\ call[t].op = "write"
                          /\ a \in Window(call[t])
                          /\ disk'[a] = << t, a - First(call[t]) >> ]_vars

\* "Returns the number of bytes read or a negative value on error" (blkdev.h:64): a
\* call that ends well has moved all the bytes of its range that the device has, to
\* or from the right places.
Completed ==
    TypeOK /\ \A t \in Task : pc[t] = "done" =>
        LET W == Window(call[t])
        IN /\ pos[t] - First(call[t]) = Cardinality(W)
           /\ call[t].op = "write" => \A a \in W : disk[a] = << t, a - First(call[t]) >>
           /\ call[t].op = "read" =>
                buf[t] = [ i \in 1..Cardinality(W) |-> disk[First(call[t]) + i - 1] ]
=============================================================================
