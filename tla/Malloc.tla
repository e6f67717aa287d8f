------------------------------- MODULE Malloc --------------------------------
(***************************************************************************)
(* The allocator of the kernel: the buddy allocator libc/malloc.c, the     *)
(* break libc/brk.c and the kernel side of it, kernel/heap.c.              *)
(*                                                                         *)
(* malloc.c and heap.c both define a global variable called heap, with no  *)
(* initializer: the 6.3 gcc of the toolchain makes both common symbols and *)
(* the linker one variable of them.  The variable shared tells the kernel  *)
(* image, where that happens, from a program linked without heap.c, whose  *)
(* break is kept by the system the same way.                               *)
(*                                                                         *)
(* No interrupt handler allocates and a task that does is in a system call *)
(* or is the only one that allocates (boot): each call is a single step.   *)
(* Only pointers that malloc() returned and that are not yet free are      *)
(* freed.                                                                  *)
(***************************************************************************)
EXTENDS Integers, Sequences, SequencesExt, FiniteSets, FiniteSetsExt

CONSTANTS
    MinIndex,     \* log2 of MIN_SIZE (3)
    MAX_INDEX,    \* log2 of PAGE_SIZE (12)
    Header,       \* sizeof(struct block_header) (2)
    Range16,      \* number of values of size_t and of a pointer (2^16)
    Base, Limit,  \* heap_base and heap_max of heap.c
    Requests      \* sizes asked for

ASSUME MallocAssumption ==
    /\ { MinIndex, MAX_INDEX, Header, Range16, Base, Limit } \subseteq Nat
    /\ MinIndex <= MAX_INDEX /\ 0 < Base /\ Base <= Limit
    /\ Limit < Range16 /\ Range16 % 2^MAX_INDEX = 0
    /\ Requests \subseteq 0..(Range16 - 1)

PAGE_SIZE == 2^MAX_INDEX
Index == MinIndex..MAX_INDEX
NULL == 0
Failed == Range16 - 1      \* (void *)-1

VARIABLES
    shared,      \* malloc.c and heap.c share the variable heap
    brk,         \* heap of heap.c
    lib_brk,     \* _lib_brk of brk.c
    lib_heap,    \* heap of malloc.c, when it has a variable of its own
    heap_size,   \* heap_size of malloc.c
    fb_table,    \* free blocks of each index, the next to be used first
    live,        \* blocks in use: address, size in the header
    hung         \* a call of malloc() never returns

vars == << shared, brk, lib_brk, lib_heap, heap_size, fb_table, live, hung >>

Init ==
    /\ shared \in BOOLEAN
    /\ brk = Base
    /\ lib_brk = NULL /\ lib_heap = NULL /\ heap_size = 0
    /\ fb_table = [i \in Index |-> << >>]
    /\ live = {}
    /\ hung = FALSE

-----------------------------------------------------------------------------
(* The break.                                                              *)

\* heap_brk(): the break it returns, which is also where the break then is unless
\* the address is refused.
heap_brk(addr) ==
    IF addr = 0 THEN brk
    ELSE IF addr < Base \/ addr > Limit THEN Failed
    ELSE addr

\* sbrk(): the first call asks where the break is; then it is moved up.
SbrkStart == IF lib_brk = NULL THEN brk ELSE lib_brk
SbrkEnd(increment) == (SbrkStart + increment) % Range16
SbrkFails(increment) ==
    LET new == heap_brk(SbrkEnd(increment))
    IN new = Failed \/ new < SbrkEnd(increment)

-----------------------------------------------------------------------------
(* Blocks.                                                                 *)

\* The variable heap as malloc() finds it when the break is |b|.
Heap(b) == IF shared THEN b
           ELSE IF lib_heap = NULL THEN SbrkStart ELSE lib_heap

\* getindex(): the least index of a block of |size|.  The size of the block is
\* doubled in a size_t: above the last power of two the loop never ends.
getindex_ends(size) == size <= Range16 \div 2
getindex(size) == CHOOSE i \in MinIndex..Range16 :
                     /\ size <= 2^i
                     /\ \A j \in MinIndex..(i - 1) : 2^j < size

\* Mutant of getbuddy: an address instead of an offset in the heap.
getbuddy_absolute(i, addr, h) ==
    IF (addr \div 2^i) % 2 = 0 THEN (addr + 2^i) % Range16
                               ELSE (addr - 2^i) % Range16

\* getbuddy(): the bit 2^i of the offset in the heap is flipped.
getbuddy(i, addr, h) ==
    IF ((addr - h) \div 2^i) % 2 = 0 THEN (addr + 2^i) % Range16
                                     ELSE (addr - 2^i) % Range16

\* The free lists after a block |zone| of index |from| is cut down to |to|.
Split(fb, zone, from, to, h) ==
    [ i \in Index |-> IF i \in to..(from - 1) THEN << getbuddy(i, zone, h) >> \o fb[i]
                                              ELSE fb[i] ]

\* malloc() of |full| bytes, header included.
Allocate(full) ==
    LET index == getindex(full)
        found == { i \in index..MAX_INDEX : fb_table[i] # << >> }
        use(zone) == live' = live \cup { [ addr |-> zone, size |-> full ] }
    IN \/ \* The free list of the least index that has a block.
          /\ found # {}
          /\ LET i == Min(found)
                 zone == Head(fb_table[i])
             IN /\ fb_table' = Split([fb_table EXCEPT ![i] = Tail(@)], zone, i, index,
                                     Heap(brk))
                /\ use(zone)
          /\ UNCHANGED << brk, lib_brk, heap_size >>
       \/ \* A new page, behind what the heap is believed to be.
          /\ found = {} /\ index <= MAX_INDEX /\ ~SbrkFails(PAGE_SIZE)
          /\ brk' = heap_brk(SbrkEnd(PAGE_SIZE))
          /\ lib_brk' = brk'
          /\ heap_size' = heap_size + PAGE_SIZE
          /\ LET zone == (Heap(brk') + heap_size) % Range16
             IN /\ fb_table' = Split(fb_table, zone, MAX_INDEX, index, Heap(brk'))
                /\ use(zone)
       \/ \* No more memory, or more than PAGE_SIZE: NULL.
          /\ found = {} /\ (index > MAX_INDEX \/ SbrkFails(PAGE_SIZE))
          /\ lib_brk' = IF shared /\ index > MAX_INDEX THEN lib_brk ELSE SbrkStart
          /\ UNCHANGED << brk, heap_size, fb_table, live >>

\* The size of a block with its header, a size_t.
FullSize(sz) == (sz + Header) % Range16

\* calloc() of |n| members of |size| bytes, malloc() being the case of one; zero
\* bytes are refused.  The product and the sum with the header are size_t.
Calloc(n, size) ==
    LET sz == (n * size) % Range16
        full == FullSize(sz)
    IN /\ ~hung
       /\ sz # 0
       /\ IF getindex_ends(full)
          THEN /\ Allocate(full)
               /\ lib_heap' = IF shared THEN lib_heap ELSE Heap(brk)
               /\ UNCHANGED << shared, hung >>
          ELSE /\ hung' = TRUE
               /\ UNCHANGED << shared, brk, lib_brk, lib_heap, heap_size, fb_table, live >>

\* Mutant of CanMerge: only blocks of the least size are merged.
CanMergeOnce(i, buddy) == i = MinIndex /\ Contains(fb_table[i], buddy)

\* fb_remove() finds the buddy of a block that is less than a page.
CanMerge(i, buddy) == i < MAX_INDEX /\ Contains(fb_table[i], buddy)

\* The block that the one at |addr| is part of at each index, merged up to there.
MergedAt(addr, first, h) ==
    LET zone[i \in first..MAX_INDEX] ==
            IF i = first THEN addr
            ELSE Min({ zone[i - 1], getbuddy(i - 1, zone[i - 1], h) })
    IN  zone

\* The first index at which there is nothing to merge with.
MergeEnd(zone, first, h) ==
    CHOOSE i \in first..MAX_INDEX :
        /\ ~CanMerge(i, getbuddy(i, zone[i], h))
        /\ \A j \in first..(i - 1) : CanMerge(j, getbuddy(j, zone[j], h))

\* free(): the block is merged with its buddy as long as that one is free.
Free(b) ==
    /\ ~hung
    /\ b \in live
    /\ live' = live \ { b }
    /\ LET h == Heap(brk)
           first == getindex(b.size)
           zone == MergedAt(b.addr, first, h)
           last == MergeEnd(zone, first, h)
       IN fb_table' = [ i \in Index |->
             IF i \in first..(last - 1) THEN RemoveFirst(fb_table[i], getbuddy(i, zone[i], h))
             ELSE IF i = last THEN << zone[i] >> \o fb_table[i]
             ELSE fb_table[i] ]
    /\ UNCHANGED << shared, brk, lib_brk, lib_heap, heap_size, hung >>

Next ==
    \/ \E n \in 1..2, size \in Requests : Calloc(n, size)
    \/ \E b \in live : Free(b)

Spec == Init /\ [][Next]_vars
-----------------------------------------------------------------------------
(* Properties.                                                             *)

Address == 0..(Range16 - 1)

\* The shape of the state: every address is a pointer, the break is in the heap.
TypeOK ==
    /\ shared \in BOOLEAN
    /\ brk \in Base..Limit
    /\ lib_brk \in Address /\ lib_heap \in Address
    /\ heap_size \in Nat
    /\ fb_table \in [Index -> Seq(Address)]
    /\ live \subseteq [ addr : Address, size : Address ]
    /\ hung \in BOOLEAN

\* The break never comes within a page of the end of the range of a pointer, where
\* the sum of sbrk() wraps (brk.c:38).
BreakFits ==
    \A n \in 0..Limit : Base + n * PAGE_SIZE <= Limit => Base + (n + 1) * PAGE_SIZE < Range16

\* The pages obtained end in the range of a pointer.  The kernel takes each page
\* twice as far from the base, and on its boards the sum of malloc.c:128 wraps before
\* the break comes to its limit: from then on a page lies over the interrupt vectors
\* and the variables of the kernel, those of the allocator among them, and nothing
\* can be said of the heap.
Unwrapped == ~shared \/ Base + 2 * heap_size <= Range16

\* The bytes of the blocks in use and of the free ones.
Extent(addr, i) == addr..(addr + 2^i - 1)
LiveExtents == { Extent(b.addr, getindex(b.size)) : b \in live }
FreeExtents == UNION { { Extent(fb_table[i][k], i) : k \in 1..Len(fb_table[i]) } : i \in Index }

\* Whatever the order of the calls, no byte belongs to two blocks, be they in use
\* or on a free list, and every byte of the pages obtained belongs to one: neither
\* splitting nor merging loses, repeats or overlaps a block.
BlocksTile ==
    LET E == LiveExtents \cup FreeExtents
    IN /\ Cardinality(E) = Cardinality(live) + Cardinality(FreeExtents)
       /\ \A i \in Index : IsInjective(fb_table[i])
       /\ \A x, y \in E : x # y => x \cap y = {}
       /\ Cardinality(UNION E) = heap_size

\* "Obtain the free buddies while there is some" (malloc.c:171): two buddies are
\* never both free, so a page none of whose bytes is in use is whole again.
FullyMerged ==
    \A i \in Index \ { MAX_INDEX } : \A k \in 1..Len(fb_table[i]) :
        ~Contains(fb_table[i], getbuddy(i, fb_table[i][k], Heap(brk)))

\* "Maximum address of the kernel heap" (heap.c:12): no block goes beyond it; the
\* stack of the kernel begins there.
BelowLimit == \A x \in LiveExtents \cup FreeExtents : \A a \in x : Base <= a /\ a < Limit

\* The same of a program, where malloc.c has the variable heap to itself: pages are
\* laid out from the first break on and sbrk() refuses the one that does not fit.
OwnHeapBelowLimit == ~shared => BelowLimit

\* Malloc and free keep the heap whole: its blocks tile it as long as it has not
\* wrapped, the break stays between the ends of the heap and, in a program, so do
\* the blocks.
HeapSound == TypeOK /\ (Unwrapped => BlocksTile) /\ OwnHeapBelowLimit
=============================================================================
