# A TLA+ model of the i80k kernel

i80k is a small kernel for the 8086: one processor, no memory protection, 16 bit
`int`, `size_t` and pointers. It has a priority scheduler with kernel threads, a
clock, a console on a UART, a block layer with a CompactFlash driver, a file
system layer, and a virtual board written in Go that runs it under KVM. This
directory holds TLA+ modules that model the parts with state and concurrency,
TLC configurations that check them on small instances, and TLAPS proofs about
the scheduler, the interrupts, the CompactFlash driver, the console and its ring
buffer, the mounts, the normalisation of paths, the linked lists, the allocator, the
block layer, the flash driver and the buffers of formatted output.

## Inventory

| component | sources (under `src/`) | state | operations | module |
|---|---|---|---|---|
| scheduler, threads, clock | `kernel/core/scheduler.c`, `kernel/kthread.c`, `kernel/clk.c`, `kernel/kernel.c` | `current`, lists `ready`, `zombies`, `waiters`, `blocked`, task states, `ticks` | start a thread, exit, wait, nanosleep, clock interrupt, `schedule()` | `TaskList`, `Scheduler` |
| CompactFlash driver | `kernel/drivers/block/cf20/` | list `requests`, a `bio_request` per task; the card's command | read and write blocks, interrupt handler | `CompactFlash` |
| ring buffer | `kernel/core/ringbuffer.[ch]` | array, head and tail index | init, queue, dequeue, peek | `RingBuffer`, `BoundedFifo`, `FifoOps` |
| console, 16550 driver | `kernel/console.c`, `kernel/drivers/pc16550.c` | two ring buffers, `binded`, interrupt enable register | putchar, puts, getchar, bind, interrupt handler | `Uart` |
| UART of the virtual board | `vboard/devices/p16550.go` | two FIFOs, registers, last interrupt | register accesses, goroutines `loop` and `irqManager` | `Uart` |
| allocator | `libc/malloc.c`, `libc/brk.c`, `kernel/heap.c` | break, heap size, free lists | malloc, calloc, free, sbrk | `Malloc` |
| block layer | `kernel/core/blkdev.c`, `kernel/core/subdev.c` | the disk, a call in progress per task | read and write bytes of a disk or partition | `BlockDevice` |
| file system layer | `kernel/core/fs.c`, `kernel/core/task.c`, `kernel/syscall_fs.c` | mounts and their counts, descriptor tables | mount, unmount, open, read, close, exit; normalise a path | `Vfs`, `Path` |
| linked lists | `kernel/core/list.h` | two links per node | insertions, deletions, queries, loops that delete | `LinkedList`, `ListOfSequences` |
| ext2 | `kernel/drivers/fs/ext2/` | superblock and group descriptors, the inode of an open file | mount, unmount, open, read, stat, close | `Ext2` |
| CFI flash driver | `kernel/drivers/block/cfi/cfi.c` | none; the chip's command, mode and contents | probe, read and write blocks | `Cfi` |
| interrupts | `kernel/boards/interrupts.c`, `kernel/boards/drivers/p8259a.c` and their users | vector table, masks; the controller's requests and lines in service | hook, unmask, acknowledge, switch tasks in a handler | `Interrupts` |
| formatted output | `libc/printf.c` | the output and its position | `_vsnprintf` and its callers | `Printf` |

How they interact: programs enter the kernel by `int 0x21` (console) and
`int 0x80` (everything else), with the interrupts disabled. A system call that
waits links its task on a list (`waiters`, `blocked`, `requests`) and calls
`schedule()`; an interrupt handler (clock, card) moves it to `ready`. A file
operation goes down through `fs.c`, a file system, `blk_read()` and the card's
driver, and sleeps there; other tasks enter the same layers meanwhile. Console
output goes through a ring buffer that the UART's handler empties, and the
handler runs when the board's goroutines have raised the line. All lists of tasks,
requests, devices and mounts are `list.h`'s; paths are normalised in place before they
are compared with the mounts, and what is left of one goes to ext2.

What is hard here: the places where a task sleeps in the middle of an operation
on shared state (mount, read-modify-write of a block, a request queued behind
another); interrupts that come before the code is ready for them (boot runs with
the interrupts enabled while devices are probed); edges that are raised only on a
change; a handler that gives the CPU away before it returns; list nodes that a task
shares between all lists; a flash block that is erased before it is written; buffers
that are read and written at once; 16 bit arithmetic; and the limits of queues, FIFOs,
tables and heap. `PROJECT.json` lists these hazards at their
lines with the properties that watch them.

What makes each part correct: a task is on the one list its state calls for and
something can always run (scheduler); driver and card agree on the transfer at
hand and every request ends (driver); bytes come out in order (ring buffer,
console); blocks tile the heap (allocator); only the bytes a call owns change
(block layer); reference counts are exact and nothing in use is freed (file
system layer); a path names what its fields say, whatever it looked like (paths); a
lookup finds the inode and a read gives the bytes that the disk's maker meant (ext2);
a write puts one block at risk at a time (flash); lists are sequences that share
nothing (lists); an interrupt runs its own handler and leaves nothing in service
(interrupts); output stays in its buffers and is what ISO C says (printf).

## What a step is

System calls and interrupt handlers run with the interrupts disabled, so each is
one step, cut where the task sleeps. Exceptions: the clock handler is one step per
task it wakes (nothing else is enabled meanwhile), the UART handler is one step
per register access because the goroutines of the board run in parallel, and the
card's driver has extra steps when called from the boot code, while devices are
probed (`probing`). In `Interrupts` a handler is cut at its acknowledgement and at the
task switch, in `Cfi` a step is one access to the chip (power may go between any two),
in `Path` a step is one turn of the state machine, in `Printf` one directive.

## Modules

* **TaskList** - the intrusive lists as sequences; `task_put` inserts by priority.
  **Scheduler** - one action per system call (`Exit`, `Wait`, `Nanosleep`), one per
  place where a task resumes in one (`WaitResume`, `NanosleepReturn`), boot
  (`KthreadStart`, `Sti`) and the clock (`ClkHandler`, `ClkWakeup`, `ClkReturn`).
  `Schedule(rq, st)` is `schedule()`. A task is its pid; threads are created at
  boot only. Time is abstracted to `left`, the ticks to a deadline, so that the
  clock does not count up for ever. `frees` records the `free()` calls of
  `scheduler_wait()`, up to two; `heir` records the waiter that a death woke.
* **CompactFlash** - `Call` is `cf20_read_block` / `cf20_write_block` up to the
  sleep, `HandlerSpurious`, `HandlerSector` and `HandlerSend` are the three ways
  through `cf20_handler`, `Return` is the end of the call. Until `ProbesDone` only the
  boot code (`Main`) calls the driver, with the interrupts enabled: then `SetWaiting`, `Enqueue` and `Preempt` are the moments at which an
  interrupt may come inside `scheduler_sleep_on`. The card is external. `moved`
  records which blocks went to a task's buffer.
* **RingBuffer** implements **BoundedFifo** (refinement mapping `Items`); **FifoOps**
  holds the queue operators that `BoundedFifo` and `Uart` share, so `Uart` rests on
  what the refinement shows.
* **Uart** - console calls, the handler (`Handler...`), the registers (`IIR`,
  `ReadLSR`, `WriteTxBuf`) and the goroutines (`Loop...`, `IrqManager`). Bytes are
  numbers in the order in which they are sent or typed.
* **Malloc** - `Calloc` (malloc is the case of one member) and `Free` on addresses
  modulo `Range16`. The variable `shared`, chosen in `Init`, tells the kernel image, where `malloc.c` and
  `heap.c` end up with one variable `heap`, from a program without `heap.c`. `hung`
  records a call that never returns.
* **BlockDevice** - a call is cut at each transfer (`FetchPartial`,
  `StorePartial`, `MoveBlock`), any of which may fail (`TransferFails`). Bytes carry
  their origin. `Entries` is the partition table, `Uses` the device of each task.
* **Vfs** - mounts as a list with paths and counts; a call that sleeps in a file
  system is two steps (`MountCall`/`MountDone`, `Open`/`OpenDone`, `Read`/`ReadDone`).
  `unmounts` and `leaked` record what the counts should be, `seen` and `raced` which mounts
  were listed while a call that mounts was under way.

* **LinkedList** - `next` and `prev` of every node; one action per operation of
  `list.h` (`Operation`) and a loop over a list, turn by turn, whose body may move its
  entry to another list as `clk_wakeup()` does. It implements **ListOfSequences**
  (mapping `Seqs`), which justifies the sequences of `TaskList`, `CompactFlash` and `Vfs`.
* **Path** - one action per state of `fs_normalize_path()`, on the buffer itself;
  `WalkBack` is the inner loop of `..`. `Normal` is the reference definition.
* **Ext2** - a call is one step, as nothing on the disk changes. A disk is an image with
  what its maker meant by it (`tree`, `content`, `chain`), which only properties read.
  A call meets an environment: blocks that fail, no memory, contents of memory that was
  never written. Directory walk and block tables are recursive operators, so
  no theorem is stated about this module.
* **Cfi** - a call is the list of bus accesses it makes; the chip (external) decodes
  whatever it is sent and finishes its work in its own time. `PowerLoss` restarts both and
  leaves anything in the cells that were being changed.
* **Printf** - characters are atoms, types have ranges; the conversion buffer is filled
  from its start, in reverse, as in the code.
* **Interrupts** - boot as the order of hooking and unmasking, the master controller
  (external) with requests, mask and lines in service, a handler frame on each task's
  stack. `ClkSchedule` is `schedule()` inside `clk_handler()`.

`MC*` modules define constants. `MCLibrary`, `MCBlockDevice` and `MCVfs` also put several
modules that do not interact side by side: the variable `part`, fixed in the initial
state, says which one moves. Definitions called "Mutant of ..." are variants with a
plausible bug; they are used by nothing and show that a property notices that bug.

## Runs

| run | checks | bounds |
|---|---|---|
| `scheduler` | type, `QueuesMatchStates`, `ReadyOrdered`, `AlwaysRunnable`, `DeadlineRespected`, `NoMissedDeath`, `ReadyIsFifo`, `SleeperWakes`, `TopPriorityRuns` | main, idle, two threads, two priorities, sleeps of two ticks; every task may wait, for any pid from -2 on |
| `scheduler_double_free` | refutes `FreedOnce` | same |
| `cf_requests` | `CardFollowsHead` (with type), `WholeTransfer`, `SpuriousOnly`, `ReturnsBytes`, `StartedFinish` | two tasks, counts 0 to 5 around a limit of 4, which reads 0 in the sector count register, an `int` of 3 bits that 4 bytes do not fit, boot and system calls |
| `cf_queue` | refutes `RequestsFinish` | two tasks, one block each |
| `uart` | `OutputConserved` (with type), `InputInOrder`, `TxArmed`, `HandlerReturns` | ring of 2, FIFOs of 2, 3 bytes sent, 3 typed |
| `uart_lost_edge` | refutes `OutputSent` | 2 bytes sent |
| `library` | `HeapSound` (type, `BlocksTile`, `OwnHeapBelowLimit`), `FullyMerged` | pages of 8 units, blocks of 2, 4 and 8, two pages and a bit, addresses below 64, which the second page of the kernel leaves |
| | `IsBoundedFifo` (with type) | ring of 4 slots, arrays up to 5 bytes |
| | `LinksMirror`, `LoopVisitsAll`, `ListsAreSequences` (refinement, `OperationsInPlace`, `QueriesAgree`) | two lists, three entries |
| | `WithinBuffers` (`StoresPrefix`, `NumberFits`), `IntegersConform` | types of 2, 3, 4 and 6 bits, conversion buffer of 7, widths and precisions up to 9, output buffers of 0, 1, 4 and 6 |
| | `ServedByOwn` (with type), `InServiceExact` | two tasks, clock, UART and card on the lines of the virtual board |
| `malloc_limit` | refutes `BelowLimit` | the allocator of `library`, further from the end of the addresses |
| `blkdev` | `Completed` (with type), `OnlyOwnBytes` | 4 blocks of 3 bytes, two tasks on partitions of their own, a partition that leaves the disk and one whose end wraps; a call each |
| | `OneBlockAtRisk`, `ReadsContents` (with type and `NeverWhileBusy`) | flash of 3 blocks of 2 bytes in two segments, calls of 1 to 3 blocks, two chips, one loss of power |
| `blkdev_shared` | refutes `OnlyOwnBytes` | two tasks on one disk of 2 blocks |
| `vfs` | `RefExact` (with type), `MountOutlivesUse`, `LaterMountsRaced` | two tasks that both mount, two mounts, `/a` and `/a/b`, two descriptors; a mount is unmounted once |
| | `InPlace`, `PathMeaning` (`NormalForm`, `MatchIsPrefix`) | every path of up to 7 slashes, dots and letters, buffer of 7 |
| | `LookupRight` (with type), `ReadRight` | blocks of 2 units, 2 direct pointers, tables of 2: a file of 16 blocks with holes at every level, a directory behind a table, links to links; one block fails or no memory |
| `ext2_missing_name` | refutes `EachComponentFound` | same disk, nothing fails |

Why the bounds are enough: two tasks of each of two priorities exercise every
place of an ordered insertion (front, middle, behind equals, end) and both ways
into and out of each list. Rings and FIFOs of 2 to 4 are filled, emptied, wrapped
and overrun several times. The heap has three block sizes, so a merge can go
through two levels and a third page must be refused. Sectors, counts and `int` are
scaled down together, so that the count which is 0 in its register and the one whose
bytes do not fit are among those of the run. Blocks of three bytes give
every alignment, and two of them a first, a middle or a last part to a call. A file of 16
blocks has its last block behind three tables and reads start and end on both sides of
every boundary between levels. Seven characters hold two fields and a `..` after each,
more `..` than fields, and a path that the buffer cuts. Three entries on two lists are
enough for a first, a middle and a last one, and for a loop that empties a list.
Numbers go over all values of the smallest type and the limits of the largest.

Deadlock is not checked where the system may stop: bounded numbers of calls
(`blkdev*`), a hung `malloc()` (`library`, `malloc_limit`), all tasks gone (`vfs`), an interrupt
lost for good (`cf_*`), one call per behaviour (`printf`, a path).

### Fairness

* `scheduler`: the interrupt controller keeps the timer's request until it is
  taken and every task runs with the interrupts enabled again and again: strong
  fairness of `ClkHandler`. The kernel's own steps are weakly fair. Nothing is
  assumed of what tasks call.
* `cf_requests`, `cf_queue`: the card answers, a pending interrupt is taken and a
  woken task runs.
* `uart`, `uart_lost_edge`: processor and goroutines run on; Go's `select` picks at random among
  the arms that are ready (strong fairness of `LoopTx` and `LoopTick`). Nothing is
  assumed of what is sent or typed.

## Disagreements with the code's own comments

Six have a run in which TLC refutes the comment; `PROJECT.json` quotes the line.

1. `scheduler_double_free`: `scheduler_wait()` never unlinks the zombie it frees, and a
   later wait frees it again.
2. `cf_queue`: `cf20_handler()` never moves a queued request from `*_CMD` to `*_SECTOR`.
3. `uart_lost_edge`: the board's `irqManager()` loses a TX edge that comes back between
   two samples.
4. `malloc_limit`: `malloc.c` and `heap.c` share the variable `heap`, so blocks lie
   beyond the break.
5. `blkdev_shared`: of two partial writes of one block, one is lost.
6. `ext2_missing_name`: `ext2_walk()` does not notice that a name was not found, and
   opens the inode found before it, or whatever number was in memory.

Others are behaviours of the models that the passing runs leave out by a constant or
name in a property; changing that constant or property shows them.

* `scheduler_exit()` wakes one waiter, not "any process waiting" (scheduler.c:151): of two
  that wait for the same death the other sleeps on. `NoMissedDeath` says what is left: a
  waiter that sleeps on a death was passed over for another one (`heir`), never forgotten.
* The interrupt of a transfer made while probing may be dropped as spurious (cf20.c:55):
  `SpuriousOnly` and `RequestsFinish` are about the time after `ProbesDone`.
* A transfer of 64 blocks or more overflows the returned `int` (cf20.c:127), against
  "Returns the number of bytes read or a negative value on error" (blkdev.h:54): 64 to 127
  blocks, and 192 to 255, return a negative value, 128 and 256 return 0, and those between
  return 64K too little. `ReturnsBytes` says exactly this, and has such counts in its run. `blk_default_read()` takes the negative value
  for a failure of the transfer.
* An overrun with empty FIFOs keeps `uart_handler()` looping, as the board's line status
  register does not clear it (p16550.go:139): `HandlerReturns` exempts `rxOverrun`.
* `malloc()` and `calloc()` of huge sizes wrap or never return (malloc.c:58, 111, 145): the
  block is then smaller than what was asked for, or `hung` becomes true. No property says
  that a block is large enough.
* The kernel's pages leave the 64K (malloc.c:128). With its RAM from 0x400 to 0x83F0 and the
  stack from 0xF000 on, as on the virtual board and on rev2, the fourth page or so straddles
  the end and those behind it lie over the vectors and the variables of the kernel, and
  `free()` takes the wrong one of two buddies on either side of address 0 for the lower.
  `HeapSound` says that the blocks tile the heap as long as it is `Unwrapped`; this comes
  from the shared variable of finding 4.
* Two mounts of one path that sleep in the file system at the same time both pass the check
  (fs.c:156). `LaterMountsRaced` says that there is no other way.
* A second unmount takes the reference of an open file (fs.c:238): `MountOutlivesUse`
  fails with `MaxUnmounts = 2`.
* The descriptor table is cleared in part only (task.c:28): `Garbage` in `fds`.
* `printf`: with `#` a number as long as its width loses digits (printf.c:228); precision
  is ignored with `-`; a negative `*` precision is 0; the sign of a number that fills the
  conversion buffer is dropped. `Supported` names what `IntegersConform` is about.
* ext2 ignores blocks that cannot be read in the middle of a file (io.c:204) and returns
  what the buffer held: `ReadRight` exempts the bytes of such blocks (`Spoilt`).
* `..` above the root takes the leading slash of the path with it (fs.c:585): `Normal`
  says so, and a path is then relative to nothing.
* A partition entry whose end wraps (subdev.c:53) becomes a device; calls on it move
  nothing or fail, and `OnlyOwnBytes` holds.
* `irq_enable()` and `irq_disable()` of a line of the slave controller change the mask of
  the master (interrupts.c:69, 80); no board has a device there. `p8259a.c:28` says "level
  triggered" but programs edges.

Left without a property, for want of a model of what follows: allocations that are not
checked (cf20.c:111, dir.c:26, fs.c:262, task.c:28), descriptors beyond `MAX_FD` (task.c:44), a probe
of the card that fails after its interrupt was enabled (cf20.c:265), inode tables of 64K or
more (ext2.c:193) and numbers of tables and of blocks of a file beyond 16 bits (io.c:115,
193), both modelled but not reached by the disk of the run, counts beyond a `ssize_t`, which
`ReadRight` exempts (an `int` of `blk_read()` goes negative from 32768 bytes on as well,
blkdev.c:164, 241), `%z` and `%j` (printf.c:696, no caller),
a heap within a page of 64K (brk.c:38). The last mount that matches a path wins, not the
longest (fs.c:98).

## Proofs

A theorem holds for every value of the constants that the assumption of its module
allows; the runs check the same properties on small instances. The bounds of the
runs (`MaxSleep`, `MaxSent`, `MaxLeaks` and the like) are arbitrary naturals in the
proofs; only the count of frees of a task still stops at `MaxFrees`. Each property below
was first checked by TLC on the instance of the run.

| module | theorem | states |
|---|---|---|
| `SchedulerProofs` | `TypeCorrect`, `QueuesConsistent`, `ReadyListOrdered`, `SomeTaskRuns`, `DeadlinesRespected` | `TypeOK`, `QueuesMatchStates`, `ReadyOrdered`, `AlwaysRunnable`, `DeadlineRespected` are invariant |
| | `RoundRobin` | `ReadyIsFifo` of every step |
| | `DeathsNotMissed` | `NoMissedDeath` is invariant |
| `InterruptsProofs` | `InterruptsServedByOwn`, `InterruptsInServiceExact` | `ServedByOwn`, `InServiceExact` |
| `CompactFlashProofs` | `CardFollows`, `TransfersWhole` | `CardFollowsHead`, `WholeTransfer` |
| | `NoInterruptLost` | `SpuriousOnly` of every step |
| | `CallReturnsBytes` | `ReturnsBytes` of every step |
| `VfsProofs` | `CountsExact`, `UsersKeepMount` | `RefExact`, `MountOutlivesUse`, under `UnmountedOnce` |
| | `MountedOverByRaceOnly` | `LaterMountsRaced`, however often mounts are unmounted |
| | `NormalizeInPlace` | `InPlace` of `Path` |
| `ConsoleProofs` | `OutputInOrder`, `InputKeepsOrder`, `TransmissionArmed` | `OutputConserved`, `InputInOrder`, `TxArmed` |
| | `RingIsBoundedFifo` | `RingBuffer` implements `BoundedFifo` |
| `LibraryProofs` | `ListLinks`, `LoopsVisitAll` | `LinksTypeOK`, `LinksMirror`, `OneListEach`; `LoopVisitsAll` |
| | `ListsImplementSequences` | `LinkedList` implements `ListOfSequences`, step by step, and its queries agree |
| | `BuddiesMerged` | `FullyMerged` of `Malloc` |
| | `HeapStaysSound` | `HeapSound` of `Malloc`, under `BreakFits` |
| | `OutputStaysInBuffers` | `WithinBuffers` of `Printf` |
| `StorageProofs` | `CallsComplete` | `Completed` of `BlockDevice`, under `DisjointUse` |
| | `WritesStayInWindow` | `OnlyOwnBytes` of every step, under `DisjointUse` |
| | `WriteRisksOneBlock`, `ReadsGetContents` | `OneBlockAtRisk`, `ReadsContents` of `Cfi` |

**Scheduler.** `TaskListProofs` proves what `task_put`, append, tail and removal do to a
list: its elements, the absence of duplicates, the order. `IInv` conjoins type,
`QueuesMatchStates`, `ReadyOrdered`, `DeadlineRespected` and two facts about the idle
thread, which is ready or running (`IdleReady`) and never inside a call (`IdleInUser`).
They are needed because `schedule()` only switches when `ready` is not empty: that a task
which just went to sleep is really put aside follows from the idle thread being in the
list, which in turn needs the list to hold exactly the ready tasks. `BeforeSchedule`
states what holds when `schedule()` is entered, `ScheduleLists` what it leaves;
`PutAside` establishes the former for exit, wait and sleep, and each action has a lemma.
`AlwaysRunnable` follows from `IInv`. For `ReadyIsFifo`, `KeepsOrder` relates the ready
list before and after an operation; head removal and `task_put` keep the order, and so do
two operations in a row as long as the second does not bring back what the first took
away, which is why `schedule()` may put the preempted task behind: it was not in the list.
For `NoMissedDeath`, any number of tasks may wait. A death wakes the first waiter that
expects it, which `heir` records, and only if there is none does it stay without an heir:
then no task that expects it is on the list, and none joins it later, since
`scheduler_wait()` looks at the dead first (`FindsTheDead`). What a woken waiter was woken
for is still there when it runs, as nothing leaves the list of zombies (`StillFound`).

**Interrupts.** The assumption says that the three drivers are on different lines of the
master whose vectors are in the table and are not those of the system calls, as on the
boards. `IrqInv` says how far the boot is (`SetupInv`: what is left is an end of the list
of steps), that a driver past its hooking step is in the table and a line that is not masked
has its handler (`TableInv`), and that what a handler has still to do is an end of its code,
nothing for a task that does not run (`FrameInv`). The last makes `InServiceExact`
inductive: a task that is switched to resumes a handler which has acknowledged already.

**CompactFlash.** `CfInv` says who is on the list and that only its first entry has had its
command sent (`QueueInv`), that a task between its call and its sleep exists only while the
kernel boots and is then alone (`ProbeInv`), what each request has moved and has left
(`RequestInv`), and that the card's count is the request's and its interrupt comes with a
sector (`CardInv`). `WholeTransfer` follows from `RequestInv` when the count reaches 0.
The result is the count that the call was given, not the one that the register took, times
the size of a sector; that 256, which is 0 in the register, moves 256 blocks is the card's
doing (`CardCount`, external), and `IntHolds` is what an `int` keeps of the bytes.

**Vfs.** `RefInv` says that a mount on the list has exactly the references it owes, at
least one, and one off the list has no user (`CountOK`), and that a task asleep in
`sys_read()` keeps its descriptor open (`ReadOK`), for tables of descriptors and sets of
tasks of any finite size: the lemmas count users as sets, since a step adds or removes one
handle or all those of a table. `UnmountedOnce` (`MaxUnmounts <= 1`) is the hypothesis
under which the counts are right: a second `fs_unmount()`, which nothing in the kernel calls,
takes a reference that is not its own. For `LaterMountsRaced` any number of tasks mount:
what is above the path of a task that sleeps while it mounts came there during its sleep
(`seen`), which becomes the record of its mount (`raced`) when that is listed.

**Console.** `UartInv` adds to the properties that the loops of the handler have room:
`RxEnough`, as many bytes are in the FIFO as `RX_DATA` still has to pull, and `TxRoom`, the
device's FIFO holds no more than `TX_EMPTY` has written. They are why no byte is pulled from
an empty FIFO and none is dropped by a full one. `FifoSize <= QUEUE_SZ` (both 16 in the
code) is part of the assumption. Order is proved with `Below` and `Increasing` of the
queues in a row. `RingIsBoundedFifo` maps the array between the two indexes to a sequence
(`Items`); one byte queued or dequeued is arithmetic modulo `Size`. An array of bytes is a
recursive function, so its effect is proved by induction on the bytes queued. The library's
induction theorems are of no use to these provers; `InductionOnSet` states induction for a
set of numbers, from the well-foundedness of the naturals, and needs no operator parameter.

**LinkedList.** `Represents(S, next, prev)` says that the links are those of a family `S`
of sequences of entries, no entry being at two places: the list itself is before its first
entry and behind its last one, and an entry on no list has no links. An operation of
`list.h` changes such links to those of the sequences with the entry inserted or removed
(`InsertRepresents`, `DeleteRepresents`, `MoveRepresents`), which needs both directions:
`list_delete()` reaches its neighbours through the entry's own links. `list_for_every()` is
a recursive function that follows the links; that it reads the sequence back
(`ForEvery`) is by induction on the entries visited. So `Seqs`, the mapping
of the refinement, is that family, and each action is one of `ListOfSequences`. `LoopInv`
says where `list_for_every_entry_safe()` is: it has seen the first entries the list had,
its saved next entry is the one that follows now, and the entries not yet seen are the rest
of the list, whatever of the seen ones was taken off, moved or kept.

**Malloc.** `MallocInv`: the break, `_lib_brk` and the variable `heap` agree as far as they
are set and the break moved by whole pages (`BreakInv`), a block in use is a page at most
(`SizeInv`), and no block on a free list has its buddy there (`NoFreePair`). The
buddy of a block is the same for every place of `heap` that is whole pages from the base
(`BuddySame`), which is why the kernel image merges right although its `heap` moves. The
powers of two that all this rests on come from the number of subsets of a set
(`PowerDoubles`). For `HeapSound` a block is a pair of an address and an index; `Tile` says
that the free blocks and those in use lie at multiples of their size between the base and
the end of the pages, are apart, and have `heap_size` bytes together. Cutting a block down
to a smaller index and merging one with its buddies replace some blocks by others with
the same bytes (`SplitCover`, `MergeCover`, `Replaced`), a page adds a block behind all
others (`PageAdded`). One hypothesis is about the constants. `BreakFits`: the break never
comes within a page of the end of the address range; where it can (a heap whose break
meets 0xF000), `sbrk()` computes address 0, which `heap_brk()` takes for a question, and
the page it grants is not there; `MCLibrary` has TLC evaluate it for the constants of its
run. Nothing is supposed of where the heap lies: `malloc.c` takes each page of the kernel
`heap_size` behind a break that has moved already, so its pages end twice as far from the
base as the break (`Top`), and the blocks tile them as long as that is in the range of a
pointer (`Unwrapped`, a condition on the state, which once false stays so).

**Printf.** The proof does not look at characters: a text is a sequence of anything, and
what counts is its length. Each part of a conversion (`Digits`, `Filled`, `Hashed`, `Added`)
leaves a buffer that is `Short`, no longer than the conversion buffer, whatever value,
base, flags, width and precision it is given; so does `NumberBuffer`. `PrintfInv` says that
nothing behind the caller's buffer is written (`CellsInv`) and that the buffer holds the
text sent so far or, after the call, its beginning and the NUL (`EndInv`). The assumption
is that the caller's buffer has the size the caller says, which for `sprintf()` and its
largest size is not known: what is shown of it is the conversion buffer only.

**BlockDevice.** `DiskInv` says of each call in progress what it has done (`Progress`): it
has `len` bytes to move from `pos` on, the bytes before `pos` are moved, and a block read to
be patched is still what is on the disk around the patch. The last is what another task
could break, and does when it writes to the same block (`blkdev_shared`): the
hypothesis `DisjointUse` is that devices of different tasks share no block. TLC evaluates it
for the partitions of the run `blkdev` (`PartitionsApart`). The assumption also
says that twice the size of the disk fits in 32 bits, so that sums of an offset and a length
do not wrap.

**Cfi.** `CfiInv` says where a call is in its list of bus accesses: none, in the probe, in
a read with that many bytes got, or in a write, at a job of a block (the erasure, then each
byte). In a write it gives what part of a command the chip has seen, whether it works at the
job or is done with it, what the next toggle will read, and the contents of the flash: data
up to here, erased up to the end of the block, as before everywhere else (`Mixed`). A loss
of power ends the call wherever it is. That a list of accesses is job after job is about
sequences flattened by a fold; it is proved by induction on the rows (`FlattenRows`).

**Path.** `PathInv` strengthens `InPlace` with how far the writer lags behind the reader
(`Lag`) and where the reader may be (`Ahead`) in each state; each state of the machine is one
case.

Only model-checked: liveness (`SleeperWakes`, `TopPriorityRuns`, `StartedFinish`,
`HandlerReturns`), which is out of the prover's reach; `Ext2`, whose recursive operators
the prover does not handle; the text of an integer (`IntegersConform`), since digits got by
repeated division are compared with powers of the base, an induction with nonlinear
arithmetic that none of the provers does; what a normalised path means
(`PathMeaning`), whose reference definition folds over the whole path.

## Not modelled

* Page allocator: nothing calls it and its merge loop is unfinished (page.c:159 TODO), so
  the code does not say what it should keep.
* 8251 driver: its correctness depends on how RxRDY and TxRDY are wired to the
  controller, which the repository does not describe.
* The card's probe, identification and features: polled I/O at boot.
* System call dispatch and context switch: they are the granularity of the steps.
* Timers, delays, tables of devices, drivers, block devices and file systems: filled in or
  looked up at boot. String routines in assembly. The KVM side of the virtual board.
* Allocation failures in the file system layer (a table of descriptors, task.c:28, a handle,
  fs.c:262) and in the card's driver, and descriptor
  numbers out of range: the code does not check for either and what follows is undefined.
* Exit statuses and the clock's value. Floating point output, disabled in this build.

## Plan

`PROJECT.json` maps each definition to its lines and lists the hazards that a later
step should cover.

1. Done: scheduler and clock; driver and card; ring buffer; UART; allocator; block
   layer; file system layer with paths and ext2; flash; lists; interrupts; printf; the
   proofs listed above.
2. Not proved and worth it: the text of an integer (`IntegersConform`), with a prover that
   does nonlinear arithmetic; the heap of the kernel up to its limit, once `malloc.c` and
   `heap.c` have a variable each and its pages cannot wrap.
3. Worth modelling when the code settles: the page allocator, the 8251 boards, a
   composition of `Scheduler` and `CompactFlash` in which sleep and wake-up are those of
   the scheduler.
