---------------------------- MODULE CompactFlash -----------------------------
(***************************************************************************)
(* The CompactFlash driver: kernel/drivers/block/cf20/cf20.c and the       *)
(* sector commands of cf20_cmds.c, with the card it drives.                *)
(*                                                                         *)
(* A task that reads or writes blocks puts a request on the list and       *)
(* sleeps; the interrupt handler moves one sector per interrupt and wakes  *)
(* the task.  Which woken task runs next is the scheduler's business       *)
(* (module Scheduler): here a woken task resumes at some later step.       *)
(*                                                                         *)
(* A system call runs with the interrupts disabled until it sleeps.  While *)
(* the kernel boots, its main task probes the devices, which reads blocks, *)
(* with the interrupts enabled: sti() comes before driver_probes() in      *)
(* kernel.c.                                                               *)
(*                                                                         *)
(* The card is external: after a command it asks for each sector in turn   *)
(* with an interrupt, as cf20_defs.h expects.                              *)
(***************************************************************************)
EXTENDS Integers, Sequences, SequencesExt

CONSTANTS
    Task,        \* tasks that use the card
    Block,       \* first blocks of the requests
    Counts,      \* block counts of the requests
    MaxCount,    \* blocks one command moves at most (256)
    SectorSize,  \* CF20_SECTOR_SIZE
    IntRange,    \* number of values of an int (2^16)
    Main         \* the task that boots the kernel

ASSUME CompactFlashAssumption ==
    /\ Block \subseteq Nat /\ Counts \subseteq Nat
    /\ MaxCount \in Nat \ {0} /\ SectorSize \in Nat \ {0}
    /\ IntRange \in Nat \ {0, 1}
    /\ Main \in Task

VARIABLES
    requests,   \* tasks asleep on the requests list, oldest first
    req,        \* struct bio_request of each task, and what it was called with
    pc,         \* where each task is in cf20_read_block / cf20_write_block
    moved,      \* blocks moved to or from the buffer of each task, in order
    result,     \* value the last call of each task returned
    probing,    \* the kernel is booting and probes its devices
    card,       \* the command the card is executing
    intr        \* the card's interrupt is pending

vars == << requests, req, pc, moved, result, probing, card, intr >>

NoCommand == [ op |-> "none", block |-> 0, left |-> 0, drq |-> FALSE ]

BIO_SEND(s) == s \in { "READ_CMD", "WRITE_CMD" }
BIO_RW_SECTOR(s) == s \in { "READ_SECTOR", "WRITE_SECTOR" }
OpOf(s) == IF s \in { "READ_CMD", "READ_SECTOR" } THEN "read" ELSE "write"

\* A 16 bit int.
ToInt(n) == LET m == n % IntRange IN IF m < IntRange \div 2 THEN m ELSE m - IntRange

-----------------------------------------------------------------------------
(* The card.                                                               *)

\* The sector count register holds one byte: "0 is a special value for 256".
CountRegister(count) == IF count < MaxCount THEN count ELSE 0

\* A byte written to the register; zero asks for MaxCount sectors.
CardCount(reg) == IF reg % MaxCount = 0 THEN MaxCount ELSE reg % MaxCount

\* cf20_send_read_sectors() and cf20_send_write_sectors(): the card drops what it
\* was doing and starts the command.
SendSectors(op, block, count) ==
    [ op |-> op, block |-> block, left |-> CardCount(CountRegister(count)),
      drq |-> FALSE ]

\* The card has a sector ready, or room for one, and raises its interrupt.
CardReady ==
    /\ card.left > 0 /\ ~card.drq
    /\ card' = [card EXCEPT !.drq = TRUE]
    /\ intr' = TRUE
    /\ UNCHANGED << requests, req, pc, moved, result, probing >>

\* The card after the transfer of one sector.
NextSector ==
    IF card.left > 1 THEN [card EXCEPT !.block = @ + 1, !.left = @ - 1, !.drq = FALSE]
                     ELSE NoCommand

-----------------------------------------------------------------------------
(* The calls.                                                              *)

Init ==
    /\ requests = << >>
    /\ req = [t \in Task |-> [ state |-> "DONE", block |-> 0, count |-> 0,
                               first |-> 0, total |-> 0 ]]
    /\ pc = [t \in Task |-> "none"]
    /\ moved = [t \in Task |-> << >>]
    /\ result = [t \in Task |-> 0]
    /\ probing = TRUE
    /\ card = NoCommand
    /\ intr = FALSE

\* The card is free for a new command when no request is pending.
CanStart == requests = << >>

\* Mutant of ValidCount: only zero is refused.
ValidCountUnbounded(n) == n > 0

\* Other counts are refused with ERR_INVAL.
ValidCount(n) == n > 0 /\ n <= MaxCount

\* Mutant of Masked: the system call gate leaves the interrupts enabled.
MaskedNever == FALSE

\* The interrupts are disabled from the call until the task is asleep.
Masked == ~probing

\* driver_probes() returns.
ProbesDone ==
    /\ probing /\ pc[Main] = "none"
    /\ probing' = FALSE
    /\ UNCHANGED << requests, req, pc, moved, result, card, intr >>

\* A call with a valid count.  The command is sent at once when no request is
\* pending.  In a system call the task is then asleep in the same step.
Call(t, op, b, n) ==
    /\ pc[t] = "none"
    /\ probing => t = Main
    /\ ValidCount(n)
    /\ LET started == IF op = "read" THEN "READ_SECTOR" ELSE "WRITE_SECTOR"
           queued == IF op = "read" THEN "READ_CMD" ELSE "WRITE_CMD"
       IN req' = [req EXCEPT ![t] =
                    [ state |-> IF CanStart THEN started ELSE queued,
                      block |-> b, count |-> n, first |-> b, total |-> n ]]
    /\ card' = IF CanStart THEN SendSectors(op, b, n) ELSE card
    /\ moved' = [moved EXCEPT ![t] = << >>]
    /\ IF Masked
       THEN /\ pc' = [pc EXCEPT ![t] = "asleep"]
            /\ requests' = Append(requests, t)
       ELSE /\ pc' = [pc EXCEPT ![t] = "sent"]
            /\ UNCHANGED requests
    /\ UNCHANGED << result, probing, intr >>

\* scheduler_sleep_on(), interrupts enabled: the state of the task is set...
SetWaiting(t) ==
    /\ pc[t] = "sent"
    /\ pc' = [pc EXCEPT ![t] = "waiting"]
    /\ UNCHANGED << requests, req, moved, result, probing, card, intr >>

\* ... then it is put on the list, and schedule() gives the CPU away.
Enqueue(t) ==
    /\ pc[t] = "waiting"
    /\ pc' = [pc EXCEPT ![t] = "asleep"]
    /\ requests' = Append(requests, t)
    /\ UNCHANGED << req, moved, result, probing, card, intr >>

\* The clock preempts a task that is not RUNNING any more: it is on no list.
Preempt(t) ==
    /\ pc[t] = "waiting"
    /\ pc' = [pc EXCEPT ![t] = "orphan"]
    /\ UNCHANGED << requests, req, moved, result, probing, card, intr >>

\* Mutant of Bytes: what is left instead of what was moved.
BytesLeft(r) == ToInt(r.count * SectorSize)

\* The bytes a request has moved, in an int.
Bytes(r) == ToInt((r.total - r.count) * SectorSize)

\* The end of the call, when the scheduler runs the woken task.
Return(t) ==
    /\ pc[t] = "woken"
    /\ pc' = [pc EXCEPT ![t] = "none"]
    /\ result' = [result EXCEPT ![t] = Bytes(req[t])]
    /\ UNCHANGED << requests, req, moved, probing, card, intr >>

-----------------------------------------------------------------------------
(* The interrupt handler.                                                  *)

\* Mutant of Advance: the request ends one sector early.
AdvanceShort(r) ==
    [r EXCEPT !.block = @ + 1, !.count = @ - 1,
              !.state = IF r.count <= 2 THEN "DONE" ELSE @]

\* A request after the transfer of one sector.
Advance(r) ==
    [r EXCEPT !.block = @ + 1, !.count = @ - 1,
              !.state = IF r.count = 1 THEN "DONE" ELSE @]

\* The command of the request at the head of |list|, if it is still to be sent;
\* otherwise |c|, what the card is doing.
SendNext(list, c) ==
    IF list # << >> /\ BIO_SEND(req[Head(list)].state)
    THEN SendSectors(OpOf(req[Head(list)].state), req[Head(list)].block,
                     req[Head(list)].count)
    ELSE c

\* Mutant of Wake: the task is taken off the list and forgotten.
WakeNever(t) == UNCHANGED pc

\* scheduler_wake_up(): the task will run again.
Wake(t) == pc' = [pc EXCEPT ![t] = "woken"]

\* cf20_handler() with no request: the interrupt is taken for a spurious one.
HandlerSpurious ==
    /\ intr /\ requests = << >>
    /\ intr' = FALSE
    /\ UNCHANGED << requests, req, pc, moved, result, probing, card >>

\* cf20_handler() when the command of the head request was already sent.
HandlerSector ==
    /\ intr /\ requests # << >>
    /\ LET t == Head(requests)
           r == Advance(req[t])
       IN /\ BIO_RW_SECTOR(req[t].state)
          /\ intr' = FALSE
          /\ req' = [req EXCEPT ![t] = r]
          /\ moved' = [moved EXCEPT ![t] = Append(@, IF card.drq THEN card.block ELSE -1)]
          /\ IF r.state = "DONE"
             THEN /\ requests' = Tail(requests)
                  /\ Wake(t)
                  /\ card' = SendNext(Tail(requests), NextSector)
             ELSE /\ card' = NextSector
                  /\ UNCHANGED << requests, pc >>
    /\ UNCHANGED << result, probing >>

\* cf20_handler() when the command of the head request was not sent by its task.
HandlerSend ==
    /\ intr /\ requests # << >>
    /\ BIO_SEND(req[Head(requests)].state)
    /\ intr' = FALSE
    /\ card' = SendNext(requests, card)
    /\ UNCHANGED << requests, req, pc, moved, result, probing >>

Handler == HandlerSpurious \/ HandlerSector \/ HandlerSend

Next ==
    \/ CardReady
    \/ ProbesDone
    \/ \E t \in Task, op \in { "read", "write" }, b \in Block, n \in Counts : Call(t, op, b, n)
    \/ \E t \in Task : SetWaiting(t)
    \/ \E t \in Task : Enqueue(t)
    \/ \E t \in Task : Preempt(t)
    \/ \E t \in Task : Return(t)
    \/ Handler

Spec == Init /\ [][Next]_vars

(***************************************************************************)
(* Fairness: the card answers every command, a pending interrupt is taken  *)
(* (no task keeps the interrupts disabled), and a woken task runs again.   *)
(***************************************************************************)
FairSpec ==
    /\ Spec
    /\ WF_vars(CardReady) /\ WF_vars(Handler) /\ WF_vars(ProbesDone)
    /\ \A t \in Task : WF_vars(Return(t))

-----------------------------------------------------------------------------
(* Properties.                                                             *)

\* The shape of the driver's and of the card's state.
TypeOK ==
    /\ requests \in Seq(Task)
    /\ req \in [Task -> [ state : { "READ_CMD", "READ_SECTOR", "WRITE_CMD",
                                    "WRITE_SECTOR", "DONE" },
                          block : Nat, count : 0..MaxCount,
                          first : Nat, total : 0..MaxCount ]]
    /\ pc \in [Task -> { "none", "sent", "waiting", "asleep", "orphan", "woken" }]
    /\ moved \in [Task -> Seq(Nat)]
    /\ result \in [Task -> Int]
    /\ probing \in BOOLEAN
    /\ card \in [ op : { "none", "read", "write" }, block : Nat, left : 0..MaxCount,
                  drq : BOOLEAN ]
    /\ intr \in BOOLEAN

\* Driver and card agree on the transfer in progress: while the head request is
\* moving sectors, the card executes its command and has the same sectors left;
\* only the head of the list may be moving sectors (cf20.c:63).
CardFollowsHead ==
    TypeOK /\ \A i \in 1..Len(requests) :
        BIO_RW_SECTOR(req[requests[i]].state) =>
            /\ i = 1
            /\ card.op = OpOf(req[requests[1]].state)
            /\ card.block = req[requests[1]].block
            /\ card.left = req[requests[1]].count

\* A woken task has had exactly the blocks it asked for moved, in order.
WholeTransfer ==
    \A t \in Task : pc[t] = "woken" =>
        moved[t] = [ i \in 1..req[t].total |-> req[t].first + i - 1 ]

\* "No requests to handle, this is a spurious interruption" (cf20.c:55): once the
\* kernel has booted, an interrupt is dropped only when no task is waiting for it.
SpuriousOnly ==
    [][ ~probing /\ intr /\ ~intr' /\ requests = << >>
          => \A t \in Task : pc[t] \in { "none", "woken" } ]_vars

\* "I/O request is finished, unblock the task waiting for it and prepare the next
\* one" (cf20.c:79): once the kernel has booted, every request is finished.
RequestsFinish == \A t \in Task : ~probing /\ pc[t] = "asleep" ~> pc[t] = "woken"

\* A request whose task sent the command is finished, whatever is queued behind it
\* meanwhile.
StartedFinish ==
    \A t \in Task : ~probing /\ pc[t] = "asleep" /\ BIO_RW_SECTOR(req[t].state)
                       ~> pc[t] = "woken"

\* "Returns the number of bytes read or a negative value on error"
\* (blkdev.h:54), as far as an int can tell: a call returns the bytes of the
\* blocks that the card moved for it, all 256 of them when the sector count
\* register reads zero, and cut to an int when they do not fit (64 blocks and more:
\* cf20.c:127).
ReturnsBytes ==
    [][ \A t \in Task : pc[t] = "woken" /\ pc'[t] = "none" =>
          LET bytes == Len(moved[t]) * SectorSize
          IN result'[t] = IF bytes < IntRange \div 2 THEN bytes ELSE ToInt(bytes) ]_vars
=============================================================================
