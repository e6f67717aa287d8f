------------------------------ MODULE Interrupts ------------------------------
(***************************************************************************)
(* The interrupt controllers and the table of handlers:                    *)
(* kernel/boards/interrupts.c with kernel/boards/drivers/p8259a.c, the     *)
(* order in which the drivers hook and unmask their interrupts, and the    *)
(* way the handlers acknowledge them while the clock switches tasks.       *)
(*                                                                         *)
(* A handler runs with the interrupts disabled until it returns, but the   *)
(* clock's may switch to a task that was interrupted, or called            *)
(* schedule(), earlier: the end of one handler is run in another's place.  *)
(* The controllers (external) keep requests while they are masked; a       *)
(* device may make one before its driver is ready (the timer runs since    *)
(* the delays were calibrated, the card answers the commands of its        *)
(* probe).  No board has a device on the slave, whose inputs stay masked.  *)
(***************************************************************************)
EXTENDS Integers, Sequences, FiniteSetsExt

CONSTANTS
    IrqTask, BootTask,   \* tasks, and the one that boots
    Irq,                 \* line of each driver: clk, uart, cf20
    idt_offset,          \* vector of the first line of the master
    IDT_ENTRIES,
    Syscalls             \* vectors of the system calls and their handlers

Driver == DOMAIN Irq
Pic == { "master", "slave" }
irq_base == [ p \in Pic |-> IF p = "master" THEN 0 ELSE 8 ]
irq_max == [ p \in Pic |-> IF p = "master" THEN 8 ELSE 16 ]
Lines == 0..7

\* The boards give each driver a line of its own on the master, and the master vectors
\* that fit in the table and belong to no system call.
ASSUME InterruptsAssumption ==
    /\ BootTask \in IrqTask
    /\ Driver = { "uart", "clk", "cf20" }
    /\ \A d \in Driver : Irq[d] \in Lines
    /\ \A d, e \in Driver : Irq[d] = Irq[e] => d = e
    /\ idt_offset \in Nat /\ IDT_ENTRIES \in Nat /\ idt_offset + 7 < IDT_ENTRIES
    /\ \A d \in Driver : idt_offset + Irq[d] \notin DOMAIN Syscalls

VARIABLES
    setup,       \* what the boot has still to do
    idt,         \* the handlers that are hooked, by vector
    imr,         \* lines that each controller masks
    irr, isr,    \* lines of the master that are requested, and in service
    running,     \* the task that has the CPU
    frame        \* the handler that runs, or was left, on the stack of each task

irqvars == << setup, idt, imr, irr, isr, running, frame >>

NoHandler == [ by |-> "none", line |-> -1, todo |-> << >> ]
Nowhere == "nowhere"       \* what an empty entry of the table leads to

-----------------------------------------------------------------------------
(* interrupts.c and p8259a.c.                                              *)

interrupts_from_irq(irq) ==
    CASE irq >= irq_base["master"] /\ irq < irq_max["master"] -> idt_offset + irq
      [] irq >= irq_base["slave"] /\ irq < irq_max["slave"] ->
            idt_offset + 8 + (irq - irq_base["slave"])
      [] OTHER -> -1

interrupts_handle(index, handler) ==
    IF index < 0 \/ index >= IDT_ENTRIES THEN idt
    ELSE [ v \in DOMAIN idt \cup { index } |-> IF v = index THEN handler ELSE idt[v] ]

\* p8259a_initialize() masks every line of a controller, p8259a_irq_enable() clears one
\* bit of its mask.
p8259a_initialize == Lines
p8259a_irq_enable(p, n) == [imr EXCEPT ![p] = @ \ { n }]

\* irq_enable(): the lines masked afterwards.  A line of the slave is cleared in the
\* mask of the master.
irq_enable(irq) ==
    CASE irq < 0 -> imr
      [] irq >= 0 /\ irq < irq_max["master"] -> p8259a_irq_enable("master", irq)
      [] irq >= irq_max["master"] /\ irq < irq_max["slave"] ->
            p8259a_irq_enable("master", irq - irq_base["slave"])
      [] OTHER -> imr

\* p8259a_irq_ack() of the master: the line of the highest priority leaves service.
irq_ack == IF isr = {} THEN isr ELSE isr \ { Min(isr) }

\* Mutant of SetupSteps: the line is unmasked before there is a handler.
SetupStepsSwapped(d) == << << d, "enable" >>, << d, "handle" >> >>

\* What a driver does to get its interrupts.
SetupSteps(d) == << << d, "handle" >>, << d, "enable" >> >>

\* interrupts_initialize() has masked every line and syscall_setup() hooked the
\* system calls; the console, the clock and the card come next, with the
\* interrupts enabled.
IrqInit ==
    /\ setup = SetupSteps("uart") \o SetupSteps("clk") \o SetupSteps("cf20")
    /\ idt = Syscalls
    /\ imr = [ p \in Pic |-> p8259a_initialize ]
    /\ irr = {} /\ isr = {}
    /\ running = BootTask
    /\ frame = [ t \in IrqTask |-> NoHandler ]

\* One step of the boot.
Boot ==
    /\ setup # << >> /\ running = BootTask /\ frame[running] = NoHandler
    /\ LET d == setup[1][1]
       IN  IF setup[1][2] = "handle"
           THEN /\ idt' = interrupts_handle(interrupts_from_irq(Irq[d]), d)
                /\ UNCHANGED imr
           ELSE imr' = irq_enable(Irq[d]) /\ UNCHANGED idt
    /\ setup' = Tail(setup)
    /\ UNCHANGED << irr, isr, running, frame >>

-----------------------------------------------------------------------------
(* Interrupts.                                                             *)

Raise(d) ==
    /\ irr' = irr \cup { Irq[d] }
    /\ UNCHANGED << setup, idt, imr, isr, running, frame >>

\* Mutant of HandlerSteps: every handler acknowledges at its end.
HandlerStepsAckLast(d) == << "body", "ack" >>

\* The steps of clk_handler(), uart_handler() and cf20_handler().
HandlerSteps(d) == IF d = "uart" THEN << "body", "ack" >> ELSE << "ack", "body" >>

\* The CPU takes the first line that is requested and not masked, unless that line or
\* one before it is in service.
Deliver ==
    /\ frame[running] = NoHandler
    /\ irr \ imr["master"] # {}
    /\ LET n == Min(irr \ imr["master"])
           v == idt_offset + n
           by == IF v \in DOMAIN idt THEN idt[v] ELSE Nowhere
       IN  /\ \A m \in isr : m > n
           /\ irr' = irr \ { n }
           /\ isr' = isr \cup { n }
           /\ frame' = [frame EXCEPT ![running] =
                           [ by |-> by, line |-> n,
                             todo |-> IF by \in Driver THEN HandlerSteps(by) ELSE << "body" >> ]]
    /\ UNCHANGED << setup, idt, imr, running >>

\* Goes on with the handler.
Step == frame' = [frame EXCEPT ![running].todo = Tail(@)]

HandlerAck ==
    /\ frame[running].todo # << >> /\ frame[running].todo[1] = "ack"
    /\ isr' = irq_ack
    /\ Step
    /\ UNCHANGED << setup, idt, imr, irr, running >>

HandlerBody ==
    /\ frame[running].todo # << >> /\ frame[running].todo[1] = "body"
    /\ frame[running].by \in Driver
    /\ Step
    /\ UNCHANGED << setup, idt, imr, irr, isr, running >>

\* schedule() at the end of clk_handler(): another task goes on where it was.
ClkSchedule(t) ==
    /\ frame[running].by = "clk"
    /\ frame[running].todo # << >> /\ frame[running].todo[1] = "body"
    /\ t # running
    /\ running' = t
    /\ Step
    /\ UNCHANGED << setup, idt, imr, irr, isr >>

\* A task sleeps in a system call.
Sleep(t) ==
    /\ frame[running] = NoHandler /\ t # running
    /\ running' = t
    /\ UNCHANGED << setup, idt, imr, irr, isr, frame >>

\* iret
HandlerReturn ==
    /\ frame[running] # NoHandler /\ frame[running].todo = << >>
    /\ frame' = [frame EXCEPT ![running] = NoHandler]
    /\ UNCHANGED << setup, idt, imr, irr, isr, running >>

IrqNext ==
    \/ Boot
    \/ \E d \in Driver : Raise(d)
    \/ Deliver \/ HandlerAck \/ HandlerBody \/ HandlerReturn
    \/ \E t \in IrqTask : ClkSchedule(t) \/ Sleep(t)

IrqSpec == IrqInit /\ [][IrqNext]_irqvars

-----------------------------------------------------------------------------
(* Properties.                                                             *)

\* The shape of the state; only the vectors of the controllers and of the system
\* calls are hooked.
IrqTypeOK ==
    /\ irr \subseteq Lines /\ isr \subseteq Lines
    /\ imr \in [ Pic -> SUBSET Lines ]
    /\ \A v \in DOMAIN idt : v \in DOMAIN Syscalls \/ v \in idt_offset..(idt_offset + 15)
    /\ running \in IrqTask /\ DOMAIN frame = IrqTask

\* An interrupt is in service only while its own handler runs and has not
\* acknowledged it: clk_handler() acknowledges before it gives the CPU away, so no
\* task ever runs with a line held by a handler that was left on another stack, which
\* would keep that line, the clock's first of all, and all lines after it from ever
\* interrupting.
InServiceExact ==
    isr = IF \E k \in 1..Len(frame[running].todo) : frame[running].todo[k] = "ack"
          THEN { frame[running].line } ELSE {}

\* Whatever is requested before and while the drivers are set up, an interrupt runs
\* the handler of the driver whose line it is: none goes through an empty entry of
\* the table or one of the system calls, whose entries stay as they were.
ServedByOwn ==
    /\ IrqTypeOK
    /\ \A t \in IrqTask : frame[t] # NoHandler =>
          frame[t].by \in Driver /\ Irq[frame[t].by] = frame[t].line
    /\ \A v \in DOMAIN Syscalls : idt[v] = Syscalls[v]
=============================================================================
