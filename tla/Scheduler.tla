------------------------------ MODULE Scheduler ------------------------------
(***************************************************************************)
(* The process scheduler of the kernel: kernel/core/scheduler.c, the       *)
(* kernel threads of kernel/kthread.c and the clock of kernel/clk.c.       *)
(*                                                                         *)
(* A task (struct task) is named by its pid.  Tasks are created only while *)
(* the kernel boots, before the sti() of kernel.c, so a pid is never given *)
(* twice and all the threads are children of the main task.                *)
(*                                                                         *)
(* System calls and interrupt handlers run with the interrupts disabled    *)
(* (int 0x80 and the IRQ entry clear IF): each one is a single step,       *)
(* unless it sleeps.  A task that sleeps inside a system call goes on from *)
(* there, interrupts still disabled, when it is scheduled again: pc says   *)
(* where.  The clock handler is cut in one step per task it wakes up; no   *)
(* other step is enabled until it returns.                                 *)
(***************************************************************************)
EXTENDS TaskList

CONSTANTS
    MaxTasks,      \* bound on the tasks ever created, main and idle included
    Prio,          \* priorities given to kernel threads
    IdlePrio,      \* priority of the idle thread (-32767 in kthread.c)
    MaxSleep       \* bound on the clock ticks a nanosleep may last

ASSUME ConstantsAssumption ==
    /\ MaxTasks \in Nat /\ MaxTasks >= 2
    /\ Prio \subseteq Int /\ IdlePrio \in Int
    /\ MaxSleep \in Nat

Task == 0..(MaxTasks - 1)
Main == 0            \* the task scheduler_initialize() makes of the boot code
Idle == 1            \* the thread kthread_initialize() starts
MaxFrees == 2        \* the count of frees stops here
Nobody == -1         \* in place of a task

\* The only caller of kthread_start() is the main task.
parent(t) == IF t = Main THEN Nobody ELSE Main

VARIABLES
    current,    \* the running task
    next_pid,   \* next pid to give
    ready,      \* ready list, ordered by decreasing priority
    zombies,    \* exited tasks
    waiters,    \* tasks blocked in scheduler_wait()
    blocked,    \* tasks blocked in clk_nanosleep()
    state,      \* enum task_state of each task, "UNUSED" before it exists
    prio,       \* priority of each task
    pc,         \* where a task resumes: "user", or asleep in a system call
    wait_pid,   \* what wait_state points to in scheduler_wait(): the pid
    left,       \* deadline - now_ns in clk_nanosleep(), in ticks, rounded up
    odd,        \* ticks & 1
    irq,        \* TRUE while clk_handler() is walking the blocked list
    booted,     \* kernel() has executed sti()
    frees,      \* how often scheduler_wait() freed each task
    heir        \* history: the waiter that the death of each task woke up

vars == << current, next_pid, ready, zombies, waiters, blocked, state, prio,
           pc, wait_pid, left, odd, irq, booted, frees, heir >>

-----------------------------------------------------------------------------
(* Task helpers.                                                           *)

\* Does the death of |z| end the wait of |w| in scheduler_wait()?
Awaits(w, z) == \/ wait_pid[w] > 0 /\ wait_pid[w] = z
                \/ wait_pid[w] = -1 /\ parent(z) = w

\* task_find() and task_find_child_of(): positions of |list| with pid |p|, or
\* with a child of |t| when |p| is -1.  The code takes the first.
Found(list, t, p) ==
    { i \in 1..Len(list) : IF p = -1 THEN parent(list[i]) = t
                                     ELSE list[i] = p }

\* Mutant of Schedule: the preempted task is not queued again.
ScheduleDropPrev(rq, st) ==
    IF rq = << >>
    THEN UNCHANGED current /\ ready' = rq /\ state' = st
    ELSE /\ current' = Head(rq)
         /\ ready' = Tail(rq)
         /\ state' = [st EXCEPT ![current] = IF @ = "RUNNING" THEN "READY" ELSE @,
                                ![Head(rq)] = "RUNNING"]

\* schedule(), entered with the ready list |rq| and the task states |st|.
Schedule(rq, st) ==
    IF rq = << >>
    THEN UNCHANGED current /\ ready' = rq /\ state' = st
    ELSE LET next == Head(rq)
             prev == current
         IN /\ current' = next
            /\ IF st[prev] = "RUNNING"
               THEN /\ ready' = task_put(Tail(rq), prev, prio)
                    /\ state' = [st EXCEPT ![prev] = "READY", ![next] = "RUNNING"]
               ELSE /\ ready' = Tail(rq)
                    /\ state' = [st EXCEPT ![next] = "RUNNING"]

-----------------------------------------------------------------------------
(* Initial state: kernel.c, after kthread_initialize().                    *)

Init ==
    /\ current = Main
    /\ next_pid = 2
    /\ ready = << Idle >>
    /\ zombies = << >> /\ waiters = << >> /\ blocked = << >>
    /\ state = [t \in Task |-> CASE t = Main -> "RUNNING"
                                 [] t = Idle -> "READY"
                                 [] OTHER -> "UNUSED"]
    /\ prio = [t \in Task |-> IF t = Idle THEN IdlePrio ELSE 0]
    /\ pc = [t \in Task |-> "user"]
    /\ wait_pid = [t \in Task |-> 0]
    /\ left = [t \in Task |-> 0]
    /\ odd = FALSE
    /\ irq = FALSE
    /\ booted = FALSE
    /\ frees = [t \in Task |-> 0]
    /\ heir = [t \in Task |-> Nobody]

\* kthread_start() of one more kernel thread, before the interrupts are enabled.
KthreadStart(p) ==
    /\ ~booted
    /\ next_pid < MaxTasks
    /\ next_pid' = next_pid + 1
    /\ prio' = [prio EXCEPT ![next_pid] = p]
    /\ state' = [state EXCEPT ![next_pid] = "READY"]
    /\ ready' = task_put(ready, next_pid, prio')
    /\ UNCHANGED << current, zombies, waiters, blocked, pc, wait_pid, left,
                    odd, irq, booted, frees, heir >>

\* kernel() enables the interrupts.
Sti ==
    /\ ~booted
    /\ booted' = TRUE
    /\ UNCHANGED << current, next_pid, ready, zombies, waiters, blocked, state,
                    prio, pc, wait_pid, left, odd, irq, frees, heir >>

\* The current task runs its own code, interrupts enabled.
InUser == booted /\ ~irq /\ pc[current] = "user"

\* Mutant of InCall: the idle thread sleeps and exits like any other.
InCallIdleToo == InUser

\* It is about to make a system call; the idle thread makes none.
InCall == InUser /\ current # Idle

-----------------------------------------------------------------------------
(* System calls.                                                           *)

\* Mutant of Wakes: a waiter for one of its children is passed over.
WakesExplicitOnly == { i \in 1..Len(waiters) : wait_pid[waiters[i]] = current }

\* The waiters that the loop of scheduler_exit() is looking for.
Wakes == { i \in 1..Len(waiters) : Awaits(waiters[i], current) }

\* scheduler_exit(): the kernel main task is refused.  The first waiter that
\* expects this death is woken, and only that one.
Exit ==
    /\ InCall /\ current # Main
    /\ zombies' = Append(zombies, current)
    /\ LET W  == Wakes
           st == [state EXCEPT ![current] = "ZOMBIE"]
       IN \/ /\ W = {}
             /\ UNCHANGED << waiters, heir >>
             /\ Schedule(ready, st)
          \/ \E i \in W :
                /\ IsFirst(i, W)
                /\ waiters' = RemoveAt(waiters, i)
                /\ heir' = [heir EXCEPT ![current] = waiters[i]]
                /\ Schedule(task_put(ready, waiters[i], prio),
                            [st EXCEPT ![waiters[i]] = "READY"])
    /\ UNCHANGED << next_pid, prio, pc, wait_pid, left, odd, irq, booted,
                    frees, blocked >>

\* One turn of the loop of scheduler_wait(), then its return.  A found task is
\* freed; it stays on the zombies list.
WaitTurn(p, nohang) ==
    LET F == Found(zombies, current, p)
    IN \/ /\ F = {} /\ nohang
          /\ UNCHANGED << current, ready, state, waiters, pc, wait_pid, frees >>
       \/ /\ F = {} /\ ~nohang
          /\ waiters' = Append(waiters, current)
          /\ pc' = [pc EXCEPT ![current] = "wait"]
          /\ wait_pid' = [wait_pid EXCEPT ![current] = p]
          /\ Schedule(ready, [state EXCEPT ![current] = "WAITING"])
          /\ UNCHANGED frees
       \/ \E i \in F :
          /\ IsFirst(i, F)
          /\ frees' = [frees EXCEPT ![zombies[i]] = IF @ < MaxFrees THEN @ + 1 ELSE @]
          /\ pc' = [pc EXCEPT ![current] = "user"]
          /\ wait_pid' = [wait_pid EXCEPT ![current] = 0]
          /\ UNCHANGED << current, ready, state, waiters >>

\* Mutant of Refused: every pid is accepted.
RefusedNever(p) == FALSE

\* scheduler_wait() answers ERR_NOT_SUPP to process groups.
Refused(p) == p < -1

\* wait4() with a pid, or -1 for any child; every task may call it.
Wait(p, nohang) ==
    /\ InCall /\ ~Refused(p)
    /\ WaitTurn(p, nohang)
    /\ UNCHANGED << next_pid, prio, zombies, blocked, left, odd, irq, booted,
                    heir >>

\* A task woken up in scheduler_wait() looks again.
WaitResume ==
    /\ ~irq /\ pc[current] = "wait"
    /\ WaitTurn(wait_pid[current], FALSE)
    /\ UNCHANGED << next_pid, prio, zombies, blocked, left, odd, irq, booted,
                    heir >>

\* clock_nanosleep() whose deadline is |k| ticks ahead; none if it has passed.
Nanosleep(k) ==
    /\ InCall
    /\ k > 0
    /\ left' = [left EXCEPT ![current] = k]
    /\ blocked' = Append(blocked, current)
    /\ pc' = [pc EXCEPT ![current] = "nanosleep"]
    /\ Schedule(ready, [state EXCEPT ![current] = "WAITING"])
    /\ UNCHANGED << next_pid, prio, zombies, waiters, wait_pid, odd, irq,
                    booted, frees, heir >>

\* A task woken up in clk_nanosleep() returns from it.
NanosleepReturn ==
    /\ ~irq /\ pc[current] = "nanosleep"
    /\ pc' = [pc EXCEPT ![current] = "user"]
    /\ UNCHANGED << current, next_pid, ready, zombies, waiters, blocked, state,
                    prio, wait_pid, left, odd, irq, booted, frees, heir >>

-----------------------------------------------------------------------------
(* The clock interrupt.                                                    *)

\* Mutant of ClkHandler: now_ns does not move.
ClkHandlerTimeStops ==
    /\ InUser
    /\ odd' = ~odd
    /\ irq' = TRUE
    /\ UNCHANGED << current, next_pid, ready, zombies, waiters, blocked, state,
                    prio, pc, wait_pid, left, booted, frees, heir >>

\* clk_handler() counts the tick; time goes by for every pending deadline.
ClkHandler ==
    /\ InUser
    /\ odd' = ~odd
    /\ left' = [t \in Task |-> IF left[t] > 0 THEN left[t] - 1 ELSE 0]
    /\ irq' = TRUE
    /\ UNCHANGED << current, next_pid, ready, zombies, waiters, blocked, state,
                    prio, pc, wait_pid, booted, frees, heir >>

\* Mutant of Expired: one tick early.
ExpiredEarly == { i \in 1..Len(blocked) : left[blocked[i]] <= 1 }

\* Positions of the blocked list whose deadline is reached: deadline <= now_ns.
Expired == { i \in 1..Len(blocked) : left[blocked[i]] = 0 }

\* clk_wakeup() reaches the next task whose deadline has passed.
ClkWakeup ==
    /\ irq
    /\ \E i \in Expired :
          /\ IsFirst(i, Expired)
          /\ blocked' = RemoveAt(blocked, i)
          /\ ready' = task_put(ready, blocked[i], prio)
          /\ state' = [state EXCEPT ![blocked[i]] = "READY"]
    /\ UNCHANGED << current, next_pid, zombies, waiters, prio, pc, wait_pid,
                    left, odd, irq, booted, frees, heir >>

\* Mutant of ClkReturn: the clock never takes the CPU away.
ClkReturnNoSchedule ==
    /\ irq
    /\ Expired = {}
    /\ irq' = FALSE
    /\ UNCHANGED << current, ready, state, next_pid, zombies, waiters, blocked, prio,
                    pc, wait_pid, left, odd, booted, frees, heir >>

\* The walk is over; every second tick ends with schedule().
ClkReturn ==
    /\ irq
    /\ Expired = {}
    /\ irq' = FALSE
    /\ IF odd THEN UNCHANGED << current, ready, state >> ELSE Schedule(ready, state)
    /\ UNCHANGED << next_pid, zombies, waiters, blocked, prio, pc, wait_pid,
                    left, odd, booted, frees, heir >>

Next ==
    \/ \E p \in Prio : KthreadStart(p)
    \/ Sti
    \/ Exit
    \/ \E p \in -2..(MaxTasks - 1), nohang \in BOOLEAN : Wait(p, nohang)
    \/ WaitResume
    \/ \E k \in 1..MaxSleep : Nanosleep(k)
    \/ NanosleepReturn
    \/ ClkHandler
    \/ ClkWakeup
    \/ ClkReturn

Spec == Init /\ [][Next]_vars

(***************************************************************************)
(* Fairness.  The interrupt controller holds a raised timer interrupt      *)
(* until it is taken, and every task is back with interrupts enabled again *)
(* and again: strong fairness of the tick.  The kernel code itself runs on *)
(* (weak fairness); nothing is assumed of what tasks call.                 *)
(***************************************************************************)
FairSpec ==
    /\ Spec
    /\ SF_vars(ClkHandler)
    /\ WF_vars(ClkWakeup) /\ WF_vars(ClkReturn)
    /\ WF_vars(WaitResume) /\ WF_vars(NanosleepReturn)
    /\ WF_vars(Sti)

-----------------------------------------------------------------------------
(* Properties.                                                             *)

TaskState == { "UNUSED", "READY", "RUNNING", "WAITING", "ZOMBIE" }

\* The shape of the scheduler's data (scheduler.c, struct task, clk.c).
TypeOK ==
    /\ current \in Task /\ next_pid \in 2..MaxTasks
    /\ ready \in Seq(Task) /\ zombies \in Seq(Task)
    /\ waiters \in Seq(Task) /\ blocked \in Seq(Task)
    /\ state \in [Task -> TaskState]
    /\ prio \in [Task -> Int]
    /\ pc \in [Task -> { "user", "wait", "nanosleep" }]
    /\ wait_pid \in [Task -> -1..(MaxTasks - 1)]
    /\ left \in [Task -> 0..MaxSleep]
    /\ odd \in BOOLEAN /\ irq \in BOOLEAN /\ booted \in BOOLEAN
    /\ frees \in [Task -> 0..MaxFrees]
    /\ heir \in [Task -> Task \cup { Nobody }]

\* The one list node of a task is on the one list its state calls for, and on
\* it once: across schedule(), exit, wait, sleep and the clock wake-ups no task
\* is lost and none is linked twice.
QueuesMatchStates ==
    /\ \A t \in Task :
          /\ state[t] = "RUNNING" <=> t = current
          /\ state[t] = "READY" <=> Contains(ready, t)
          /\ state[t] = "ZOMBIE" <=> Contains(zombies, t)
          /\ state[t] = "WAITING" /\ pc[t] = "wait" <=> Contains(waiters, t)
          /\ state[t] = "WAITING" /\ pc[t] = "nanosleep" <=> Contains(blocked, t)
          /\ state[t] = "WAITING" => pc[t] # "user"
          /\ state[t] = "UNUSED" <=> t >= next_pid
    /\ NoDuplicate(ready) /\ NoDuplicate(zombies)
    /\ NoDuplicate(waiters) /\ NoDuplicate(blocked)

\* "List or ready processes ordered by decreasing priority" (scheduler.c:22):
\* also the precondition of the assert(0) of task_put() never being reached.
ReadyOrdered == Ordered(ready, prio)

\* schedule() always finds a next task when the current one sleeps or exits:
\* neither sleep nor exit ever returns to a task that is not runnable.
AlwaysRunnable ==
    /\ state[current] = "RUNNING"
    /\ ready = << >> => current = Idle

\* A task leaves clk_nanosleep() only once its deadline has passed, and at the
\* end of each tick none whose deadline has passed is still blocked (clk.c:55,
\* clk.c:120).
DeadlineRespected ==
    /\ \A t \in Task : pc[t] = "nanosleep" /\ ~Contains(blocked, t) => left[t] = 0
    /\ ~irq => Expired = {}

\* A task that sleeps in scheduler_wait() although one it expects is dead was
\* passed over for another waiter, which that death woke up.
SleepersPassedOver ==
    \A i \in 1..Len(waiters), j \in 1..Len(zombies) :
        Awaits(waiters[i], zombies[j])
        => heir[zombies[j]] \in Task \ { waiters[i] }

\* A waiter that was woken up finds a death it expects when it looks again.
WokenFind ==
    \A t \in Task : pc[t] = "wait" /\ ~Contains(waiters, t)
                    => Found(zombies, t, wait_pid[t]) # {}

\* "Wake-up any process waiting for this one to die" (scheduler.c:151), however
\* many tasks wait for the same death or for several: a death somebody sleeps on
\* woke another waiter up, and no waiter that was woken up ever sleeps again in
\* the same call, whatever others reaped before it ran.
NoMissedDeath == SleepersPassedOver /\ WokenFind

\* A task enters the ready list behind all those of its priority and above, and
\* the ones already there keep their order: round robin inside a priority.
ReadyIsFifo ==
    [][ \A i \in 1..Len(ready), k, l \in 1..Len(ready') :
          /\ ready'[l] = ready[i]
          /\ k < l
          => \/ prio'[ready'[k]] > prio'[ready'[l]]
             \/ \E j \in 1..(i - 1) : ready[j] = ready'[k] ]_vars

\* "Task not found, block until (one of) the expected one(s) dies"
\* (scheduler.c:201): a death ends one wait, and scheduler_wait() frees the
\* stack and the struct task of a dead task once.
FreedOnce == \A t \in Task : frees[t] <= 1

\* Every task asleep in clk_nanosleep() is woken up.
SleeperWakes == \A t \in Task : Contains(blocked, t) ~> ~Contains(blocked, t)

\* A ready task that no live task outranks gets the CPU.
TopPriorityRuns ==
    \A t \in Task :
        (/\ state[t] = "READY"
         /\ \A u \in Task : prio[u] > prio[t] => state[u] \in { "UNUSED", "ZOMBIE" })
        ~> (\/ state[t] = "RUNNING"
            \/ \E u \in Task : /\ prio[u] > prio[t]
                               /\ state[u] \notin { "UNUSED", "ZOMBIE" })
=============================================================================
