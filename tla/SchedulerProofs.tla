--------------------------- MODULE SchedulerProofs ---------------------------
(***************************************************************************)
(* Proofs about Scheduler: what schedule() preserves, then one inductive   *)
(* invariant from which the safety properties of the runs follow for any   *)
(* number of tasks and any priorities.                                     *)
(***************************************************************************)
EXTENDS Scheduler, TaskListProofs

\* What holds of the ready list |rq| and of the task states |st| whenever the
\* code calls schedule(): the current task may be running or just put aside.
BeforeSchedule(rq, st) ==
    /\ rq \in Seq(Task) /\ st \in [Task -> TaskState]
    /\ NoDuplicate(rq) /\ Ordered(rq, prio)
    /\ \A t \in Task : st[t] = "READY" <=> Contains(rq, t)
    /\ \A t \in Task : st[t] = "RUNNING" => t = current
    /\ st[current] \in { "RUNNING", "WAITING", "ZOMBIE" }
    /\ st[current] = "RUNNING" \/ rq # << >>

\* schedule() leaves one running task, the current one, and a ready list that
\* holds the ready tasks; it moves no other task.
LEMMA ScheduleLists ==
    ASSUME current \in Task, prio \in [Task -> Int],
           NEW rq, NEW st, BeforeSchedule(rq, st), Schedule(rq, st)
    PROVE  /\ current' \in Task /\ ready' \in Seq(Task)
           /\ state' \in [Task -> TaskState]
           /\ NoDuplicate(ready') /\ Ordered(ready', prio)
           /\ \A t \in Task : state'[t] = "READY" <=> Contains(ready', t)
           /\ \A t \in Task : state'[t] = "RUNNING" <=> t = current'
           /\ \A t \in Task, s \in { "WAITING", "ZOMBIE", "UNUSED" } :
                state'[t] = s <=> st[t] = s
<1>0. /\ rq \in Seq(Task) /\ st \in [Task -> TaskState]
      /\ NoDuplicate(rq) /\ Ordered(rq, prio)
      /\ \A t \in Task : st[t] = "READY" <=> Contains(rq, t)
      /\ \A t \in Task : st[t] = "RUNNING" => t = current
      /\ st[current] \in { "RUNNING", "WAITING", "ZOMBIE" }
      /\ st[current] = "RUNNING" \/ rq # << >>
  BY DEF BeforeSchedule
<1>1. CASE rq = << >>
  <2>1. current' = current /\ ready' = rq /\ state' = st
    BY <1>1 DEF Schedule
  <2>. QED
    BY <1>0, <1>1, <2>1
<1>2. CASE rq # << >>
  <2>. DEFINE next == Head(rq)
  <2>1. /\ next \in Task /\ Contains(rq, next) /\ Tail(rq) \in Seq(Task)
        /\ NoDuplicate(Tail(rq)) /\ Ordered(Tail(rq), prio)
        /\ \A x : Contains(Tail(rq), x) <=> Contains(rq, x) /\ x # next
    BY <1>0, <1>2, TailList
  <2>. HIDE DEF next
  <2>2. next # current /\ st[next] = "READY" /\ current' = next
    BY <1>0, <1>2, <2>1 DEF Schedule, next
  <2>3. CASE st[current] = "RUNNING"
    <3>1. /\ ready' = task_put(Tail(rq), current, prio)
          /\ state' = [st EXCEPT ![current] = "READY", ![next] = "RUNNING"]
      BY <1>2, <2>3 DEF Schedule, next
    <3>2. ~Contains(Tail(rq), current)
      BY <1>0, <2>1, <2>3
    <3>3. /\ ready' \in Seq(Task)
          /\ \A x : Contains(ready', x) <=> x = current \/ Contains(Tail(rq), x)
          /\ NoDuplicate(ready') /\ Ordered(ready', prio)
      BY <2>1, <3>1, <3>2, TaskPutList
    <3>4. \A t \in Task : state'[t] = IF t = next THEN "RUNNING"
                                      ELSE IF t = current THEN "READY" ELSE st[t]
      BY <1>0, <2>1, <3>1
    <3>5. state' \in [Task -> TaskState]
      BY <1>0, <3>1 DEF TaskState
    <3>. QED
      BY <1>0, <2>1, <2>2, <2>3, <3>3, <3>4, <3>5
  <2>4. CASE st[current] # "RUNNING"
    <3>1. ready' = Tail(rq) /\ state' = [st EXCEPT ![next] = "RUNNING"]
      BY <1>2, <2>4 DEF Schedule, next
    <3>2. \A t \in Task : state'[t] = IF t = next THEN "RUNNING" ELSE st[t]
      BY <1>0, <2>1, <3>1
    <3>3. state' \in [Task -> TaskState]
      BY <1>0, <3>1 DEF TaskState
    <3>. QED
      BY <1>0, <2>1, <2>2, <2>4, <3>1, <3>2, <3>3
  <2>. QED
    BY <2>3, <2>4
<1>. QED
  BY <1>1, <1>2

-----------------------------------------------------------------------------
(* The inductive invariant.                                                *)

\* The idle thread never leaves the ready list but to run.
IdleReady == state[Idle] \in { "READY", "RUNNING" }

\* ... and is never inside a system call.
IdleInUser == pc[Idle] = "user"

IInv == /\ TypeOK
        /\ QueuesMatchStates
        /\ ReadyOrdered
        /\ IdleReady
        /\ IdleInUser
        /\ DeadlineRespected

\* The list facts of QueuesMatchStates, from a step that ends in schedule() and
\* changes the lists of sleeping and dead tasks as the states say.
LEMMA AfterSchedule ==
    ASSUME IInv, NEW rq, NEW st, BeforeSchedule(rq, st), Schedule(rq, st),
           prio' = prio, next_pid' = next_pid,
           pc' \in [Task -> { "user", "wait", "nanosleep" }],
           NoDuplicate(zombies'), NoDuplicate(waiters'), NoDuplicate(blocked'),
           st[Idle] \in { "READY", "RUNNING" },
           \A t \in Task :
             /\ st[t] = "ZOMBIE" <=> Contains(zombies', t)
             /\ st[t] = "WAITING" /\ pc'[t] = "wait" <=> Contains(waiters', t)
             /\ st[t] = "WAITING" /\ pc'[t] = "nanosleep" <=> Contains(blocked', t)
             /\ st[t] = "WAITING" => pc'[t] # "user"
             /\ st[t] = "UNUSED" <=> t >= next_pid
    PROVE  /\ current' \in Task /\ ready' \in Seq(Task)
           /\ state' \in [Task -> TaskState]
           /\ QueuesMatchStates' /\ ReadyOrdered' /\ IdleReady'
<1>1. current \in Task /\ prio \in [Task -> Int] /\ Idle \in Task
  BY ConstantsAssumption DEF IInv, TypeOK, Task, Idle
<1>2. /\ current' \in Task /\ ready' \in Seq(Task)
      /\ state' \in [Task -> TaskState]
      /\ NoDuplicate(ready') /\ Ordered(ready', prio)
      /\ \A t \in Task : state'[t] = "READY" <=> Contains(ready', t)
      /\ \A t \in Task : state'[t] = "RUNNING" <=> t = current'
      /\ \A t \in Task, s \in { "WAITING", "ZOMBIE", "UNUSED" } :
           state'[t] = s <=> st[t] = s
  BY <1>1, ScheduleLists
<1>3. ReadyOrdered'
  BY <1>2 DEF ReadyOrdered
<1>4. st \in [Task -> TaskState]
  BY DEF BeforeSchedule
<1>5. IdleReady'
  <2>1. state'[Idle] \in TaskState
    BY <1>1, <1>2
  <2>2. state'[Idle] \notin { "WAITING", "ZOMBIE", "UNUSED" }
    BY <1>1, <1>2
  <2>. QED
    BY <2>1, <2>2 DEF IdleReady, TaskState
<1>6. QueuesMatchStates'
  BY <1>2 DEF QueuesMatchStates
<1>. QED
  BY <1>2, <1>3, <1>5, <1>6

\* The call that puts the current task, not the idle one, aside in state |s|
\* finds a next task to run.
LEMMA PutAside ==
    ASSUME IInv, current # Idle, NEW s \in { "WAITING", "ZOMBIE" }
    PROVE  /\ BeforeSchedule(ready, [state EXCEPT ![current] = s])
           /\ state[Idle] = "READY" /\ state[current] = "RUNNING"
<1>1. /\ current \in Task /\ Idle \in Task
      /\ ready \in Seq(Task) /\ state \in [Task -> TaskState]
  BY ConstantsAssumption DEF IInv, TypeOK, Task, Idle
<1>2. state[Idle] = "READY" /\ state[current] = "RUNNING"
  BY <1>1 DEF IInv, IdleReady, QueuesMatchStates
<1>3. Contains(ready, Idle)
  BY <1>1, <1>2 DEF IInv, QueuesMatchStates
<1>4. ready # << >>
  BY <1>3, EmptySeq DEF Contains
<1>5. [state EXCEPT ![current] = s] \in [Task -> TaskState]
  BY <1>1 DEF TaskState
<1>6. \A t \in Task : [state EXCEPT ![current] = s][t] = IF t = current THEN s ELSE state[t]
  BY <1>1
<1>7. NoDuplicate(ready) /\ Ordered(ready, prio)
  BY DEF IInv, QueuesMatchStates, ReadyOrdered
<1>8. \A t \in Task : /\ state[t] = "READY" <=> Contains(ready, t)
                      /\ state[t] = "RUNNING" <=> t = current
  BY DEF IInv, QueuesMatchStates
<1>. QED
  BY <1>1, <1>2, <1>4, <1>5, <1>6, <1>7, <1>8 DEF BeforeSchedule

\* The state kernel() has built when it has started the idle thread.
LEMMA InitIInv == Init => IInv
<1>. SUFFICES ASSUME Init PROVE IInv
  OBVIOUS
<1>. USE ConstantsAssumption
<1>1. Main \in Task /\ Idle \in Task /\ Main # Idle /\ << Idle >> \in Seq(Task)
  BY DEF Main, Idle, Task
<1>2. TypeOK
  <2>1. /\ current \in Task /\ next_pid \in 2..MaxTasks
        /\ ready \in Seq(Task) /\ zombies \in Seq(Task)
        /\ waiters \in Seq(Task) /\ blocked \in Seq(Task)
    BY <1>1 DEF Init
  <2>2. state \in [Task -> TaskState]
    BY <1>1 DEF Init, TaskState
  <2>3. /\ prio \in [Task -> Int]
        /\ pc \in [Task -> { "user", "wait", "nanosleep" }]
        /\ wait_pid \in [Task -> -1..(MaxTasks - 1)]
        /\ left \in [Task -> 0..MaxSleep]
        /\ frees \in [Task -> 0..MaxFrees]
        /\ heir \in [Task -> Task \cup { Nobody }]
    BY DEF Init, MaxFrees
  <2>. QED
    BY <2>1, <2>2, <2>3 DEF TypeOK, Init
<1>3. /\ \A x : ~Contains(<< >>, x) /\ (Contains(<< Idle >>, x) <=> x = Idle)
      /\ NoDuplicate(<< >>) /\ NoDuplicate(<< Idle >>) /\ Ordered(<< Idle >>, prio)
  BY DEF Contains, NoDuplicate, Ordered
<1>4. \A t \in Task : t >= 2 <=> t # Main /\ t # Idle
  BY DEF Main, Idle, Task
<1>5. QueuesMatchStates
  BY <1>1, <1>3, <1>4 DEF Init, QueuesMatchStates
<1>6. ReadyOrdered /\ IdleReady /\ IdleInUser
  BY <1>1, <1>3 DEF Init, ReadyOrdered, IdleReady, IdleInUser
<1>7. DeadlineRespected
  BY DEF Init, DeadlineRespected, Expired
<1>. QED
  BY <1>2, <1>5, <1>6, <1>7 DEF IInv

\* scheduler_queue_new() of a thread the kernel starts while it boots.
LEMMA KthreadStartIInv ==
    ASSUME IInv, NEW p \in Prio, KthreadStart(p) PROVE IInv'
<1>. DEFINE n == next_pid
<1>1. n \in Task /\ Idle \in Task /\ n # Idle /\ n \in 2..MaxTasks /\ n + 1 \in 2..MaxTasks
  BY ConstantsAssumption DEF IInv, TypeOK, KthreadStart, Task, Idle
<1>2. /\ prio' \in [Task -> Int] /\ state' \in [Task -> TaskState]
      /\ \A t \in Task : prio'[t] = IF t = n THEN p ELSE prio[t]
      /\ \A t \in Task : state'[t] = IF t = n THEN "READY" ELSE state[t]
  BY <1>1, ConstantsAssumption DEF IInv, TypeOK, KthreadStart, TaskState
<1>3. state[n] = "UNUSED" /\ ~Contains(ready, n) /\ current # n
  BY <1>1 DEF IInv, QueuesMatchStates
<1>4. ready \in Seq(Task) /\ NoDuplicate(ready) /\ Ordered(ready, prio')
  <2>1. ready \in Seq(Task) /\ NoDuplicate(ready) /\ Ordered(ready, prio)
    BY DEF IInv, TypeOK, QueuesMatchStates, ReadyOrdered
  <2>2. \A i \in 1..Len(ready) : prio'[ready[i]] = prio[ready[i]]
    BY <1>2, <1>3, <2>1, ElementOfSeq DEF Contains
  <2>. QED
    BY <2>1, <2>2 DEF Ordered
<1>5. /\ ready' \in Seq(Task)
      /\ \A x : Contains(ready', x) <=> x = n \/ Contains(ready, x)
      /\ NoDuplicate(ready') /\ Ordered(ready', prio')
  <2>1. ready' = task_put(ready, n, prio')
    BY DEF KthreadStart
  <2>. QED
    BY <1>1, <1>2, <1>3, <1>4, <2>1, TaskPutList
<1>6. TypeOK'
  BY <1>1, <1>2, <1>5 DEF IInv, TypeOK, KthreadStart
<1>7. \A t \in Task : t >= next_pid' <=> t >= n /\ t # n
  BY <1>1 DEF KthreadStart, Task
<1>8. QueuesMatchStates'
  <2>1. ASSUME NEW t \in Task
        PROVE  /\ state'[t] = "RUNNING" <=> t = current'
               /\ state'[t] = "READY" <=> Contains(ready', t)
               /\ state'[t] = "ZOMBIE" <=> Contains(zombies', t)
               /\ state'[t] = "WAITING" /\ pc'[t] = "wait" <=> Contains(waiters', t)
               /\ state'[t] = "WAITING" /\ pc'[t] = "nanosleep" <=> Contains(blocked', t)
               /\ state'[t] = "WAITING" => pc'[t] # "user"
               /\ state'[t] = "UNUSED" <=> t >= next_pid'
    BY <1>2, <1>3, <1>5, <1>7 DEF IInv, QueuesMatchStates, KthreadStart
  <2>. QED
    BY <1>5, <2>1 DEF IInv, QueuesMatchStates, KthreadStart
<1>9. ReadyOrdered' /\ IdleReady' /\ IdleInUser'
  BY <1>1, <1>2, <1>5 DEF IInv, ReadyOrdered, IdleReady, IdleInUser, KthreadStart
<1>10. DeadlineRespected'
  BY DEF IInv, DeadlineRespected, Expired, KthreadStart
<1>. QED
  BY <1>6, <1>8, <1>9, <1>10 DEF IInv

\* scheduler_exit(), with and without a waiter to wake up.
LEMMA ExitIInv ==
    ASSUME IInv, Exit PROVE IInv'
<1>. DEFINE st == [state EXCEPT ![current] = "ZOMBIE"]
            W == Wakes
<1>1. current # Idle /\ pc[current] = "user"
  BY DEF Exit, InCall, InUser
<1>2. BeforeSchedule(ready, st) /\ state[Idle] = "READY" /\ state[current] = "RUNNING"
  BY <1>1, PutAside
<1>3. /\ current \in Task /\ Idle \in Task /\ zombies \in Seq(Task) /\ waiters \in Seq(Task)
      /\ ready \in Seq(Task) /\ prio \in [Task -> Int] /\ state \in [Task -> TaskState]
      /\ pc' = pc /\ pc \in [Task -> { "user", "wait", "nanosleep" }]
      /\ prio' = prio /\ next_pid' = next_pid
  <2>1. Idle \in Task
    BY ConstantsAssumption DEF Task, Idle
  <2>2. pc' = pc /\ prio' = prio /\ next_pid' = next_pid
    BY DEF Exit
  <2>. QED
    BY <2>1, <2>2 DEF IInv, TypeOK
<1>4. /\ NoDuplicate(ready) /\ NoDuplicate(zombies) /\ NoDuplicate(waiters)
      /\ NoDuplicate(blocked) /\ Ordered(ready, prio) /\ ~Contains(zombies, current)
  BY <1>2, <1>3 DEF IInv, QueuesMatchStates, ReadyOrdered
<1>5. /\ zombies' \in Seq(Task) /\ NoDuplicate(zombies')
      /\ \A x : Contains(zombies', x) <=> x = current \/ Contains(zombies, x)
  BY <1>3, <1>4, AppendList DEF Exit
<1>6. \A t \in Task : st[t] = IF t = current THEN "ZOMBIE" ELSE state[t]
  BY <1>3
<1>7. DeadlineRespected'
  BY DEF IInv, DeadlineRespected, Expired, Exit
<1>8. ASSUME W = {}, waiters' = waiters, Schedule(ready, st)
      PROVE  /\ current' \in Task /\ ready' \in Seq(Task) /\ waiters' \in Seq(Task)
             /\ state' \in [Task -> TaskState]
             /\ QueuesMatchStates' /\ ReadyOrdered' /\ IdleReady'
  <2>1. \A t \in Task :
          /\ st[t] = "ZOMBIE" <=> Contains(zombies', t)
          /\ st[t] = "WAITING" /\ pc'[t] = "wait" <=> Contains(waiters', t)
          /\ st[t] = "WAITING" /\ pc'[t] = "nanosleep" <=> Contains(blocked', t)
          /\ st[t] = "WAITING" => pc'[t] # "user"
          /\ st[t] = "UNUSED" <=> t >= next_pid
    BY <1>2, <1>3, <1>5, <1>6, <1>8 DEF IInv, QueuesMatchStates, Exit
  <2>2. st[Idle] \in { "READY", "RUNNING" }
    BY <1>1, <1>2, <1>3, <1>6
  <2>3. NoDuplicate(waiters') /\ NoDuplicate(blocked')
    BY <1>4, <1>8 DEF Exit
  <2>. HIDE DEF st
  <2>. QED
    BY <1>2, <1>3, <1>5, <1>8, <2>1, <2>2, <2>3, AfterSchedule
<1>9. ASSUME NEW i \in W, waiters' = RemoveAt(waiters, i),
             Schedule(task_put(ready, waiters[i], prio),
                      [st EXCEPT ![waiters[i]] = "READY"])
      PROVE  /\ current' \in Task /\ ready' \in Seq(Task) /\ waiters' \in Seq(Task)
             /\ state' \in [Task -> TaskState]
             /\ QueuesMatchStates' /\ ReadyOrdered' /\ IdleReady'
  <2>. DEFINE w == waiters[i]
              rq == task_put(ready, w, prio)
              su == [st EXCEPT ![w] = "READY"]
  <2>1. i \in 1..Len(waiters) /\ w \in Task /\ Contains(waiters, w)
    BY <1>3, ElementOfSeq DEF Contains, Wakes
  <2>2. state[w] = "WAITING" /\ w # current /\ ~Contains(ready, w)
    BY <1>2, <1>3, <2>1 DEF IInv, QueuesMatchStates
  <2>3. /\ rq \in Seq(Task) /\ NoDuplicate(rq) /\ Ordered(rq, prio)
        /\ \A x : Contains(rq, x) <=> x = w \/ Contains(ready, x)
    BY <1>3, <1>4, <2>1, <2>2, TaskPutList
  <2>4. /\ waiters' \in Seq(Task) /\ NoDuplicate(waiters')
        /\ \A x : Contains(waiters', x) <=> Contains(waiters, x) /\ x # w
    BY <1>3, <1>4, <1>9, <2>1, RemoveAtList
  <2>5. st \in [Task -> TaskState]
    BY <1>2 DEF BeforeSchedule
  <2>6. /\ su \in [Task -> TaskState]
        /\ \A t \in Task : su[t] = IF t = w THEN "READY"
                                   ELSE IF t = current THEN "ZOMBIE" ELSE state[t]
    BY <1>6, <2>1, <2>5 DEF TaskState
  <2>. HIDE DEF st, rq, su, w
  <2>7. BeforeSchedule(rq, su)
    <3>1. rq # << >>
      BY <2>3, EmptySeq DEF Contains
    <3>. QED
      BY <1>3, <2>1, <2>2, <2>3, <2>6, <3>1 DEF BeforeSchedule, IInv, QueuesMatchStates
  <2>8. \A t \in Task :
          /\ su[t] = "ZOMBIE" <=> Contains(zombies', t)
          /\ su[t] = "WAITING" /\ pc'[t] = "wait" <=> Contains(waiters', t)
          /\ su[t] = "WAITING" /\ pc'[t] = "nanosleep" <=> Contains(blocked', t)
          /\ su[t] = "WAITING" => pc'[t] # "user"
          /\ su[t] = "UNUSED" <=> t >= next_pid
    <3>0. blocked' = blocked
      BY DEF Exit
    <3>1. pc[w] = "wait"
      BY <2>1 DEF IInv, QueuesMatchStates
    <3>. QED
      BY <1>2, <1>3, <1>5, <2>1, <2>2, <2>4, <2>6, <3>0, <3>1 DEF IInv, QueuesMatchStates
  <2>9. su[Idle] \in { "READY", "RUNNING" }
    BY <1>1, <1>2, <1>3, <2>6
  <2>10. NoDuplicate(blocked')
    BY <1>4 DEF Exit
  <2>11. Schedule(rq, su)
    BY <1>9 DEF rq, su, w
  <2>. QED
    BY <1>3, <1>5, <2>4, <2>7, <2>8, <2>9, <2>10, <2>11, AfterSchedule
<1>10. /\ current' \in Task /\ ready' \in Seq(Task) /\ waiters' \in Seq(Task)
       /\ state' \in [Task -> TaskState]
       /\ QueuesMatchStates' /\ ReadyOrdered' /\ IdleReady'
  BY <1>8, <1>9 DEF Exit
<1>11. heir' \in [Task -> Task \cup { Nobody }]
  <2>1. heir \in [Task -> Task \cup { Nobody }]
    BY DEF IInv, TypeOK
  <2>2. \A i \in Wakes : waiters[i] \in Task
    BY <1>3, ElementOfSeq DEF Wakes
  <2>3. heir' = heir \/ \E i \in Wakes : heir' = [heir EXCEPT ![current] = waiters[i]]
    BY DEF Exit
  <2>. QED
    BY <2>1, <2>2, <2>3
<1>12. TypeOK' /\ IdleInUser'
  BY <1>3, <1>5, <1>10, <1>11 DEF IInv, TypeOK, IdleInUser, Exit
<1>. QED
  BY <1>7, <1>10, <1>12 DEF IInv

\* The types and list facts of the current task that the next lemmas start from.
LEMMA CurrentFacts ==
    ASSUME IInv
    PROVE  /\ current \in Task /\ Idle \in Task
           /\ ready \in Seq(Task) /\ zombies \in Seq(Task)
           /\ waiters \in Seq(Task) /\ blocked \in Seq(Task)
           /\ state \in [Task -> TaskState] /\ prio \in [Task -> Int]
           /\ pc \in [Task -> { "user", "wait", "nanosleep" }]
           /\ NoDuplicate(ready) /\ NoDuplicate(zombies)
           /\ NoDuplicate(waiters) /\ NoDuplicate(blocked)
           /\ Ordered(ready, prio)
           /\ state[current] = "RUNNING"
           /\ ~Contains(waiters, current) /\ ~Contains(blocked, current)
<1>1. Idle \in Task
  BY ConstantsAssumption DEF Task, Idle
<1>2. /\ current \in Task /\ ready \in Seq(Task) /\ zombies \in Seq(Task)
      /\ waiters \in Seq(Task) /\ blocked \in Seq(Task)
      /\ state \in [Task -> TaskState] /\ prio \in [Task -> Int]
      /\ pc \in [Task -> { "user", "wait", "nanosleep" }]
  BY DEF IInv, TypeOK
<1>. QED
  BY <1>1, <1>2 DEF IInv, QueuesMatchStates, ReadyOrdered

\* scheduler_wait(): a turn that finds nothing and sleeps, one that frees a dead
\* task, one that returns at once.
LEMMA WaitTurnIInv ==
    ASSUME IInv, NEW p \in -1..(MaxTasks - 1), NEW nohang \in BOOLEAN,
           current # Idle, pc[current] # "nanosleep", WaitTurn(p, nohang),
           UNCHANGED << next_pid, prio, zombies, blocked, left, odd, irq, booted,
                        heir >>
    PROVE  IInv'
<1>. DEFINE F == Found(zombies, current, p)
            st == [state EXCEPT ![current] = "WAITING"]
<1>1. ASSUME UNCHANGED << current, ready, state, waiters, pc, wait_pid, frees >>
      PROVE  IInv'
  BY <1>1 DEF IInv, TypeOK, QueuesMatchStates, ReadyOrdered, IdleReady,
              IdleInUser, DeadlineRespected, Expired
<1>2. ASSUME waiters' = Append(waiters, current),
             pc' = [pc EXCEPT ![current] = "wait"],
             wait_pid' = [wait_pid EXCEPT ![current] = p],
             Schedule(ready, st), frees' = frees
      PROVE  IInv'
  <2>1. BeforeSchedule(ready, st) /\ state[Idle] = "READY" /\ state[current] = "RUNNING"
    BY PutAside
  <2>2. /\ waiters' \in Seq(Task) /\ NoDuplicate(waiters')
        /\ \A x : Contains(waiters', x) <=> x = current \/ Contains(waiters, x)
    BY <1>2, CurrentFacts, AppendList
  <2>3. \A t \in Task : /\ st[t] = IF t = current THEN "WAITING" ELSE state[t]
                        /\ pc'[t] = IF t = current THEN "wait" ELSE pc[t]
    BY <1>2, CurrentFacts
  <2>4. pc' \in [Task -> { "user", "wait", "nanosleep" }]
    BY <1>2, CurrentFacts
  <2>5. \A t \in Task :
          /\ st[t] = "ZOMBIE" <=> Contains(zombies', t)
          /\ st[t] = "WAITING" /\ pc'[t] = "wait" <=> Contains(waiters', t)
          /\ st[t] = "WAITING" /\ pc'[t] = "nanosleep" <=> Contains(blocked', t)
          /\ st[t] = "WAITING" => pc'[t] # "user"
          /\ st[t] = "UNUSED" <=> t >= next_pid
    BY <2>1, <2>2, <2>3, CurrentFacts DEF IInv, QueuesMatchStates
  <2>6. st[Idle] \in { "READY", "RUNNING" }
    BY <2>1, <2>3, CurrentFacts
  <2>7. NoDuplicate(zombies') /\ NoDuplicate(blocked') /\ prio' = prio /\ next_pid' = next_pid
    BY CurrentFacts
  <2>. HIDE DEF st
  <2>8. /\ current' \in Task /\ ready' \in Seq(Task)
        /\ state' \in [Task -> TaskState]
        /\ QueuesMatchStates' /\ ReadyOrdered' /\ IdleReady'
    BY <1>2, <2>1, <2>2, <2>4, <2>5, <2>6, <2>7, AfterSchedule
  <2>9. wait_pid' \in [Task -> -1..(MaxTasks - 1)]
    BY <1>2 DEF IInv, TypeOK
  <2>10. TypeOK'
    BY <1>2, <2>2, <2>4, <2>8, <2>9 DEF IInv, TypeOK
  <2>11. DeadlineRespected' /\ IdleInUser'
    BY <2>3, CurrentFacts DEF IInv, DeadlineRespected, Expired, IdleInUser
  <2>. QED
    BY <2>8, <2>10, <2>11 DEF IInv
<1>3. ASSUME NEW i \in F,
             frees' = [frees EXCEPT ![zombies[i]] = IF @ < MaxFrees THEN @ + 1 ELSE @],
             pc' = [pc EXCEPT ![current] = "user"],
             wait_pid' = [wait_pid EXCEPT ![current] = 0],
             UNCHANGED << current, ready, state, waiters >>
      PROVE  IInv'
  <2>1. zombies[i] \in Task
    BY CurrentFacts, ElementOfSeq DEF Found
  <2>2. frees' \in [Task -> 0..MaxFrees]
    <3>1. frees \in [Task -> 0..2] /\ frees[zombies[i]] \in 0..2
      BY <2>1 DEF IInv, TypeOK, MaxFrees
    <3>2. (IF frees[zombies[i]] < 2 THEN frees[zombies[i]] + 1 ELSE frees[zombies[i]]) \in 0..2
      BY <3>1
    <3>. QED
      BY <1>3, <2>1, <3>1, <3>2 DEF MaxFrees
  <2>3. wait_pid' \in [Task -> -1..(MaxTasks - 1)]
    BY <1>3, ConstantsAssumption DEF IInv, TypeOK
  <2>4. /\ pc' \in [Task -> { "user", "wait", "nanosleep" }]
        /\ \A t \in Task : pc'[t] = IF t = current THEN "user" ELSE pc[t]
    BY <1>3, CurrentFacts
  <2>5. TypeOK'
    BY <1>3, <2>2, <2>3, <2>4 DEF IInv, TypeOK
  <2>6. QueuesMatchStates'
    BY <1>3, <2>4, CurrentFacts DEF IInv, QueuesMatchStates
  <2>7. ReadyOrdered' /\ IdleReady' /\ IdleInUser'
    BY <1>3, <2>4, CurrentFacts DEF IInv, ReadyOrdered, IdleReady, IdleInUser
  <2>8. DeadlineRespected'
    BY <1>3, <2>4 DEF IInv, DeadlineRespected, Expired
  <2>. QED
    BY <2>5, <2>6, <2>7, <2>8 DEF IInv
<1>. HIDE DEF F, st
<1>4. \/ UNCHANGED << current, ready, state, waiters, pc, wait_pid, frees >>
      \/ /\ waiters' = Append(waiters, current)
         /\ pc' = [pc EXCEPT ![current] = "wait"]
         /\ wait_pid' = [wait_pid EXCEPT ![current] = p]
         /\ Schedule(ready, st)
         /\ frees' = frees
      \/ \E i \in F :
         /\ frees' = [frees EXCEPT ![zombies[i]] = IF @ < MaxFrees THEN @ + 1 ELSE @]
         /\ pc' = [pc EXCEPT ![current] = "user"]
         /\ wait_pid' = [wait_pid EXCEPT ![current] = 0]
         /\ UNCHANGED << current, ready, state, waiters >>
  BY DEF WaitTurn, F, st
<1>. QED
  BY <1>1, <1>2, <1>3, <1>4

\* clk_nanosleep() to a deadline ahead.
LEMMA NanosleepIInv ==
    ASSUME IInv, NEW k \in 1..MaxSleep, Nanosleep(k) PROVE IInv'
<1>. DEFINE st == [state EXCEPT ![current] = "WAITING"]
<1>1. /\ current # Idle /\ irq = FALSE /\ k > 0
      /\ left' = [left EXCEPT ![current] = k]
      /\ blocked' = Append(blocked, current)
      /\ pc' = [pc EXCEPT ![current] = "nanosleep"]
      /\ Schedule(ready, st)
      /\ UNCHANGED << next_pid, prio, zombies, waiters, wait_pid, odd, irq,
                      booted, frees, heir >>
  BY DEF Nanosleep, InCall, InUser, IInv, TypeOK
<1>2. BeforeSchedule(ready, st) /\ state[Idle] = "READY" /\ state[current] = "RUNNING"
  BY <1>1, PutAside
<1>3. /\ blocked' \in Seq(Task) /\ NoDuplicate(blocked')
      /\ \A x : Contains(blocked', x) <=> x = current \/ Contains(blocked, x)
  BY <1>1, CurrentFacts, AppendList
<1>4. \A t \in Task : /\ st[t] = IF t = current THEN "WAITING" ELSE state[t]
                      /\ pc'[t] = IF t = current THEN "nanosleep" ELSE pc[t]
  BY <1>1, CurrentFacts
<1>5. pc' \in [Task -> { "user", "wait", "nanosleep" }]
  BY <1>1, CurrentFacts
<1>6. \A t \in Task :
        /\ st[t] = "ZOMBIE" <=> Contains(zombies', t)
        /\ st[t] = "WAITING" /\ pc'[t] = "wait" <=> Contains(waiters', t)
        /\ st[t] = "WAITING" /\ pc'[t] = "nanosleep" <=> Contains(blocked', t)
        /\ st[t] = "WAITING" => pc'[t] # "user"
        /\ st[t] = "UNUSED" <=> t >= next_pid
  BY <1>1, <1>2, <1>3, <1>4, CurrentFacts DEF IInv, QueuesMatchStates
<1>7. st[Idle] \in { "READY", "RUNNING" }
  BY <1>1, <1>2, <1>4, CurrentFacts
<1>8. NoDuplicate(zombies') /\ NoDuplicate(waiters') /\ prio' = prio /\ next_pid' = next_pid
  BY <1>1, CurrentFacts
<1>9. /\ left' \in [Task -> 0..MaxSleep]
      /\ \A t \in Task : left'[t] = IF t = current THEN k ELSE left[t]
  BY <1>1, CurrentFacts, ConstantsAssumption DEF IInv, TypeOK
<1>. HIDE DEF st
<1>10. /\ current' \in Task /\ ready' \in Seq(Task)
       /\ state' \in [Task -> TaskState]
       /\ QueuesMatchStates' /\ ReadyOrdered' /\ IdleReady'
  BY <1>1, <1>2, <1>3, <1>5, <1>6, <1>7, <1>8, AfterSchedule
<1>11. TypeOK' /\ IdleInUser'
  BY <1>1, <1>3, <1>4, <1>5, <1>9, <1>10, CurrentFacts DEF IInv, TypeOK, IdleInUser
<1>12. DeadlineRespected'
  <2>1. \A t \in Task : pc'[t] = "nanosleep" /\ ~Contains(blocked', t) => left'[t] = 0
    BY <1>3, <1>4, <1>9, CurrentFacts DEF IInv, DeadlineRespected
  <2>2. \A t \in Task : Contains(blocked, t) => left[t] # 0
    BY <1>1 DEF IInv, DeadlineRespected, Expired, Contains
  <2>3. \A t \in Task : Contains(blocked', t) => left'[t] # 0
    BY <1>1, <1>3, <1>9, <2>2
  <2>4. Expired' = {}
    <3>1. SUFFICES ASSUME NEW i \in 1..Len(blocked'), left'[blocked'[i]] = 0 PROVE FALSE
      BY DEF Expired
    <3>2. blocked'[i] \in Task /\ Contains(blocked', blocked'[i])
      BY <1>3, ElementOfSeq DEF Contains
    <3>. QED
      BY <2>3, <3>1, <3>2
  <2>. QED
    BY <2>1, <2>4 DEF DeadlineRespected
<1>. QED
  BY <1>10, <1>11, <1>12 DEF IInv

\* A task leaves clk_nanosleep().
LEMMA NanosleepReturnIInv ==
    ASSUME IInv, NanosleepReturn PROVE IInv'
<1>1. /\ pc' \in [Task -> { "user", "wait", "nanosleep" }]
      /\ \A t \in Task : pc'[t] = IF t = current THEN "user" ELSE pc[t]
  BY CurrentFacts DEF NanosleepReturn
<1>2. UNCHANGED << current, next_pid, ready, zombies, waiters, blocked, state,
                   prio, wait_pid, left, odd, irq, booted, frees, heir >>
  BY DEF NanosleepReturn
<1>3. TypeOK'
  BY <1>1, <1>2 DEF IInv, TypeOK
<1>4. QueuesMatchStates'
  BY <1>1, <1>2, CurrentFacts DEF IInv, QueuesMatchStates
<1>5. ReadyOrdered' /\ IdleReady' /\ IdleInUser'
  BY <1>1, <1>2, CurrentFacts DEF IInv, ReadyOrdered, IdleReady, IdleInUser
<1>6. DeadlineRespected'
  BY <1>1, <1>2 DEF IInv, DeadlineRespected, Expired
<1>. QED
  BY <1>3, <1>4, <1>5, <1>6 DEF IInv

\* The clock interrupt counts a tick.
LEMMA ClkHandlerIInv ==
    ASSUME IInv, ClkHandler PROVE IInv'
<1>1. /\ left' \in [Task -> 0..MaxSleep]
      /\ \A t \in Task : left[t] = 0 => left'[t] = 0
  BY ConstantsAssumption, SMTT(30) DEF IInv, TypeOK, ClkHandler
<1>2. /\ irq' = TRUE /\ odd' \in BOOLEAN
      /\ UNCHANGED << current, next_pid, ready, zombies, waiters, blocked, state,
                      prio, pc, wait_pid, booted, frees, heir >>
  BY DEF ClkHandler
<1>3. TypeOK'
  BY <1>1, <1>2 DEF IInv, TypeOK
<1>4. QueuesMatchStates' /\ ReadyOrdered' /\ IdleReady' /\ IdleInUser'
  BY <1>2 DEF IInv, QueuesMatchStates, ReadyOrdered, IdleReady, IdleInUser
<1>5. DeadlineRespected'
  BY <1>1, <1>2 DEF IInv, DeadlineRespected
<1>. QED
  BY <1>3, <1>4, <1>5 DEF IInv

\* clk_wakeup() moves a task whose deadline has passed to the ready list.
LEMMA ClkWakeupIInv ==
    ASSUME IInv, ClkWakeup PROVE IInv'
<1>1. PICK i \in Expired :
        /\ blocked' = RemoveAt(blocked, i)
        /\ ready' = task_put(ready, blocked[i], prio)
        /\ state' = [state EXCEPT ![blocked[i]] = "READY"]
  BY DEF ClkWakeup
<1>2. /\ irq /\ irq' = irq
      /\ UNCHANGED << current, next_pid, zombies, waiters, prio, pc, wait_pid,
                      left, odd, booted, frees, heir >>
  BY DEF ClkWakeup
<1>. DEFINE w == blocked[i]
<1>3. i \in 1..Len(blocked) /\ w \in Task /\ Contains(blocked, w) /\ left[w] = 0
  BY CurrentFacts, ElementOfSeq DEF Expired, Contains
<1>4. state[w] = "WAITING" /\ pc[w] = "nanosleep" /\ w # current /\ ~Contains(ready, w)
  BY <1>3, CurrentFacts DEF IInv, QueuesMatchStates
<1>5. /\ ready' \in Seq(Task) /\ NoDuplicate(ready') /\ Ordered(ready', prio)
      /\ \A x : Contains(ready', x) <=> x = w \/ Contains(ready, x)
  <2>1. /\ ready \in Seq(Task) /\ prio \in [Task -> Int]
        /\ NoDuplicate(ready) /\ Ordered(ready, prio)
    BY CurrentFacts
  <2>2. ready' = task_put(ready, w, prio)
    BY <1>1
  <2>. HIDE DEF w
  <2>. QED
    BY <1>3, <1>4, <2>1, <2>2, TaskPutList
<1>6. /\ blocked' \in Seq(Task) /\ NoDuplicate(blocked')
      /\ \A x : Contains(blocked', x) <=> Contains(blocked, x) /\ x # w
  BY <1>1, <1>3, CurrentFacts, RemoveAtList
<1>7. /\ state' \in [Task -> TaskState]
      /\ \A t \in Task : state'[t] = IF t = w THEN "READY" ELSE state[t]
  BY <1>1, <1>3, CurrentFacts DEF TaskState
<1>. HIDE DEF w
<1>8. TypeOK'
  BY <1>2, <1>5, <1>6, <1>7 DEF IInv, TypeOK
<1>9. QueuesMatchStates'
  BY <1>2, <1>3, <1>4, <1>5, <1>6, <1>7 DEF IInv, QueuesMatchStates
<1>10. ReadyOrdered' /\ IdleReady' /\ IdleInUser'
  BY <1>2, <1>5, <1>7, CurrentFacts DEF IInv, ReadyOrdered, IdleReady, IdleInUser
<1>11. DeadlineRespected'
  BY <1>2, <1>3, <1>6 DEF IInv, DeadlineRespected
<1>. QED
  BY <1>8, <1>9, <1>10, <1>11 DEF IInv

\* The clock handler ends, every second time in schedule().
LEMMA ClkReturnIInv ==
    ASSUME IInv, ClkReturn PROVE IInv'
<1>1. /\ Expired = {}
      /\ UNCHANGED << next_pid, zombies, waiters, blocked, prio, pc, wait_pid,
                      left, odd, booted, frees, heir >>
      /\ irq' = FALSE
  BY DEF ClkReturn
<1>2. DeadlineRespected' /\ IdleInUser'
  BY <1>1 DEF IInv, DeadlineRespected, Expired, IdleInUser
<1>3. CASE odd
  <2>1. UNCHANGED << current, ready, state >>
    BY <1>3 DEF ClkReturn
  <2>2. TypeOK' /\ QueuesMatchStates' /\ ReadyOrdered' /\ IdleReady'
    BY <1>1, <2>1 DEF IInv, TypeOK, QueuesMatchStates, ReadyOrdered, IdleReady
  <2>. QED
    BY <1>2, <2>2 DEF IInv
<1>4. CASE ~odd
  <2>1. Schedule(ready, state)
    BY <1>4 DEF ClkReturn
  <2>2. BeforeSchedule(ready, state)
    BY CurrentFacts DEF BeforeSchedule, IInv, QueuesMatchStates
  <2>3. state[Idle] \in { "READY", "RUNNING" }
    BY DEF IInv, IdleReady
  <2>4. \A t \in Task :
          /\ state[t] = "ZOMBIE" <=> Contains(zombies', t)
          /\ state[t] = "WAITING" /\ pc'[t] = "wait" <=> Contains(waiters', t)
          /\ state[t] = "WAITING" /\ pc'[t] = "nanosleep" <=> Contains(blocked', t)
          /\ state[t] = "WAITING" => pc'[t] # "user"
          /\ state[t] = "UNUSED" <=> t >= next_pid
    BY <1>1 DEF IInv, QueuesMatchStates
  <2>5. /\ NoDuplicate(zombies') /\ NoDuplicate(waiters') /\ NoDuplicate(blocked')
        /\ prio' = prio /\ next_pid' = next_pid
        /\ pc' \in [Task -> { "user", "wait", "nanosleep" }]
    BY <1>1, CurrentFacts
  <2>6. /\ current' \in Task /\ ready' \in Seq(Task)
        /\ state' \in [Task -> TaskState]
        /\ QueuesMatchStates' /\ ReadyOrdered' /\ IdleReady'
    BY <2>1, <2>2, <2>3, <2>4, <2>5, AfterSchedule
  <2>7. TypeOK'
    BY <1>1, <2>6 DEF IInv, TypeOK
  <2>. QED
    BY <1>2, <2>6, <2>7 DEF IInv
<1>. QED
  BY <1>3, <1>4

\* scheduler_wait() goes on with -1 and with pids only.
LEMMA AcceptedPid ==
    ASSUME NEW p \in -2..(MaxTasks - 1), NEW nohang, Wait(p, nohang)
    PROVE  p \in -1..(MaxTasks - 1)
<1>1. ~(p < -1)
  BY DEF Wait, Refused
<1>. QED
  BY <1>1, ConstantsAssumption

\* Every step of the kernel preserves the invariant.
LEMMA NextIInv == IInv /\ [Next]_vars => IInv'
<1>. SUFFICES ASSUME IInv, [Next]_vars PROVE IInv'
  OBVIOUS
<1>1. ASSUME NEW p \in Prio, KthreadStart(p) PROVE IInv'
  BY <1>1, KthreadStartIInv
<1>2. CASE Sti
  BY <1>2 DEF IInv, TypeOK, QueuesMatchStates, ReadyOrdered, IdleReady,
              IdleInUser, DeadlineRespected, Expired, Sti
<1>3. CASE Exit
  BY <1>3, ExitIInv
<1>4. ASSUME NEW p \in -2..(MaxTasks - 1), NEW nohang \in BOOLEAN, Wait(p, nohang)
      PROVE  IInv'
  <2>1. current # Idle /\ pc[current] # "nanosleep"
    BY <1>4 DEF Wait, InCall, InUser
  <2>2. p \in -1..(MaxTasks - 1)
    BY <1>4, AcceptedPid
  <2>. QED
    BY <1>4, <2>1, <2>2, WaitTurnIInv DEF Wait
<1>5. CASE WaitResume
  <2>1. current # Idle /\ pc[current] # "nanosleep"
    BY <1>5 DEF WaitResume, IInv, IdleInUser
  <2>2. wait_pid[current] \in -1..(MaxTasks - 1)
    BY DEF IInv, TypeOK
  <2>. QED
    BY <1>5, <2>1, <2>2, WaitTurnIInv DEF WaitResume
<1>6. ASSUME NEW k \in 1..MaxSleep, Nanosleep(k) PROVE IInv'
  BY <1>6, NanosleepIInv
<1>7. CASE NanosleepReturn
  BY <1>7, NanosleepReturnIInv
<1>8. CASE ClkHandler
  BY <1>8, ClkHandlerIInv
<1>9. CASE ClkWakeup
  BY <1>9, ClkWakeupIInv
<1>10. CASE ClkReturn
  BY <1>10, ClkReturnIInv
<1>11. CASE UNCHANGED vars
  BY <1>11 DEF IInv, TypeOK, QueuesMatchStates, ReadyOrdered, IdleReady,
               IdleInUser, DeadlineRespected, Expired, vars
<1>. QED
  BY <1>1, <1>2, <1>3, <1>4, <1>5, <1>6, <1>7, <1>8, <1>9, <1>10, <1>11 DEF Next

-----------------------------------------------------------------------------
(* The theorems.                                                           *)

\* Every reachable state satisfies the inductive invariant.
THEOREM Invariance == Spec => []IInv
  BY InitIInv, NextIInv, PTL DEF Spec

\* Type correctness of the scheduler's data.
THEOREM TypeCorrect == Spec => []TypeOK
<1>1. IInv => TypeOK
  BY DEF IInv
<1>. QED
  BY <1>1, Invariance, PTL

\* No task is lost and none is on two lists, whatever the number of tasks and the
\* order of the calls and of the clock ticks.
THEOREM QueuesConsistent == Spec => []QueuesMatchStates
<1>1. IInv => QueuesMatchStates
  BY DEF IInv
<1>. QED
  BY <1>1, Invariance, PTL

\* The ready list stays ordered by decreasing priority.
THEOREM ReadyListOrdered == Spec => []ReadyOrdered
<1>1. IInv => ReadyOrdered
  BY DEF IInv
<1>. QED
  BY <1>1, Invariance, PTL

\* schedule() never returns to a task that has gone to sleep or exited.
THEOREM SomeTaskRuns == Spec => []AlwaysRunnable
<1>1. ASSUME IInv PROVE AlwaysRunnable
  <2>1. state[current] = "RUNNING" /\ Idle \in Task
    BY <1>1, CurrentFacts
  <2>2. ASSUME ready = << >> PROVE current = Idle
    <3>1. ~Contains(ready, Idle)
      BY <2>2 DEF Contains
    <3>. QED
      BY <1>1, <2>1, <3>1 DEF IInv, IdleReady, QueuesMatchStates
  <2>. QED
    BY <2>1, <2>2 DEF AlwaysRunnable
<1>. QED
  BY <1>1, Invariance, PTL

\* clk_nanosleep() never returns early, and no expired sleeper survives a tick.
THEOREM DeadlinesRespected == Spec => []DeadlineRespected
<1>1. IInv => DeadlineRespected
  BY DEF IInv
<1>. QED
  BY <1>1, Invariance, PTL

-----------------------------------------------------------------------------
(* Round robin.                                                            *)

\* schedule() takes the head of the ready list and puts the preempted task behind
\* all those of its priority.
LEMMA ScheduleOrder ==
    ASSUME current \in Task, prio \in [Task -> Int],
           NEW rq, NEW st, BeforeSchedule(rq, st), Schedule(rq, st)
    PROVE  ready' \in Seq(Task) /\ KeepsOrder(rq, ready', prio)
<1>0. /\ rq \in Seq(Task) /\ NoDuplicate(rq) /\ Ordered(rq, prio)
      /\ \A t \in Task : st[t] = "READY" <=> Contains(rq, t)
      /\ ready' \in Seq(Task)
  BY ScheduleLists DEF BeforeSchedule
<1>1. CASE rq = << >>
  <2>1. ready' = rq
    BY <1>1 DEF Schedule
  <2>. QED
    BY <1>0, <2>1, SameOrder
<1>2. CASE rq # << >>
  <2>1. /\ Tail(rq) \in Seq(Task) /\ NoDuplicate(Tail(rq)) /\ Ordered(Tail(rq), prio)
        /\ \A x : Contains(Tail(rq), x) => Contains(rq, x)
        /\ KeepsOrder(rq, Tail(rq), prio)
    BY <1>0, <1>2, TailList, TailOrder
  <2>2. CASE st[current] = "RUNNING"
    <3>1. ready' = task_put(Tail(rq), current, prio)
      BY <1>2, <2>2 DEF Schedule
    <3>2. ~Contains(rq, current) /\ ~Contains(Tail(rq), current)
      BY <1>0, <2>1, <2>2
    <3>3. KeepsOrder(Tail(rq), ready', prio)
      BY <2>1, <3>1, <3>2, TaskPutOrder
    <3>4. \A x : Contains(ready', x) <=> x = current \/ Contains(Tail(rq), x)
      BY <2>1, <3>1, TaskPutList
    <3>5. \A x : Contains(rq, x) /\ Contains(ready', x) => Contains(Tail(rq), x)
      BY <3>2, <3>4
    <3>. QED
      BY <1>0, <2>1, <3>3, <3>5, OrderTransitive
  <2>3. CASE st[current] # "RUNNING"
    <3>1. ready' = Tail(rq)
      BY <1>2, <2>3 DEF Schedule
    <3>. QED
      BY <1>0, <2>1, <3>1
  <2>. QED
    BY <2>2, <2>3
<1>. QED
  BY <1>1, <1>2

\* task_put() of a woken task, then schedule().
LEMMA WakeThenSchedule ==
    ASSUME current \in Task, prio \in [Task -> Int], ready \in Seq(Task),
           NoDuplicate(ready), Ordered(ready, prio),
           NEW w \in Task, ~Contains(ready, w), NEW rq, rq = task_put(ready, w, prio),
           NEW st, BeforeSchedule(rq, st), Schedule(rq, st)
    PROVE  KeepsOrder(ready, ready', prio)
<1>1. /\ rq \in Seq(Task) /\ KeepsOrder(ready, rq, prio)
      /\ \A x : Contains(rq, x) <=> x = w \/ Contains(ready, x)
  BY TaskPutList, TaskPutOrder
<1>2. ready' \in Seq(Task) /\ KeepsOrder(rq, ready', prio)
  BY ScheduleOrder
<1>. QED
  BY <1>1, <1>2, OrderTransitive

\* scheduler_exit() has woken a waiter up when it calls schedule().
LEMMA ExitWakes ==
    ASSUME IInv, current # Idle, NEW i \in 1..Len(waiters)
    PROVE  /\ waiters[i] \in Task /\ ~Contains(ready, waiters[i])
           /\ BeforeSchedule(task_put(ready, waiters[i], prio),
                             [[state EXCEPT ![current] = "ZOMBIE"]
                                     EXCEPT ![waiters[i]] = "READY"])
<1>. DEFINE w == waiters[i]
            rq == task_put(ready, w, prio)
            st == [state EXCEPT ![current] = "ZOMBIE"]
            su == [st EXCEPT ![w] = "READY"]
<1>1. BeforeSchedule(ready, st) /\ state[current] = "RUNNING"
  BY PutAside
<1>2. w \in Task /\ Contains(waiters, w)
  BY CurrentFacts, ElementOfSeq DEF Contains
<1>3. state[w] = "WAITING" /\ w # current /\ ~Contains(ready, w)
  BY <1>1, <1>2, CurrentFacts DEF IInv, QueuesMatchStates
<1>. HIDE DEF w
<1>4. /\ rq \in Seq(Task) /\ NoDuplicate(rq) /\ Ordered(rq, prio)
      /\ \A x : Contains(rq, x) <=> x = w \/ Contains(ready, x)
  BY <1>2, <1>3, CurrentFacts, TaskPutList
<1>5. /\ su \in [Task -> TaskState]
      /\ \A t \in Task : su[t] = IF t = w THEN "READY"
                                 ELSE IF t = current THEN "ZOMBIE" ELSE state[t]
  BY <1>2, CurrentFacts DEF TaskState
<1>6. rq # << >>
  BY <1>4, EmptySeq DEF Contains
<1>. HIDE DEF rq, su
<1>7. BeforeSchedule(rq, su)
  BY <1>2, <1>3, <1>4, <1>5, <1>6, CurrentFacts DEF BeforeSchedule, IInv, QueuesMatchStates
<1>. QED
  BY <1>2, <1>3, <1>7 DEF rq, su, w

\* No step of the kernel lets a ready task be overtaken by one of its priority.
LEMMA NextKeepsOrder ==
    ASSUME IInv, [Next]_vars PROVE KeepsOrder(ready, ready', prio')
<1>0. /\ current \in Task /\ prio \in [Task -> Int] /\ ready \in Seq(Task)
      /\ NoDuplicate(ready) /\ Ordered(ready, prio)
  BY CurrentFacts
<1>1. ASSUME ready' = ready PROVE KeepsOrder(ready, ready', prio')
  BY <1>0, <1>1, SameOrder
<1>2. ASSUME NEW p \in Prio, KthreadStart(p) PROVE KeepsOrder(ready, ready', prio')
  <2>1. /\ next_pid \in Task /\ prio' \in [Task -> Int]
        /\ \A t \in Task : t # next_pid => prio'[t] = prio[t]
        /\ ready' = task_put(ready, next_pid, prio')
    BY <1>2, ConstantsAssumption DEF IInv, TypeOK, KthreadStart, Task
  <2>2. ~Contains(ready, next_pid)
    <3>1. next_pid >= next_pid
      BY DEF IInv, TypeOK
    <3>. QED
      BY <2>1, <3>1 DEF IInv, QueuesMatchStates
  <2>3. \A i \in 1..Len(ready) : prio'[ready[i]] = prio[ready[i]]
    BY <1>0, <2>1, <2>2, ElementOfSeq DEF Contains
  <2>4. Ordered(ready, prio')
    BY <1>0, <2>3 DEF Ordered
  <2>. QED
    BY <1>0, <2>1, <2>2, <2>4, TaskPutOrder
<1>3. CASE Sti
  BY <1>1, <1>3 DEF Sti
<1>4. CASE Exit
  <2>1. current # Idle /\ prio' = prio
    BY <1>4 DEF Exit, InCall
  <2>. DEFINE st == [state EXCEPT ![current] = "ZOMBIE"]
  <2>2. ASSUME Schedule(ready, st) PROVE KeepsOrder(ready, ready', prio)
    <3>1. BeforeSchedule(ready, st)
      BY <2>1, PutAside
    <3>. HIDE DEF st
    <3>. QED
      BY <1>0, <2>2, <3>1, ScheduleOrder
  <2>3. ASSUME NEW i \in Wakes,
               Schedule(task_put(ready, waiters[i], prio),
                        [st EXCEPT ![waiters[i]] = "READY"])
        PROVE  KeepsOrder(ready, ready', prio)
    <3>1. i \in 1..Len(waiters)
      BY DEF Wakes
    <3>2. PICK w, rq, su : /\ w = waiters[i] /\ rq = task_put(ready, w, prio)
                           /\ su = [st EXCEPT ![w] = "READY"]
      OBVIOUS
    <3>3. w \in Task /\ ~Contains(ready, w) /\ BeforeSchedule(rq, su)
      BY <2>1, <3>1, <3>2, ExitWakes
    <3>4. Schedule(rq, su)
      BY <2>3, <3>2
    <3>. HIDE DEF st
    <3>5. rq = task_put(ready, w, prio)
      BY <3>2
    <3>. QED
      BY <1>0, <3>3, <3>4, <3>5, WakeThenSchedule
  <2>4. \/ Schedule(ready, st)
        \/ \E i \in Wakes : Schedule(task_put(ready, waiters[i], prio),
                                     [st EXCEPT ![waiters[i]] = "READY"])
    BY <1>4 DEF Exit
  <2>. QED
    BY <2>1, <2>2, <2>3, <2>4
<1>5. ASSUME NEW p, NEW nohang, current # Idle, WaitTurn(p, nohang), prio' = prio
      PROVE  KeepsOrder(ready, ready', prio')
  <2>. DEFINE st == [state EXCEPT ![current] = "WAITING"]
  <2>1. ready' = ready \/ Schedule(ready, st)
    BY <1>5 DEF WaitTurn
  <2>2. BeforeSchedule(ready, st)
    BY <1>5, PutAside
  <2>. HIDE DEF st
  <2>. QED
    BY <1>0, <1>1, <1>5, <2>1, <2>2, ScheduleOrder
<1>6. ASSUME NEW p \in -2..(MaxTasks - 1), NEW nohang \in BOOLEAN, Wait(p, nohang)
      PROVE  KeepsOrder(ready, ready', prio')
  BY <1>5, <1>6 DEF Wait, InCall
<1>7. CASE WaitResume
  BY <1>5, <1>7 DEF WaitResume, IInv, IdleInUser
<1>8. ASSUME NEW k \in 1..MaxSleep, Nanosleep(k) PROVE KeepsOrder(ready, ready', prio')
  <2>. DEFINE st == [state EXCEPT ![current] = "WAITING"]
  <2>1. current # Idle /\ prio' = prio /\ Schedule(ready, st)
    BY <1>8 DEF Nanosleep, InCall
  <2>2. BeforeSchedule(ready, st)
    BY <2>1, PutAside
  <2>. HIDE DEF st
  <2>. QED
    BY <1>0, <2>1, <2>2, ScheduleOrder
<1>9. CASE NanosleepReturn
  BY <1>1, <1>9 DEF NanosleepReturn
<1>10. CASE ClkHandler
  BY <1>1, <1>10 DEF ClkHandler
<1>11. CASE ClkWakeup
  <2>1. PICK i \in Expired : ready' = task_put(ready, blocked[i], prio) /\ prio' = prio
    BY <1>11 DEF ClkWakeup
  <2>2. PICK w : w = blocked[i]
    OBVIOUS
  <2>3. w \in Task /\ Contains(blocked, w)
    BY <2>2, CurrentFacts, ElementOfSeq DEF Expired, Contains
  <2>4. ~Contains(ready, w)
    BY <2>3 DEF IInv, QueuesMatchStates
  <2>5. ready' = task_put(ready, w, prio)
    BY <2>1, <2>2
  <2>. QED
    BY <1>0, <2>1, <2>3, <2>4, <2>5, TaskPutOrder
<1>12. CASE ClkReturn
  <2>1. prio' = prio /\ (ready' = ready \/ Schedule(ready, state))
    BY <1>12 DEF ClkReturn
  <2>2. BeforeSchedule(ready, state)
    BY CurrentFacts DEF BeforeSchedule, IInv, QueuesMatchStates
  <2>. QED
    BY <1>0, <1>1, <2>1, <2>2, ScheduleOrder
<1>13. CASE UNCHANGED vars
  BY <1>1, <1>13 DEF vars
<1>. QED
  BY <1>2, <1>3, <1>4, <1>6, <1>7, <1>8, <1>9, <1>10, <1>11, <1>12, <1>13 DEF Next

\* Round robin: a ready task is never overtaken by another of its priority, for
\* any number of tasks, whatever sleeps, exits, waits and clock ticks come between.
THEOREM RoundRobin == Spec => ReadyIsFifo
<1>1. ASSUME IInv, [Next]_vars
      PROVE  \A i \in 1..Len(ready), k, l \in 1..Len(ready') :
               /\ ready'[l] = ready[i]
               /\ k < l
               => \/ prio'[ready'[k]] > prio'[ready'[l]]
                  \/ \E j \in 1..(i - 1) : ready[j] = ready'[k]
  BY <1>1, NextKeepsOrder DEF KeepsOrder
<1>. QED
  BY <1>1, Invariance, PTL DEF Spec, ReadyIsFifo

-----------------------------------------------------------------------------
(* Deaths and waits.  Any number of tasks may wait for one death; it wakes *)
(* the first of them up.                                                   *)

WaitInv == IInv /\ NoMissedDeath

\* No task waits and none is dead when the kernel boots.
LEMMA InitWait == Init => WaitInv
<1>1. Init => IInv
  BY InitIInv
<1>2. Init => SleepersPassedOver /\ WokenFind
  BY DEF Init, SleepersPassedOver, WokenFind
<1>. QED
  BY <1>1, <1>2 DEF WaitInv, NoMissedDeath

\* What a waiter found among the dead it still finds when more of them have died.
LEMMA StillFound ==
    ASSUME NEW zs \in Seq(Task), NEW c \in Task, NEW t, NEW p,
           Found(zs, t, p) # {}
    PROVE  Found(Append(zs, c), t, p) # {}
<1>1. PICK i \in 1..Len(zs) : IF p = -1 THEN parent(zs[i]) = t ELSE zs[i] = p
  BY DEF Found
<1>2. /\ Len(Append(zs, c)) = Len(zs) + 1 /\ Len(zs) \in Nat
      /\ Append(zs, c)[i] = zs[i]
  BY AppendProperties, LenProperties
<1>3. i \in 1..Len(Append(zs, c))
  BY <1>2
<1>. QED
  BY <1>1, <1>2, <1>3 DEF Found

\* The waiter that a death wakes up finds it.
LEMMA FindsTheDead ==
    ASSUME NEW zs \in Seq(Task), NEW c \in Task, NEW w \in Task, Awaits(w, c)
    PROVE  Found(Append(zs, c), w, wait_pid[w]) # {}
<1>. DEFINE n == Len(zs) + 1
<1>1. Len(Append(zs, c)) = n /\ Len(zs) \in Nat /\ Append(zs, c)[n] = c
  BY AppendProperties, LenProperties
<1>2. n \in 1..Len(Append(zs, c))
  BY <1>1
<1>3. IF wait_pid[w] = -1 THEN parent(c) = w ELSE c = wait_pid[w]
  BY DEF Awaits
<1>. HIDE DEF n
<1>. QED
  BY <1>1, <1>2, <1>3 DEF Found

\* scheduler_exit(): the first waiter for this death is woken up and finds it;
\* the others were passed over for that one.
LEMMA ExitWait ==
    ASSUME WaitInv, Exit PROVE NoMissedDeath'
<1>1. IInv /\ SleepersPassedOver /\ WokenFind
  BY DEF WaitInv, NoMissedDeath
<1>2. wait_pid' = wait_pid /\ pc' = pc /\ zombies' = Append(zombies, current)
  BY DEF Exit
<1>3. /\ current \in Task /\ zombies \in Seq(Task) /\ waiters \in Seq(Task)
      /\ NoDuplicate(waiters) /\ heir \in [Task -> Task \cup { Nobody }]
      /\ ~Contains(zombies, current)
  <2>1. ~Contains(zombies, current)
    BY <1>1, CurrentFacts DEF IInv, QueuesMatchStates
  <2>. QED
    BY <1>1, <2>1, CurrentFacts DEF IInv, TypeOK
<1>4. \A j \in 1..Len(zombies') :
        \/ zombies'[j] = current
        \/ \E m \in 1..Len(zombies) : zombies'[j] = zombies[m] /\ zombies[m] # current
  <2>1. SUFFICES ASSUME NEW j \in 1..Len(zombies'), zombies'[j] # current
                 PROVE  \E m \in 1..Len(zombies) : zombies'[j] = zombies[m]
    OBVIOUS
  <2>2. Contains(zombies', zombies'[j])
    BY DEF Contains
  <2>3. Contains(zombies, zombies'[j])
    BY <1>2, <1>3, <2>1, <2>2, AppendList
  <2>. QED
    BY <2>3 DEF Contains
<1>5. ASSUME NEW t \in Task, Found(zombies, t, wait_pid[t]) # {}
      PROVE  Found(zombies', t, wait_pid'[t]) # {}
  BY <1>2, <1>3, <1>5, StillFound
<1>6. CASE Wakes = {}
  <2>1. waiters' = waiters /\ heir' = heir
    BY <1>6 DEF Exit
  <2>2. WokenFind'
    BY <1>1, <1>2, <1>5, <2>1 DEF WokenFind
  <2>3. SUFFICES ASSUME NEW i \in 1..Len(waiters), NEW j \in 1..Len(zombies'),
                        Awaits(waiters[i], zombies'[j])
                 PROVE  heir[zombies'[j]] \in Task \ { waiters[i] }
    BY <1>2, <2>1, <2>2 DEF NoMissedDeath, SleepersPassedOver, Awaits
  <2>4. zombies'[j] # current
    BY <1>6, <2>3 DEF Wakes
  <2>. QED
    BY <1>1, <1>4, <2>3, <2>4 DEF SleepersPassedOver
<1>7. CASE Wakes # {}
  <2>1. PICK k \in Wakes : /\ waiters' = RemoveAt(waiters, k)
                           /\ heir' = [heir EXCEPT ![current] = waiters[k]]
    BY <1>7 DEF Exit
  <2>2. PICK w : w = waiters[k]
    OBVIOUS
  <2>3. k \in 1..Len(waiters) /\ w \in Task /\ Awaits(w, current)
    BY <1>3, <2>2, ElementOfSeq DEF Wakes
  <2>4. \A x : Contains(waiters', x) <=> Contains(waiters, x) /\ x # w
    BY <1>3, <2>1, <2>2, <2>3, RemoveAtList
  <2>5. heir' = [heir EXCEPT ![current] = w]
    BY <2>1, <2>2
  <2>6. WokenFind'
    <3>1. SUFFICES ASSUME NEW t \in Task, pc[t] = "wait", ~Contains(waiters', t)
                   PROVE  Found(zombies', t, wait_pid'[t]) # {}
      BY <1>2 DEF WokenFind
    <3>2. CASE t = w
      BY <1>2, <1>3, <2>3, <3>2, FindsTheDead
    <3>3. CASE t # w
      BY <1>1, <1>5, <2>4, <3>1, <3>3 DEF WokenFind
    <3>. QED
      BY <3>2, <3>3
  <2>7. SleepersPassedOver'
    <3>1. SUFFICES ASSUME NEW i \in 1..Len(waiters'), NEW j \in 1..Len(zombies'),
                          Awaits(waiters'[i], zombies'[j])
                   PROVE  heir'[zombies'[j]] \in Task \ { waiters'[i] }
      BY <1>2 DEF SleepersPassedOver, Awaits
    <3>2. PICK x : x = waiters'[i]
      OBVIOUS
    <3>3. Contains(waiters', x)
      BY <3>2 DEF Contains
    <3>4. Contains(waiters, x) /\ x # w
      BY <2>4, <3>3
    <3>5. CASE zombies'[j] = current
      BY <1>3, <2>3, <2>5, <3>2, <3>4, <3>5
    <3>6. CASE zombies'[j] # current
      <4>1. PICK m \in 1..Len(zombies) : zombies'[j] = zombies[m]
        BY <1>4, <3>6
      <4>2. PICK l \in 1..Len(waiters) : waiters[l] = x
        BY <3>4 DEF Contains
      <4>3. heir[zombies[m]] \in Task \ { x }
        BY <1>1, <3>1, <3>2, <4>1, <4>2 DEF SleepersPassedOver
      <4>4. zombies[m] \in Task
        BY <1>3, ElementOfSeq
      <4>. QED
        BY <1>3, <2>5, <3>2, <3>6, <4>1, <4>3, <4>4
    <3>. QED
      BY <3>5, <3>6
  <2>. QED
    BY <2>6, <2>7 DEF NoMissedDeath
<1>. QED
  BY <1>6, <1>7

\* scheduler_wait(): a task goes to sleep only when no death it expects has come.
LEMMA WaitTurnWait ==
    ASSUME WaitInv, NEW p \in -1..(MaxTasks - 1), NEW nohang,
           WaitTurn(p, nohang), UNCHANGED << zombies, heir >>
    PROVE  NoMissedDeath'
<1>1. IInv /\ SleepersPassedOver /\ WokenFind
  BY DEF WaitInv, NoMissedDeath
<1>2. /\ current \in Task /\ waiters \in Seq(Task) /\ zombies \in Seq(Task)
      /\ pc \in [Task -> { "user", "wait", "nanosleep" }]
      /\ wait_pid \in [Task -> -1..(MaxTasks - 1)]
      /\ ~Contains(waiters, current)
  BY <1>1, CurrentFacts DEF IInv, TypeOK
<1>3. CASE UNCHANGED << waiters, pc, wait_pid >>
  BY <1>1, <1>3 DEF NoMissedDeath, SleepersPassedOver, WokenFind, Awaits
<1>4. ASSUME Found(zombies, current, p) = {},
             waiters' = Append(waiters, current),
             pc' = [pc EXCEPT ![current] = "wait"],
             wait_pid' = [wait_pid EXCEPT ![current] = p]
      PROVE  NoMissedDeath'
  <2>1. \A x : Contains(waiters', x) <=> x = current \/ Contains(waiters, x)
    BY <1>2, <1>4, CurrentFacts, <1>1, AppendList
  <2>2. \A t \in Task : t # current => wait_pid'[t] = wait_pid[t] /\ pc'[t] = pc[t]
    BY <1>2, <1>4
  <2>3. WokenFind'
    BY <1>1, <2>1, <2>2 DEF WokenFind
  <2>4. SUFFICES ASSUME NEW i \in 1..Len(waiters'), NEW j \in 1..Len(zombies),
                        Awaits(waiters[i], zombies[j])'
                 PROVE  heir[zombies[j]] \in Task \ { waiters'[i] }
    BY <2>3 DEF NoMissedDeath, SleepersPassedOver, Awaits
  <2>5. PICK x : x = waiters'[i]
    OBVIOUS
  <2>6. CASE x = current
    <3>1. wait_pid'[current] = p
      BY <1>2, <1>4
    <3>2. IF p = -1 THEN parent(zombies[j]) # current ELSE zombies[j] # p
      BY <1>4 DEF Found
    <3>. QED
      BY <2>4, <2>5, <2>6, <3>1, <3>2 DEF Awaits
  <2>7. CASE x # current
    <3>1. Contains(waiters', x)
      BY <2>5 DEF Contains
    <3>2. PICK l \in 1..Len(waiters) : waiters[l] = x
      BY <2>1, <2>7, <3>1 DEF Contains
    <3>3. x \in Task
      BY <1>2, <3>2, ElementOfSeq
    <3>4. Awaits(x, zombies[j])
      BY <2>2, <2>4, <2>5, <2>7, <3>3 DEF Awaits
    <3>. QED
      BY <1>1, <2>5, <3>2, <3>4 DEF SleepersPassedOver
  <2>. QED
    BY <2>6, <2>7
<1>5. ASSUME pc' = [pc EXCEPT ![current] = "user"],
             wait_pid' = [wait_pid EXCEPT ![current] = 0],
             waiters' = waiters
      PROVE  NoMissedDeath'
  <2>1. \A t \in Task : /\ t # current => wait_pid'[t] = wait_pid[t] /\ pc'[t] = pc[t]
                        /\ pc'[current] = "user"
    BY <1>2, <1>5
  <2>2. \A i \in 1..Len(waiters) : waiters[i] \in Task /\ waiters[i] # current
    BY <1>2, ElementOfSeq DEF Contains
  <2>3. WokenFind'
    BY <1>1, <1>5, <2>1 DEF WokenFind
  <2>4. SleepersPassedOver'
    BY <1>1, <1>5, <2>1, <2>2 DEF SleepersPassedOver, Awaits
  <2>. QED
    BY <2>3, <2>4 DEF NoMissedDeath
<1>. QED
  BY <1>3, <1>4, <1>5 DEF WaitTurn

\* Every step of the kernel preserves the invariant.
LEMMA NextWait ==
    ASSUME WaitInv, [Next]_vars PROVE WaitInv'
<1>1. IInv /\ SleepersPassedOver /\ WokenFind /\ IInv'
  BY NextIInv DEF WaitInv, NoMissedDeath
<1>2. ASSUME UNCHANGED << zombies, waiters, pc, wait_pid, heir >>
      PROVE  NoMissedDeath'
  BY <1>1, <1>2 DEF NoMissedDeath, SleepersPassedOver, WokenFind, Awaits
<1>3. ASSUME NEW s \in { "user", "nanosleep" }, pc' = [pc EXCEPT ![current] = s],
             UNCHANGED << zombies, waiters, wait_pid, heir >>
      PROVE  NoMissedDeath'
  <2>1. \A t \in Task : pc'[t] = "wait" => pc[t] = "wait"
    BY <1>1, <1>3, CurrentFacts
  <2>2. WokenFind'
    BY <1>1, <1>3, <2>1 DEF WokenFind
  <2>. QED
    BY <1>1, <1>3, <2>2 DEF NoMissedDeath, SleepersPassedOver, Awaits
<1>. SUFFICES NoMissedDeath'
  BY <1>1 DEF WaitInv
<1>4. ASSUME NEW p \in Prio, KthreadStart(p) PROVE NoMissedDeath'
  BY <1>2, <1>4 DEF KthreadStart
<1>5. CASE Sti
  BY <1>2, <1>5 DEF Sti
<1>6. CASE Exit
  BY <1>6, ExitWait
<1>7. ASSUME NEW p \in -2..(MaxTasks - 1), NEW nohang \in BOOLEAN, Wait(p, nohang)
      PROVE  NoMissedDeath'
  <2>1. p \in -1..(MaxTasks - 1)
    BY <1>7, AcceptedPid
  <2>. QED
    BY <1>7, <2>1, WaitTurnWait DEF Wait
<1>8. CASE WaitResume
  <2>1. wait_pid[current] \in -1..(MaxTasks - 1)
    BY <1>1, CurrentFacts DEF IInv, TypeOK
  <2>2. WaitTurn(wait_pid[current], FALSE) /\ UNCHANGED << zombies, heir >>
    BY <1>8 DEF WaitResume
  <2>. QED
    BY <2>1, <2>2, WaitTurnWait
<1>9. ASSUME NEW k \in 1..MaxSleep, Nanosleep(k) PROVE NoMissedDeath'
  BY <1>3, <1>9 DEF Nanosleep
<1>10. CASE NanosleepReturn
  BY <1>3, <1>10 DEF NanosleepReturn
<1>11. CASE ClkHandler
  BY <1>2, <1>11 DEF ClkHandler
<1>12. CASE ClkWakeup
  BY <1>2, <1>12 DEF ClkWakeup
<1>13. CASE ClkReturn
  BY <1>2, <1>13 DEF ClkReturn
<1>14. CASE UNCHANGED vars
  BY <1>2, <1>14 DEF vars
<1>. QED
  BY <1>4, <1>5, <1>6, <1>7, <1>8, <1>9, <1>10, <1>11, <1>12, <1>13, <1>14 DEF Next

\* However many tasks wait, and whatever they do between a death and the waiter's
\* next turn: a death that somebody sleeps on woke another waiter up, and no
\* waiter that scheduler_exit() woke up sleeps again in the same call.
THEOREM DeathsNotMissed == Spec => []NoMissedDeath
<1>1. Init => WaitInv
  BY InitWait
<1>2. WaitInv /\ [Next]_vars => WaitInv'
  BY NextWait
<1>3. WaitInv => NoMissedDeath
  BY DEF WaitInv
<1>. QED
  BY <1>1, <1>2, <1>3, PTL DEF Spec
=============================================================================
