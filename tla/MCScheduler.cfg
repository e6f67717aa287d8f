SPECIFICATION FairSpec
CONSTANTS
  MaxTasks = 4
  Prio <- MCPrio
  IdlePrio <- MCIdlePrio
  MaxSleep = 2
INVARIANTS TypeOK QueuesMatchStates ReadyOrdered AlwaysRunnable DeadlineRespected NoMissedDeath
PROPERTIES ReadyIsFifo SleeperWakes TopPriorityRuns
