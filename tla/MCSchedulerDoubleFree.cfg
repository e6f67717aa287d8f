SPECIFICATION Spec
CONSTANTS
  MaxTasks = 4
  Prio <- MCPrio
  IdlePrio <- MCIdlePrio
  MaxSleep = 2
INVARIANTS FreedOnce
