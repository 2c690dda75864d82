SPECIFICATION ThreadsSpec
CONSTANTS
  Functions = {f}
  MaxQueueSize = 1
  Producers = {p1, p2}
  Workers = {w1, w2}
  Priorities = {0, 1}
  MaxTasks = 3
INVARIANTS NoLostWakeup StopRunsEveryTask
PROPERTIES CallsReturn AcceptedTasksRun
