SPECIFICATION Spec
CONSTANTS
  main = main
  t1 = t1
  t2 = t2
  Threads = {main, t1, t2}
  Main = main
  Mutexes = {}
  WaitQueues = {w1}
  NumPriorities = 3
  BasePriority <- PrioMiddle
  Ops = {"create", "resume", "suspend", "sleep", "wakeup", "yield", "handler", "exit", "cancel", "join", "detach"}
  MaxSuspend = 1
  MaxCount = 2
  MaxNest = 3
  Attrs = {TRUE, FALSE}
  None = None
  Idle = Idle
INVARIANTS TypeOK PendingMask LinkedOnce NotLost RequestKept SleepEndsRunning JoinersWoken
CHECK_DEADLOCK FALSE
