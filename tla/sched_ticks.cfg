SPECIFICATION Spec
CONSTANTS
  main = main
  t1 = t1
  t2 = t2
  Threads = {main, t1, t2}
  Main = main
  Mutexes = {}
  WaitQueues = {}
  NumPriorities = 3
  BasePriority <- PrioMiddle
  Ops = {"create", "resume", "suspend", "ticks", "cancel", "return"}
  MaxSuspend = 2
  MaxCount = 2
  MaxNest = 4
  Attrs = {FALSE}
  None = None
  Idle = Idle
INVARIANTS LinkedOnce ParksHaveTimers
PROPERTIES TimersWakeSleepers
CHECK_DEADLOCK FALSE
