SPECIFICATION FairSpec
CONSTANTS
  main = main
  t1 = t1
  t2 = t2
  Threads = {main, t1, t2}
  Main = main
  Mutexes = {}
  WaitQueues = {}
  NumPriorities = 3
  BasePriority <- PrioMiddle
  Ops = {"create", "resume", "ticks", "cancel"}
  MaxSuspend = 1
  MaxCount = 2
  MaxNest = 3
  Attrs = {TRUE}
  None = None
  Idle = Idle
PROPERTIES TimersWakeSleepers
CHECK_DEADLOCK FALSE
