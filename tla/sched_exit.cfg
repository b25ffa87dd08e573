SPECIFICATION Spec
CONSTANTS
  main = main
  t1 = t1
  t2 = t2
  Threads = {main, t1, t2}
  Main = main
  Mutexes = {m1}
  WaitQueues = {}
  NumPriorities = 3
  BasePriority <- PrioMiddle
  Ops = {"create", "resume", "suspend", "ticks", "cancel", "lock", "unlock", "exit"}
  MaxSuspend = 1
  MaxCount = 1
  MaxNest = 4
  Attrs = {FALSE}
  None = None
  Idle = Idle
INVARIANT DeadOwnNothing
CHECK_DEADLOCK FALSE
