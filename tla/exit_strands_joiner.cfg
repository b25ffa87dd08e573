SPECIFICATION Spec
CONSTANTS
  main = main
  t1 = t1
  t2 = t2
  Threads = {main, t1, t2}
  Main = main
  Mutexes = {m1}
  WaitQueues = {}
  NumPriorities = 3
  BasePriority <- PrioMiddle
  Ops = {"create", "resume", "lock", "unlock", "exit", "join"}
  MaxSuspend = 1
  MaxCount = 2
  MaxNest = 3
  Attrs = {FALSE}
  None = None
  Idle = Idle
INVARIANTS JoinersWoken
CHECK_DEADLOCK FALSE
