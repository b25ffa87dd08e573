SPECIFICATION FairSpec
CONSTANTS
  main = main
  t1 = t1
  t2 = t2
  Threads = {main, t1, t2}
  Main = main
  Mutexes = {m1, m2}
  WaitQueues = {w1}
  NumPriorities = 3
  BasePriority <- PrioMiddle
  Ops = {"create", "resume", "lock", "unlock", "suspend", "sleep"}
  MaxSuspend = 1
  MaxCount = 2
  MaxNest = 3
  Attrs = {FALSE}
  None = None
  Idle = Idle
INVARIANTS OneRunning WaitersSorted OwnerInherits PriorityReturned
PROPERTIES HandlersReturn
CHECK_DEADLOCK FALSE
