SPECIFICATION FairSpec
CONSTANTS
  Callers = {a, b, c}
  Messages = {x, y}
  Count = 2
  Flags = {TRUE, FALSE}
  Zero = Zero
INVARIANTS TypeOK NoLostWakeup
PROPERTIES RefinesDeque BlockedCallsProceed
CHECK_DEADLOCK FALSE
