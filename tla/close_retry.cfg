SPECIFICATION Spec
CONSTANTS
  Infos = {a}
  Blocks = {1}
  NumInodes = 3
  MaxWrites = 1
  MaxOpens = 1
  Faults = {"rename"}
INVARIANT RetryPossible
