SPECIFICATION Spec
CONSTANTS
  Infos = {a, b}
  Blocks = {1}
  NumInodes = 3
  MaxWrites = 2
  MaxOpens = 3
  Faults = {"copy", "open", "flush", "rename", "remove", "dirsync"}
SYMMETRY Interchangeable
VIEW NoLeftovers
INVARIANTS TypeOK Durable ScratchOwned
