SPECIFICATION Spec
CONSTANTS
  NumEntries = 3
  Directories = {1, 2}
  MaxOps = 2
INVARIANTS TypeOK RecoveryNeverRefuses LockHolderSeesWhole BackupsNamed
PROPERTY ImplementsAtomic
