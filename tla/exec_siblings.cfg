SPECIFICATION Spec
CONSTANTS
  MaxTools = 3
  MaxAttempts = 1
  Kinds = {"cat", "edit", "ghost"}
  SafeKinds <- MCSafeKinds
  BashKinds <- MCBashKinds
  CancelKinds <- MCCancelKinds
  UnknownKinds <- MCUnknownKinds
INVARIANT TypeOK
INVARIANT ExclusiveCalls
INVARIANT NothingLeftStartable
PROPERTY StartsInOrder
