SPECIFICATION FairSpec
CONSTANTS
  MaxTools = 2
  MaxAttempts = 2
  Kinds = {"cat", "bash", "sleep"}
  SafeKinds <- MCSafeKinds
  BashKinds <- MCBashKinds
  CancelKinds <- MCCancelKinds
  UnknownKinds <- MCUnknownKinds
INVARIANT OwnErrorNotDoubled
INVARIANT EveryBlockAnswered
PROPERTY QueuedNotRun
PROPERTY TurnFinishes
