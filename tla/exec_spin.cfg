SPECIFICATION FairSpec
CONSTANTS
  MaxTools = 2
  MaxAttempts = 1
  Kinds = {"edit", "ghost"}
  SafeKinds <- MCSafeKinds
  BashKinds <- MCBashKinds
  CancelKinds <- MCCancelKinds
  UnknownKinds <- MCUnknownKinds
PROPERTY TurnFinishes
