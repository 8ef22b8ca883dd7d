SPECIFICATION Spec
CONSTANTS
  Commands = {"ask", "tell"}
  Notes <- MCNotes
  Hidden <- MCHidden
  Solos <- MCSolos
  MaxTurns = 2
INVARIANT AlwaysCancellable
