SPECIFICATION FairSpec
CONSTANTS
  Commands = {"ask", "slash", "note"}
  Notes <- MCNotes
  Hidden <- MCHidden
  Solos <- MCSolos
  MaxTurns = 2
INVARIANT TypeOK
INVARIANT GuardHeld
INVARIANT NoCommandLost
PROPERTY OwnEnd
PROPERTY UserFirst
PROPERTY CommandServed
