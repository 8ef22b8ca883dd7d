SPECIFICATION Spec
CONSTANTS
  Letters = {"lead", "peer"}
  Leaders = {"lead"}
  Protocol = {"lead"}
  Shutdowns = {}
  Mortal = {"peer"}
  Nobody = "nobody"
  Setups <- Kinds
INVARIANT TypeOK
INVARIANT KeptInFile
INVARIANT LostOnlyIfOvertaken
INVARIANT RunnerOnce
PROPERTY LetterServed
CHECK_DEADLOCK FALSE
