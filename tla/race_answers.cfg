SPECIFICATION Spec
CONSTANTS
  Mains = {"m1"}
  Teammates = {"t1"}
  NoOne = "no one"
  Listens <- Racers
INVARIANT TypeOK
INVARIANT RemotesDismissed
INVARIANT DialogGone
INVARIANT SavedByWinner
INVARIANT KilledAnswered
PROPERTY PromiseKept
PROPERTY DialogAnswered
CHECK_DEADLOCK FALSE
