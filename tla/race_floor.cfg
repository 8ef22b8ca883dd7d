SPECIFICATION Safety
CONSTANTS
  Mains = {"m1", "m2"}
  Teammates = {}
  NoOne = "no one"
  Listens <- Hooked
INVARIANT DialogIsTheFloor
CHECK_DEADLOCK FALSE
