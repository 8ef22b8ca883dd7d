SPECIFICATION Spec
CONSTANTS
  Event <- MCEvent
  Configs <- RoomyConfigs
  MaxLate = 1
  Transports <- RoomyTransports
  MaxWrite = 2
  MaxCalls = 2
CHECK_DEADLOCK FALSE
INVARIANT SequentialEnqueueKeepsOrder
