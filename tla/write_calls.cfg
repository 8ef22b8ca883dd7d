SPECIFICATION FairSpec
CONSTANTS
  Event <- MCEvent
  Configs <- MCConfigs
  MaxLate = 1
  Transports <- MCTransports
  MaxWrite = 2
  MaxCalls = 2
INVARIANT TypeOK
INVARIANT OneInFlight
INVARIANT NobodyStranded
INVARIANT QueueBounded
INVARIANT SettledOnReturn
INVARIANT EventsAccounted
INVARIANT QueuedInOrder
PROPERTY DeliversInOrder
CHECK_DEADLOCK FALSE
PROPERTY CallsReturn
