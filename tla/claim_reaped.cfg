\* Resolver: DeleteRef may fail, nothing crashes.
SPECIFICATION FairSpec
CONSTANTS
  a = a
  b = b
  a1 = a1
  a2 = a2
  b1 = b1
  None = None
  Orchestrators <- OneOrchestrator
  Slots <- OneSlot
  Home <- HomeOneSlot
  Items <- OneItem
  Kind = "resolver"
  MaxAge = 1
  TaskTimeout = 1
  RetryAttempts = 3
  MaxStops = 0
  Hangs = FALSE
  MayFail <- Deletions
  MayLose <- NoCalls
PROPERTIES AbandonedLockReaped
