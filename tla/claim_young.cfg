\* Implementer: no failure at all, dispatches shorter than the reclaim age.
SPECIFICATION Spec
CONSTANTS
  a = a
  b = b
  a1 = a1
  a2 = a2
  b1 = b1
  None = None
  Orchestrators <- OneOrchestrator
  Slots <- OneSlot
  Home <- HomeOneSlot
  Items <- OneItem
  Kind = "implementer"
  MaxAge = 2
  TaskTimeout = 1
  RetryAttempts = 1
  MaxStops = 0
  Hangs = FALSE
  MayFail <- NoCalls
  MayLose <- NoCalls
PROPERTIES OnlyOldWorkReclaimed
