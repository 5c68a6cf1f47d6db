\* Implementer: two crashes or shutdowns at any step, containers that outlive their timeout, a
\* reset after each stop, one run of which fails.
SPECIFICATION SystemSpec
CONSTANTS
  a = a
  a1 = a1
  None = None
  Orchestrators <- OneOrchestrator
  Slots <- OneSlot
  Home <- HomeOneSlot
  Items <- OneItem
  Kind = "implementer"
  MaxAge = 2
  TaskTimeout = 1
  RetryAttempts = 1
  MaxStops = 2
  Hangs = TRUE
  MayFail <- NoCalls
  MayLose <- NoCalls
  ResetHost = a
  MaxAborts = 1
INVARIANTS ResetOK ResetRequeues
PROPERTIES ResetUnsticks
