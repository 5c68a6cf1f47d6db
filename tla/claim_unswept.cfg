\* Resolver: locks that are never swept, two orchestrators with three slots, every call may fail.
SPECIFICATION Spec
CONSTANTS
  a = a
  b = b
  a1 = a1
  a2 = a2
  b1 = b1
  None = None
  Orchestrators <- TwoOrchestrators
  Slots <- TwoAndOne
  Home <- HomeTwoAndOne
  Items <- OneItem
  Kind = "resolver"
  MaxAge = 1
  TaskTimeout = 1
  RetryAttempts = 3
  MaxStops = 3
  Hangs = FALSE
  MayFail <- Calls
  MayLose <- AllButLostDeletes
INVARIANTS TypeOK MutualExclusion WorkIsLocked
PROPERTIES ImplementsWorkLock
