\* Implementer: one orchestrator with two slots, locks reclaimed under its dispatches, containers
\* that outlive their timeout, CreateRef failing or losing its answer.
SPECIFICATION FairSpec
CONSTANTS
  a = a
  b = b
  a1 = a1
  a2 = a2
  b1 = b1
  None = None
  Orchestrators <- OneOrchestrator
  Slots <- TwoSlots
  Home <- HomeTwoSlots
  Items <- OneItem
  Kind = "implementer"
  MaxAge = 1
  TaskTimeout = 1
  RetryAttempts = 1
  MaxStops = 1
  Hangs = TRUE
  MayFail <- Creations
  MayLose <- Creations
INVARIANTS OneContainer
PROPERTIES AbandonedLockReaped CandidateIsTaken
