\* Two slots, one issue, no failing call.
SPECIFICATION Spec
CONSTANTS
  i1 = i1
  i2 = i2
  None = None
  Schedulers <- ImplementerAndAddresser
  Tasks <- FirstIssue
  Slots <- TwoImplementers
  Pool <- PoolTwo
  Threshold = 3
  Broken <- Nothing
  Waiting <- Nothing
  Outlive = {}
  MayFail = {}
  MaxFailures = 0
  MaxHelps = 0
INVARIANTS ContainerKeepsWorktree
