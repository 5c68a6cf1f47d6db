\* Two issues, the first of which always fails, and a pull request to address share one slot.
SPECIFICATION FairSpec
CONSTANTS
  i1 = i1
  i2 = i2
  None = None
  Schedulers <- ImplementerAndAddresser
  Tasks <- TwoIssuesAndPR
  Slots <- OneImplementer
  Pool <- PoolOne
  Threshold = 2
  Broken <- FirstIssue
  Waiting <- SecondIssue
  Outlive = {}
  MayFail = {"quarantineLabel", "release"}
  MaxFailures = 1
  MaxHelps = 1
INVARIANTS TypeOK BoundedRetries
PROPERTIES QueuedTaskGetsSlot BrokenTaskIsQuarantined
