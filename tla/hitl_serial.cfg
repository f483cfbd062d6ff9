\* Two decisions, each when the task's threads rest; nothing fails.
SPECIFICATION FairSpec
CONSTANTS
  Runner = runner
  Deciders = {d1, d2}
  Workers = {w1}
  MaxSteps = 2
  MaxFaults = 0
  Serial = TRUE
INVARIANT TablesAgreeAtRest
PROPERTY ImplementsLifecycle
