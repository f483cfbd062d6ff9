SPECIFICATION Spec
CONSTANTS
  Runner = runner
  Deciders = {d1}
  Workers = {w1}
  MaxSteps = 2
  MaxFaults = 1
  Serial = FALSE
INVARIANT HaltedFlowStays
