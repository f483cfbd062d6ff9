\* Four requests or lookups on two workers; one failed request or restart.
SPECIFICATION Spec
CONSTANTS
  Callers = {c1, c2, c3, c4}
  Workers = {w1, w2}
  Versions = {0}
  Default = 1
  MaxFaults = 1
SYMMETRY Symmetry
INVARIANT DeletedInactive
INVARIANT DeletedFlowUnloaded
INVARIANT FlowCurrent
