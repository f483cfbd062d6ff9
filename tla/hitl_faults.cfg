\* Two decisions at any time, through either interface; one fault or crash.
SPECIFICATION Spec
CONSTANTS
  Runner = runner
  Deciders = {d1, d2}
  Workers = {w1, w2}
  MaxSteps = 2
  MaxFaults = 1
  Serial = FALSE
SYMMETRY Symmetry
INVARIANT ApprovalGate
INVARIANT DecisionLoggedFirst
INVARIANT ApprovalHasSnapshot
INVARIANT OneDecisionPerWorker
PROPERTY LateDecisionRefused
