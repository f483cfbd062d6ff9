\* Two tenants, one of the suffixed names; two bundles waiting, two faults.
SPECIFICATION WorkflowSpec
CONSTANTS
  Orgs = {o1, o2}
  Wanted = wanted
  Suffixed = {suffixed}
  Definitions <- MCDefinitions
  Rules <- MCRules
  Text = Text
  Cyclic <- HasCycle
  NoRow = NoRow
  MaxBundles = 2
  MaxWorkflowFaults = 2
SYMMETRY Symmetric
CHECK_DEADLOCK FALSE
INVARIANT CacheCurrent
