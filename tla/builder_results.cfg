\* What the canvas shows of an agent that completed.
SPECIFICATION Spec
CONSTANTS
  Roles = {"analyst"}
  Savers = {s1}
  MaxTasks = 2
  MaxFaults = 1
  MaxPolls = 2
  MaxLoops = 1
  MaxSent = 1
  MaxAgents = 2
CHECK_DEADLOCK FALSE
INVARIANT ResultsTrue
