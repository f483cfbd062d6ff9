\* One agent and its saver; two runs of it, by Run All or by two messages that
\* may overlap, one fault.
SPECIFICATION Spec
CONSTANTS
  Roles = {"analyst"}
  Savers = {s1}
  MaxTasks = 2
  MaxFaults = 1
  MaxPolls = 2
  MaxLoops = 1
  MaxSent = 2
  MaxAgents = 2
CHECK_DEADLOCK FALSE
INVARIANT TaskTruth
INVARIANT OneAnswerEach
PROPERTY RunAllEnds
PROPERTY RunsSettle
