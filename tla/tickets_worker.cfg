\* Three requests on one event loop; one failed request or crash.
SPECIFICATION FairSpec
CONSTANTS
  Callers = {c1, c2, c3}
  PatchStatuses = {"backlog", "in_progress", "done"}
  MaxFaults = 1
  OneWorker = TRUE
  None = none
INVARIANT OneExecution
PROPERTY NotesKept
PROPERTY LeavesProgress
