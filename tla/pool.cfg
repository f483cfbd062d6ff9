\* Two runs of a tool call each, whose callers make two attempts; two failures open the
\* circuit, some were before.
SPECIFICATION CrewSpec
CONSTANTS
  Callers = {c1, c2}
  Threshold = 2
  MaxAttempts = 2
  MaxCalls = 1
INVARIANT OneAdapterAlone
INVARIANT TracedRight
PROPERTY CallsEnd
PROPERTY CircuitCloses
