\* Two events, two items; two requests may fail.
SPECIFICATION Spec
CONSTANTS
  Events = {e1, e2}
  Items = {i1, i2}
  MaxCantidad = 2
  Stocks = {2, 3}
  MaxCalls = 3
  MaxFaults = 2
CHECK_DEADLOCK FALSE
INVARIANT NoOversell
INVARIANT ReportsExact
INVARIANT Backed
