\* One flow's store and an append_sync beside it; pages of one row.
SPECIFICATION Spec
CONSTANTS
  Stores = {s1}
  Syncs = {c1}
  Kinds = {"flow_step"}
  Defaults = {"flow_step"}
  MaxAppends = 2
  MaxFaults = 1
  Limit = 1
  MaxRetries = 1
INVARIANT StoreOrdered
INVARIANT PagerMissesTiesOnly
INVARIANT Accounted
PROPERTY ShownKept
