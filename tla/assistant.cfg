\* Two workers of an organisation, three questions of a page or of other clients; two
\* questions in two units of time are the limit.
SPECIFICATION Spec
CONSTANTS
  Workers = {w1, w2}
  Orgs = {o1}
  Pages = {p1}
  OrgOf <- MCOrgOf
  Requests = {r1, r2, r3}
  Intents = {"tickets_by_status"}
  Limit = 2
  Window = 2
  MaxTime = 2
  MaxRestarts = 1
CHECK_DEADLOCK FALSE
INVARIANT WindowKept
INVARIANT AnsweredInTurn
PROPERTY RefusedWhenFull
PROPERTY PageSettles
