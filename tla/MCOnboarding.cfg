SPECIFICATION Spec
CONSTANTS
  u1 = u1
  u2 = u2
  l1 = l1
  Users = {u1, u2}
  Requests = {r1, r2}
  Links = {l1}
  Bots = {b1, b2}
  Verticals <- MCVerticals
  Other = "other"
  TopicsOf <- MCTopicsOf
  Methods = {"cash"}
  Targets <- MCTargets
  Casts <- MCCasts
  MaxTaps = 1
  MaxLate = 1
  None = None
SYMMETRY Symmetry
CHECK_DEADLOCK FALSE
INVARIANT TypeOK
INVARIANT DoneIsComplete
INVARIANT OneConnector
INVARIANT PickedTopicsAnswered
INVARIANT FaqRowsNotDoubled
PROPERTY AdminSessionBound
