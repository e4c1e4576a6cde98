SPECIFICATION Spec
CONSTANTS
  c1 = c1  c2 = c2  c3 = c3  s1 = s1
  shopA = shopA  shopB = shopB
  NoEvent = NoEvent
  Faults = {"web", "raise", "crash"}
  Events = {c1, c2, s1}
  Comments = {c1, c2}
  Merchants = {shopA, shopB}
  Owner <- TwoOwners
  Connected = {shopA}
  Handlers = {h1}
  Workers = {w1, w2}
  HourlyCallCap = 2
  CallsPerMatch = 2
  MaxHour = 2
  LastArrivalHour = 0
  CommentWindow = 1
  StoryWindow = 0
SYMMETRY Symmetry
INVARIANTS TypeOK AtMostOneDM StatusTellsTruth DeliveryInv
PROPERTIES SettledIsFinal ImplementsDelivery
