SPECIFICATION Spec
CONSTANTS
  c1 = c1  c2 = c2  c3 = c3  s1 = s1
  shopA = shopA  shopB = shopB
  NoEvent = NoEvent
  Faults = {}
  Events = {c1, s1}
  Comments = {c1}
  Merchants = {shopA}
  Owner <- OneOwner
  Connected = {shopA}
  Handlers = {h1}
  Workers = {w1, w2}
  HourlyCallCap = 2
  CallsPerMatch = 2
  MaxHour = 3
  LastArrivalHour = 0
  CommentWindow = 2
  StoryWindow = 1
INVARIANTS CappedJobNotDropped
