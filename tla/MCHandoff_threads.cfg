SPECIFICATION Spec
CONSTANTS
  Conversations = {k1, k2}
  Admins = {a1, a2}
  Requests = {r1, r2}
  Threads = {t1, t2, t3}
  NoConversation = NoConversation
  NoAdmin = NoAdmin
  HandoffTimeout = 1
  MaxTime = 1
  MaxMessage = 1
SYMMETRY Symmetry
INVARIANTS TypeOK RoutingInv RepliesReachTheirCustomer
PROPERTIES EscalationNotLost ImplementsDesk
