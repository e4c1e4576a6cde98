SPECIFICATION Spec
CONSTANTS
  Conversations = {k1}
  Admins = {a1}
  Requests = {r1}
  Threads = {t1, t2}
  NoConversation = NoConversation
  NoAdmin = NoAdmin
  HandoffTimeout = 1
  MaxTime = 2
  MaxMessage = 3

INVARIANTS EscalatedHasThread
