SPECIFICATION Spec
CHECK_DEADLOCK FALSE
CONSTANTS
  None = None
  Merchants = {ann, bek}
  Owner = ann
  Passwords = {p1, p2}
  Tokens = {t1, t2}
  Applicants = {ann}
  Visits = {v1, v2}
  MAX_VERIFY_ATTEMPTS = 2
  RESEND_COOLDOWN = 1
  CODE_TTL = 2
  MaxCodes = 2
  IgAccounts = {shop, studio}
  States = {s1, s2}
  Callbacks = {k1, k2}
  AgentIds = {a1}
  Bots = {b1}
  Texts = {prices, hours}
  Empty = Empty
  Saves = {w1, w2, w3}
  Templates = {price_dm}
  FlowIds = {f1, f2}
  Links = {l1, l2}
  Medias = {all, post}
  Edits = {d1, d2}
  FieldSets <- OneField
  Topics <- AllTopics
INVARIANTS
  TypeOK
  AttemptsCounted
  CodeSpentOnce
  StateUsedOnce
  TokenOfAccount
  OneMerchantPerAccount
  PageOfAccount
  ChunksFollowText
  OneCopy
  EditsKept
PROPERTY PasswordStays
