SPECIFICATION Spec
CONSTANTS
  s1 = s1
  s2 = s2
  ch1 = ch1
  ch2 = ch2
  p1 = p1
  p2 = p2
  p3 = p3
  a1 = a1
  c1 = c1
  c2 = c2
  c3 = c3
  r1 = r1
  r2 = r2
  None = None
  It = It
  l1 = l1
  l2 = l2
  Merchants <- MCMerchants
  Channels = {ch1, ch2}
  Posts = {p1, p2, p3}
  Admins = {a1}
  Customers = {c1, c2, c3}
  Requests = {r1, r2}
  ChannelOf <- MCChannelOf
  AdminOf <- MCAdminOf
  ShopOf <- MCShopOf
  BotIn <- MCBotIn
  Priced <- MCPriced
  MaxVersion = 2
  Agendas <- MCAsked
  DISPLAY_K = 2
  Logs = {l1, l2}
  LlmFirst = {s1}
  DAILY_MERCHANT_CALL_LIMIT = 3
  DAILY_CUSTOMER_CALL_LIMIT = 2
  Ttl <- MCTtl
  GenTime <- MCGenTime
SYMMETRY Symmetry
CHECK_DEADLOCK FALSE
INVARIANT AnswerMeetsQuestion
