\* Three calls on the only key of a wallet.
SPECIFICATION FairSpec
CONSTANTS
  u1 = u1
  k1 = k1
  k2 = k2
  r1 = r1
  r2 = r2
  r3 = r3
  o1 = o1
  d1 = d1
  Users <- OneUser
  Keys <- OneKey
  Requests <- ThreeRequests
  UserOf <- EveryKeyOfOneUser
  KeyOf <- EveryRequestOnOneKey
  Streaming = {r1}
  Metered = {}
  EstTokens <- OneTokenEach
  EstAmount <- OneYuanEach
  Usages <- SmallOnly
  UpstreamIds = {}
  UpstreamErrors = {"other"}
  InitialKeys <- OneKey
  LimitChoices <- TwoRequestsOrUnlimited
  InitialBalance <- ThreeYuan
  Orders = {}
  OrderUser <- OrderOfOneUser
  OrderAmount <- OneYuanOrders
  Adjustments = {}
  Administration = {}
INVARIANTS ReservedBacksPending PendingWithinRequestLimit
PROPERTIES PendingEnds
\* Every request may be closed: the system may stop.
CHECK_DEADLOCK FALSE
