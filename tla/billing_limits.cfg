\* Two calls on one limited key whose owner and administrator keep changing it.
SPECIFICATION Spec
CONSTANTS
  u1 = u1
  k1 = k1
  k2 = k2
  r1 = r1
  r2 = r2
  r3 = r3
  o1 = o1
  d1 = d1
  Users <- OneUser
  Keys <- OneKey
  Requests <- TwoRequests
  UserOf <- EveryKeyOfOneUser
  KeyOf <- EveryRequestOnOneKey
  Streaming = {r1}
  Metered = {}
  EstTokens <- OneTokenEach
  EstAmount <- TwoThenOne
  Usages <- SmallAndLarge
  UpstreamIds = {}
  UpstreamErrors = {"other", "quota"}
  InitialKeys = {}
  LimitChoices <- SomeLimits
  InitialBalance <- ThreeYuan
  Orders = {}
  OrderUser <- OrderOfOneUser
  OrderAmount <- OneYuanOrders
  Adjustments = {}
  Administration = {"create", "switch", "limits", "user"}
INVARIANTS CountersMatchUsageLogs LimitUsedUp
PROPERTIES ChargedWithinLimits ReopenedByEarlierCalls
\* Every request may be closed: the system may stop.
CHECK_DEADLOCK FALSE
