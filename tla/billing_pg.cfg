\* Two calls on two keys of one wallet, PostgreSQL, with deletion of a key.
SPECIFICATION Spec
CONSTANTS
  u1 = u1
  k1 = k1
  k2 = k2
  r1 = r1
  r2 = r2
  r3 = r3
  o1 = o1
  d1 = d1
  Users <- OneUser
  Keys <- TwoKeys
  Requests <- TwoRequests
  UserOf <- EveryKeyOfOneUser
  KeyOf <- RequestsOnTwoKeys
  Streaming = {r1}
  Metered = {}
  EstTokens <- OneTokenEach
  EstAmount <- TwoThenOne
  Usages <- SmallAndLarge
  UpstreamIds = {d1}
  UpstreamErrors = {"other"}
  InitialKeys <- TwoKeys
  LimitChoices <- OnlyUnlimited
  InitialBalance <- ThreeYuan
  Orders = {o1}
  OrderUser <- OrderOfOneUser
  OrderAmount <- OneYuanOrders
  Adjustments <- AdjustDown
  Administration = {"delete"}
INVARIANTS TypeOK ChargedOnceWhenCaptured CountersMatchUsageLogs
PROPERTIES ReservationEndsOnce ImplementsWalletLedger
\* Every request may be closed: the system may stop.
CHECK_DEADLOCK FALSE
