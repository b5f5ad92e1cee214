\* The channel of o1, which is WeChat, gives up reporting: polling has to do.
SPECIFICATION FairSpec
CONSTANTS
  u1 = u1
  o1 = o1
  o2 = o2
  c1 = c1
  s1 = s1
  Users = {u1}
  Orders = {o1, o2}
  OrderUser <- EveryOrderOfOneUser
  OrderAmount <- OneThenTwo
  OrderMethod <- FirstByWechat
  InitialBalance <- EmptyWallet
  Charges = {c1}
  ChargeUser <- EveryChargeOfOneUser
  Sessions = {s1}
  GivesUp = {o1}

PROPERTY PaymentCredited
