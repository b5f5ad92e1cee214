\* Two requests one after the other, two administrators, slow channels, one closing refunds, no rejections.
SPECIFICATION Spec
CONSTANTS
  u1 = u1
  o1 = o1
  o2 = o2
  q1 = q1
  q2 = q2
  s1 = s1
  s2 = s2
  a1 = a1
  a2 = a2
  m1 = m1
  m2 = m2
  Owner = u1
  Orders = {o1, o2}
  OrderAmount <- FourEach
  PaidAt <- FirstThenSecond
  OrderMethod <- UnionpayAndWechat
  Slow = {o1, o2}
  Closes = {o2}
  Cent = 2
  InitialBalance = 6
  Refunds = {q1, q2}
  Creators = {s1}
  Admins = {a1, a2}
  Persistent = {}
  MayReject = FALSE
  Postings = {}
  PostingAmount <- OneUnitCharged
INVARIANTS TypeOK DebitedButForClosed  RefundedWithinOrders
SYMMETRY AnyAdmin
\* Every request may be closed: the system may stop.
CHECK_DEADLOCK FALSE
