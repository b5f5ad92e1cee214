\* One request, one of two administrators repeats approvals; rejections and a charge.
SPECIFICATION FairSpec
CONSTANTS
  u1 = u1
  o1 = o1
  o2 = o2
  q1 = q1
  q2 = q2
  s1 = s1
  s2 = s2
  a1 = a1
  a2 = a2
  m1 = m1
  m2 = m2
  Owner = u1
  Orders = {o1, o2}
  OrderAmount <- FourAndTwo
  PaidAt <- FirstThenSecond
  OrderMethod <- AlipayAndUnionpay
  Slow = {}
  Closes = {}
  Cent = 2
  InitialBalance = 6
  Refunds = {q1}
  Creators = {s1}
  Admins = {a1, a2}
  Persistent = {a1}
  MayReject = TRUE
  Postings = {m1}
  PostingAmount <- OneUnitCharged
INVARIANTS ItemsDebitedOnce
PROPERTIES PaidBackIsDebited
\* Every request may be closed: the system may stop.
CHECK_DEADLOCK FALSE
