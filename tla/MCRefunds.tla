----------------------------- MODULE MCRefunds -----------------------------
(***************************************************************************)
(* Small instances of Refunds for TLC.  Two orders of different size make  *)
(* a request of two items, two of the same size are ordered by their       *)
(* payment; a unit is half a cent, so that a charge leaves a balance that  *)
(* is not refundable to the last unit.                                     *)
(***************************************************************************)
EXTENDS Refunds, TLC

CONSTANTS u1, o1, o2, q1, q2, s1, s2, a1, a2, m1, m2

FourAndTwo == [o \in Orders |-> IF o = o1 THEN 4 ELSE 2]
FourEach == [o \in Orders |-> 4]
FirstThenSecond == [o \in Orders |-> IF o = o1 THEN 1 ELSE 2]
WechatAndUnionpay == [o \in Orders |-> IF o = o1 THEN "wechat" ELSE "unionpay"]
UnionpayAndWechat == [o \in Orders |-> IF o = o1 THEN "unionpay" ELSE "wechat"]
AlipayAndUnionpay == [o \in Orders |-> IF o = o1 THEN "alipay" ELSE "unionpay"]
OneUnitCharged == [m \in Postings |-> -1]
AnyAdmin == Permutations(Admins)
=============================================================================
