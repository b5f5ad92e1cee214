--------------------------- MODULE PaymentChannels ---------------------------
(***************************************************************************)
(* The adapters of the three payment channels: which result each makes of  *)
(* what its gateway knows of a payment or of a refund.  The gateways, the  *)
(* signatures and the fields of the requests are left out; a set of        *)
(* results is what the call may return, a lost answer included.            *)
(***************************************************************************)
EXTENDS Integers

Methods == {"alipay", "wechat", "unionpay"}

(* payment_orders.channel_order_no: none, the order's own number, or the   *)
(* number the channel gave the payment.                                    *)
ChannelNumbers == {"none", "own", "channel"}

-----------------------------------------------------------------------------
(* create_payment: the number that is stored.  "none" is an error, after   *)
(* which the order stays as it is.  UnionPay is asked nothing: the order's *)
(* page sends the user there.                                              *)
AlipayOpened == {"own", "none"}
WechatOpened == {"own", "none"}
UnionpayOpened == {"own"}

Opened(method) ==
  CASE method = "alipay" -> AlipayOpened
    [] method = "wechat" -> WechatOpened
    [] method = "unionpay" -> UnionpayOpened

-----------------------------------------------------------------------------
(* query_payment, of an order whose stored number is no: the number and    *)
(* the success it reports.                                                 *)
Answer(no, success) == [no |-> no, success |-> success]

(* Asked by the order's number, found once the user has scanned it. *)
AlipayQueried(no, paid) ==
  {Answer(no, FALSE)} \cup
    IF paid THEN {Answer("channel", TRUE)} ELSE {Answer("channel", FALSE)}

(* Asked by the stored number, as if it were the channel's. *)
WechatQueried(no, paid) ==
  {Answer(no, FALSE)} \cup
    IF paid /\ no # "own" THEN {Answer("channel", TRUE)} ELSE {}

(* Asked by the order's number; without an answer the poll fails. *)
UnionpayQueried(no, paid) == {Answer(no, paid), Answer("channel", paid)}

Queried(method, no, paid) ==
  CASE method = "alipay" -> AlipayQueried(no, paid)
    [] method = "wechat" -> WechatQueried(no, paid)
    [] method = "unionpay" -> UnionpayQueried(no, paid)

-----------------------------------------------------------------------------
(* Refunds.  At the channel a refund is none, processing, done or closed.  *)
(* A result is "paid" (success), "slow" (status processing, which is       *)
(* looked at first), "unsent" (neither), "failing" or "unclear" (raised by *)
(* the query or by the refund).  A busy channel may answer that it is      *)
(* still processing.                                                       *)
RefundStates == {"none", "processing", "done", "closed"}

(* query_refund *)
AlipayRefundQueried(state, busy) ==
  {"unsent"} \cup (IF state = "done" THEN {"paid"} ELSE {}) \cup (IF busy THEN {"slow"} ELSE {})
WechatRefundQueried(state) ==
  {"unsent"} \cup (CASE state = "done" -> {"paid"} [] state = "processing" -> {"slow"} [] OTHER -> {})
UnionpayRefundQueried(state) == {"failing", IF state = "done" THEN "paid" ELSE "unsent"}

RefundQueried(method, state, busy) ==
  CASE method = "alipay" -> AlipayRefundQueried(state, busy)
    [] method = "wechat" -> WechatRefundQueried(state)
    [] method = "unionpay" -> UnionpayRefundQueried(state)

(* The gateway makes the refund, unless its request contradicts the order: *)
(* the amount sent to WeChat as the order's total is the refunded amount.  *)
Acceptable(method, amount, orderAmount) == method = "wechat" => amount = orderAmount

(* refund_payment, when the gateway's refund is in the state. *)
AlipayRefunded(state, busy) ==
  {"unclear"} \cup (IF state = "done" THEN {"paid"} ELSE {}) \cup (IF busy THEN {"slow"} ELSE {})
(* WeChat answers with the refund's status; any but processing is success. *)
WechatRefunded(state) ==
  {"unclear"} \cup (CASE state = "none" -> {} [] state = "processing" -> {"slow"} [] OTHER -> {"paid"})
UnionpayRefunded(state) ==
  {"unclear"} \cup (CASE state = "done" -> {"paid"} [] state = "processing" -> {"slow"} [] OTHER -> {})

Refunded(method, state, busy) ==
  CASE method = "alipay" -> AlipayRefunded(state, busy)
    [] method = "wechat" -> WechatRefunded(state)
    [] method = "unionpay" -> UnionpayRefunded(state)
=============================================================================
