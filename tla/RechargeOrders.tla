--------------------------- MODULE RechargeOrders ---------------------------
(***************************************************************************)
(* The life of a recharge order: it is created, opened at a payment        *)
(* channel, paid there by the user, and credited to the wallet when the    *)
(* payment is reported.  Three reporters race: the channel's notification, *)
(* which is repeated until it is acknowledged; the recharge page, which    *)
(* asks for the order every three seconds; and an administrator.           *)
(*                                                                         *)
(* mark_order_paid and mark_order_paid_async lock the order and then the   *)
(* wallet, so each is one step.  A session that loaded the order earlier   *)
(* keeps that copy: SELECT FOR UPDATE does not refresh it, and the unique  *)
(* constraint of the ledger is what stops the second credit.               *)
(***************************************************************************)
EXTENDS PaymentChannels, Sequences

CONSTANTS
  Users, Orders,
  OrderUser,      \* [Orders -> Users]
  OrderAmount,    \* [Orders -> Nat]
  OrderMethod,    \* [Orders -> Methods], payment_orders.payment_method
  InitialBalance, \* [Users -> Nat]
  Charges,        \* usage charges that debit the same wallets meanwhile
  ChargeUser,     \* [Charges -> Users]
  Sessions,       \* request sessions that read an order and act on it later
  GivesUp         \* the orders whose channel may stop repeating a notification

ASSUME RechargeAssumption ==
  /\ OrderUser \in [Orders -> Users] /\ OrderAmount \in [Orders -> Nat]
  /\ OrderMethod \in [Orders -> Methods] /\ ChargeUser \in [Charges -> Users]
  /\ InitialBalance \in [Users -> Nat]
  /\ GivesUp \subseteq Orders

References == Orders \cup Charges
OrderStatuses == {"absent", "pending", "paid"}
Answers == [no : ChannelNumbers, success : BOOLEAN]
Idle == [at |-> "idle"]
Copies == [at : {"query", "mark"}, order : Orders, status : OrderStatuses, no : ChannelNumbers]

VARIABLES
  status,        \* [Orders -> OrderStatuses], payment_orders.status
  channelNo,     \* [Orders -> ChannelNumbers], payment_orders.channel_order_no
  balance,       \* [Users -> Nat], wallet_accounts.balance
  ledger,        \* [Users -> sequences of rows], wallet_ledger
  paidAtChannel, \* the orders the user paid
  unacknowledged,\* payments the channel still reports
  acknowledged,  \* payments whose report the handler answered with success
  session        \* [Sessions -> Copies or Idle], the order as the session holds it

vars == <<status, channelNo, balance, ledger, paidAtChannel, unacknowledged,
          acknowledged, session>>
channelVars == <<paidAtChannel, unacknowledged, acknowledged>>
walletVars == <<balance, ledger>>

WL == INSTANCE WalletLedger WITH Amounts <- {OrderAmount[o] : o \in Orders} \cup {-1}

TypeOK ==
  /\ status \in [Orders -> OrderStatuses]
  /\ channelNo \in [Orders -> ChannelNumbers]
  /\ balance \in [Users -> Nat]
  /\ ledger \in [Users -> Seq(WL!Rows)]
  /\ paidAtChannel \subseteq Orders
  /\ unacknowledged \subseteq paidAtChannel
  /\ acknowledged \subseteq paidAtChannel
  /\ session \in [Sessions -> Copies \cup {Idle}]

Init ==
  /\ status = [o \in Orders |-> "absent"]
  /\ channelNo = [o \in Orders |-> "none"]
  /\ balance = InitialBalance
  /\ ledger = [u \in Users |-> <<>>]
  /\ paidAtChannel = {} /\ unacknowledged = {} /\ acknowledged = {}
  /\ session = [s \in Sessions |-> Idle]

-----------------------------------------------------------------------------
(* create_order: the row is committed before the channel is asked.  If the *)
(* channel refuses, the order stays pending without a channel number.      *)
CreateOrder(o) ==
  /\ status[o] = "absent"
  /\ status' = [status EXCEPT ![o] = "pending"]
  /\ UNCHANGED <<channelNo, walletVars, channelVars, session>>

(* The channel opened the order: update_payment_order_channel stores the   *)
(* order's own number until the channel reports its number.                *)
OpenAtChannel(o) ==
  /\ status[o] # "absent" /\ channelNo[o] = "none"
  /\ \E no \in Opened(OrderMethod[o]) : channelNo' = [channelNo EXCEPT ![o] = no]
  /\ UNCHANGED <<status, walletVars, channelVars, session>>

(* The user pays what the channel shows. *)
PayAtChannel(o) ==
  /\ channelNo[o] # "none" /\ o \notin paidAtChannel
  /\ paidAtChannel' = paidAtChannel \cup {o}
  /\ unacknowledged' = unacknowledged \cup {o}
  /\ UNCHANGED <<status, channelNo, walletVars, acknowledged, session>>

(* The channel reports a payment once more, or stops reporting it. *)
RepeatReport(o) ==
  /\ o \in acknowledged /\ unacknowledged' = unacknowledged \cup {o}
  /\ UNCHANGED <<status, channelNo, walletVars, paidAtChannel, acknowledged, session>>

GiveUpReport(o) ==
  /\ o \in GivesUp \cap unacknowledged
  /\ unacknowledged' = unacknowledged \ {o}
  /\ UNCHANGED <<status, channelNo, walletVars, paidAtChannel, acknowledged, session>>

-----------------------------------------------------------------------------
(* Mutant: the order's own status is trusted, without the constraint. *)
CreditTwice(o, seen) ==
  IF seen = "paid"
    THEN UNCHANGED <<status, walletVars>>
    ELSE /\ balance' = [balance EXCEPT ![OrderUser[o]] = @ + OrderAmount[o]]
         /\ ledger' = [ledger EXCEPT ![OrderUser[o]] =
              Append(@, [type |-> "recharge", ref |-> o, amount |-> OrderAmount[o],
                         after |-> balance[OrderUser[o]] + OrderAmount[o]])]
         /\ status' = [status EXCEPT ![o] = "paid"]

(* mark_order_paid with the status the session holds.  A taken reference   *)
(* makes the commit fail, and everything but that is rolled back.          *)
Credit(o, seen) ==
  IF seen = "paid" \/ WL!Posted("recharge", o)
    THEN UNCHANGED <<status, walletVars>>
    ELSE /\ balance' = [balance EXCEPT ![OrderUser[o]] = @ + OrderAmount[o]]
         /\ ledger' = [ledger EXCEPT ![OrderUser[o]] =
              Append(@, [type |-> "recharge", ref |-> o, amount |-> OrderAmount[o],
                         after |-> balance[OrderUser[o]] + OrderAmount[o]])]
         /\ status' = [status EXCEPT ![o] = "paid"]

(* Mutant: a report that brings the channel's number returns after storing it. *)
NotifyNumberOnly(o, answered) ==
  /\ o \in unacknowledged
  /\ IF channelNo[o] = "channel" THEN Credit(o, status[o])
                                 ELSE UNCHANGED <<status, walletVars>>
  /\ channelNo' = [channelNo EXCEPT ![o] = "channel"]
  /\ unacknowledged' = IF answered THEN unacknowledged \ {o} ELSE unacknowledged
  /\ acknowledged' = IF answered THEN acknowledged \cup {o} ELSE acknowledged
  /\ UNCHANGED <<paidAtChannel, session>>

(* A notification: mark_order_paid_async reads the order afresh under its  *)
(* lock.  The process may die after the commit, before the answer.         *)
Notify(o, answered) ==
  /\ o \in unacknowledged
  /\ Credit(o, status[o])
  /\ channelNo' = [channelNo EXCEPT ![o] = "channel"]
  /\ unacknowledged' = IF answered THEN unacknowledged \ {o} ELSE unacknowledged
  /\ acknowledged' = IF answered THEN acknowledged \cup {o} ELSE acknowledged
  /\ UNCHANGED <<paidAtChannel, session>>

Load(s, o, next) ==
  /\ session[s] = Idle
  /\ session' = [session EXCEPT ![s] =
                   [at |-> next, order |-> o, status |-> status[o], no |-> channelNo[o]]]
  /\ UNCHANGED <<status, channelNo, walletVars, channelVars>>

(* get_order loads the order and, while it is pending, asks the channel;   *)
(* mock_pay_order loads it and marks it paid.                              *)
PollOrder(s, o) == status[o] = "pending" /\ Load(s, o, "query")
MockPay(s, o) == status[o] # "absent" /\ Load(s, o, "mark")

(* Mutant: the success is left to the notification; only the number is kept. *)
QueryWithoutMarking(s, o, answer) ==
  /\ session[s] # Idle /\ session[s].at = "query" /\ session[s].order = o
  /\ answer \in Queried(OrderMethod[o], session[s].no, o \in paidAtChannel)
  /\ channelNo' = [channelNo EXCEPT ![o] = IF answer.no # session[s].no THEN answer.no ELSE @]
  /\ session' = [session EXCEPT ![s] = Idle]
  /\ UNCHANGED <<status, walletVars, channelVars>>

(* The channel answers the query.  A number the copy does not have is      *)
(* stored and committed, and the copy refreshed, before the order is marked. *)
QueryAnswered(s, o, answer) ==
  /\ session[s] # Idle /\ session[s].at = "query" /\ session[s].order = o
  /\ answer \in Queried(OrderMethod[o], session[s].no, o \in paidAtChannel)
  /\ channelNo' = [channelNo EXCEPT ![o] = IF answer.no # session[s].no THEN answer.no ELSE @]
  /\ session' = [session EXCEPT ![s] =
       IF ~answer.success THEN Idle
       ELSE IF answer.no # session[s].no
              THEN [@ EXCEPT !.at = "mark", !.status = status[o], !.no = answer.no]
              ELSE [@ EXCEPT !.at = "mark"]]
  /\ UNCHANGED <<status, walletVars, channelVars>>

MarkPaid(s, o) ==
  /\ session[s] # Idle /\ session[s].at = "mark" /\ session[s].order = o
  /\ Credit(o, session[s].status)
  /\ session' = [session EXCEPT ![s] = Idle]
  /\ UNCHANGED <<channelNo, channelVars>>

(* The query fails, or the process dies: the session ends. *)
EndSession(s) ==
  /\ session[s] # Idle
  /\ session' = [session EXCEPT ![s] = Idle]
  /\ UNCHANGED <<status, channelNo, walletVars, channelVars>>

(* admin_mark_paid reads the order for the first time under its lock. *)
AdminMarkPaid(o) ==
  /\ status[o] # "absent"
  /\ Credit(o, status[o])
  /\ UNCHANGED <<channelNo, channelVars, session>>

(* Mutant: the charge is not compared with the balance. *)
ChargeUncovered(c) ==
  LET u == ChargeUser[c] IN
  /\ ~WL!Posted("consume", c)
  /\ balance' = [balance EXCEPT ![u] = @ - 1]
  /\ ledger' = [ledger EXCEPT ![u] =
       Append(@, [type |-> "consume", ref |-> c, amount |-> -1, after |-> balance[u] - 1])]
  /\ UNCHANGED <<status, channelNo, channelVars, session>>

(* A call is charged to the same wallet (see UsageBilling). *)
Charge(c) ==
  LET u == ChargeUser[c] IN
  /\ ~WL!Posted("consume", c) /\ balance[u] > 0
  /\ balance' = [balance EXCEPT ![u] = @ - 1]
  /\ ledger' = [ledger EXCEPT ![u] =
       Append(@, [type |-> "consume", ref |-> c, amount |-> -1, after |-> balance[u] - 1])]
  /\ UNCHANGED <<status, channelNo, channelVars, session>>

-----------------------------------------------------------------------------
Report(o) == \E answered \in BOOLEAN : Notify(o, answered)
Query(s, o) == \E answer \in Answers : QueryAnswered(s, o, answer)

Next ==
  \/ \E o \in Orders :
       \/ CreateOrder(o) \/ OpenAtChannel(o) \/ PayAtChannel(o)
       \/ RepeatReport(o) \/ GiveUpReport(o) \/ Report(o) \/ AdminMarkPaid(o)
  \/ \E s \in Sessions :
       \/ EndSession(s)
       \/ \E o \in Orders : PollOrder(s, o) \/ MockPay(s, o) \/ Query(s, o) \/ MarkPaid(s, o)
  \/ \E c \in Charges : Charge(c)

Spec == Init /\ [][Next]_vars

(* Either the channel repeats its report until it is acknowledged, or the  *)
(* page keeps polling the order, some of its polls get through, and some   *)
(* of the answers tell of the payment.                                     *)
QuerySucceeds(s, o) ==
  \E answer \in Answers : answer.success /\ QueryAnswered(s, o, answer)
FairSpec ==
  /\ Spec
  /\ \A o \in Orders \ GivesUp : WF_vars(Notify(o, TRUE))
  /\ \A s \in Sessions, o \in GivesUp : SF_vars(PollOrder(s, o))
  /\ \A s \in Sessions, o \in Orders :
       WF_vars(Query(s, o)) /\ SF_vars(QuerySucceeds(s, o)) /\ SF_vars(MarkPaid(s, o))

-----------------------------------------------------------------------------
(* Properties.                                                             *)

CreditRows(o) == {i \in DOMAIN ledger[OrderUser[o]] :
                    /\ ledger[OrderUser[o]][i].type = "recharge"
                    /\ ledger[OrderUser[o]][i].ref = o}

(* mark_order_paid and mark_order_paid_async, called any number of times   *)
(* by reporters with stale copies: a paid order was credited exactly once, *)
(* an order that is not paid never was (the statement of                   *)
(* test_concurrent_mark_order_paid_is_idempotent).                         *)
PaidMeansCreditedOnce ==
  \A o \in Orders :
    IF status[o] = "paid" THEN \E i \in CreditRows(o) : CreditRows(o) = {i}
                          ELSE CreditRows(o) = {}

(* alipay_notify, wechat_notify, unionpay_notify: once the channel has     *)
(* been told "success" it may forget the payment, so the order is paid.    *)
AcknowledgedIsPaid == \A o \in acknowledged : status[o] = "paid"

(* Credits and charges of one wallet are postings of its abstract          *)
(* specification: no update of the balance is lost between the two.        *)
ImplementsWalletLedger == WL!Spec

(* A payment reaches the wallet ("完成支付后会自动到账"), by notification  *)
(* alone, or by polling alone when the channel gave up or never reported.  *)
PaymentCredited == \A o \in Orders : o \in paidAtChannel ~> status[o] = "paid"
=============================================================================
