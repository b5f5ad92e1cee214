------------------------ MODULE RechargeOrdersProofs ------------------------
(***************************************************************************)
(* Theorems about recharge orders for any number of users, orders and      *)
(* sessions: a payment is credited once and an acknowledged one is paid.   *)
(* The argument: only Credit writes recharge rows and the paid status; it  *)
(* writes both or neither, and a second credit meets the unique reference. *)
(***************************************************************************)
EXTENDS RechargeOrders, TLAPS

LEMMA Types ==
  ASSUME NEW o \in Orders
  PROVE  /\ OrderUser[o] \in Users /\ OrderAmount[o] \in Nat
         /\ \A n \in Nat : [type |-> "recharge", ref |-> o, amount |-> OrderAmount[o],
                            after |-> n] \in WL!Rows
BY RechargeAssumption DEF WL!Rows, WL!RowTypes, References

(* What a credit does: nothing, or the row, the balance and the status.    *)
LEMMA CreditSteps ==
  ASSUME TypeOK, NEW o \in Orders, NEW seen, Credit(o, seen)
  PROVE  \/ (seen = "paid" \/ WL!Posted("recharge", o)) /\ UNCHANGED <<status, walletVars>>
         \/ /\ ~WL!Posted("recharge", o)
            /\ status' = [status EXCEPT ![o] = "paid"]
            /\ balance' = [balance EXCEPT ![OrderUser[o]] =
                             balance[OrderUser[o]] + OrderAmount[o]]
            /\ \E row \in WL!Rows :
                 /\ row.type = "recharge" /\ row.ref = o
                 /\ row.amount = OrderAmount[o]
                 /\ row.after = balance[OrderUser[o]] + OrderAmount[o]
                 /\ ledger' = [ledger EXCEPT ![OrderUser[o]] =
                                 Append(ledger[OrderUser[o]], row)]
<1> DEFINE after == balance[OrderUser[o]] + OrderAmount[o]
           row == [type |-> "recharge", ref |-> o, amount |-> OrderAmount[o], after |-> after]
<1>1. row \in WL!Rows
  <2>1. after \in Nat
    BY Types DEF TypeOK
  <2>2. QED BY <2>1, Types
<1>2. row.type = "recharge" /\ row.ref = o /\ row.amount = OrderAmount[o] /\ row.after = after
  OBVIOUS
<1>3. CASE seen = "paid" \/ WL!Posted("recharge", o)
  BY <1>3 DEF Credit
<1>4. CASE ~(seen = "paid" \/ WL!Posted("recharge", o))
  <2>1. /\ ledger' = [ledger EXCEPT ![OrderUser[o]] = Append(ledger[OrderUser[o]], row)]
        /\ balance' = [balance EXCEPT ![OrderUser[o]] = after]
        /\ status' = [status EXCEPT ![o] = "paid"]
    BY <1>4, Zenon DEF Credit
  <2> HIDE DEF row
  <2>2. QED BY <1>1, <1>2, <1>4, <2>1
<1>5. QED BY <1>3, <1>4

LEMMA CreditType ==
  ASSUME TypeOK, NEW o \in Orders, NEW seen, Credit(o, seen)
  PROVE  /\ status' \in [Orders -> OrderStatuses]
         /\ balance' \in [Users -> Nat]
         /\ ledger' \in [Users -> Seq(WL!Rows)]
<1>1. /\ status \in [Orders -> OrderStatuses] /\ balance \in [Users -> Nat]
      /\ ledger \in [Users -> Seq(WL!Rows)]
  BY DEF TypeOK
<1>2. OrderUser[o] \in Users /\ balance[OrderUser[o]] + OrderAmount[o] \in Nat
  BY <1>1, Types
<1>3. \A row \in WL!Rows : Append(ledger[OrderUser[o]], row) \in Seq(WL!Rows)
  BY <1>1, <1>2
<1>4. CASE UNCHANGED <<status, walletVars>>
  BY <1>1, <1>4 DEF walletVars
<1>5. ASSUME NEW row \in WL!Rows,
             status' = [status EXCEPT ![o] = "paid"],
             balance' = [balance EXCEPT ![OrderUser[o]] = balance[OrderUser[o]] + OrderAmount[o]],
             ledger' = [ledger EXCEPT ![OrderUser[o]] = Append(ledger[OrderUser[o]], row)]
      PROVE  /\ status' \in [Orders -> OrderStatuses]
             /\ balance' \in [Users -> Nat]
             /\ ledger' \in [Users -> Seq(WL!Rows)]
  BY <1>1, <1>2, <1>3, <1>5 DEF OrderStatuses
<1>6. QED BY <1>4, <1>5, CreditSteps

LEMMA ChargeType ==
  ASSUME TypeOK, NEW c \in Charges, Charge(c)
  PROVE  TypeOK'
<1> DEFINE u == ChargeUser[c]
           row == [type |-> "consume", ref |-> c, amount |-> -1, after |-> balance[u] - 1]
<1>1. u \in Users /\ balance \in [Users -> Nat] /\ ledger \in [Users -> Seq(WL!Rows)]
  BY RechargeAssumption DEF TypeOK
<1>2. balance[u] - 1 \in Nat
  BY <1>1 DEF Charge
<1>3. row \in WL!Rows
  BY <1>2 DEF WL!Rows, WL!RowTypes, References
<1>4. ledger' = [ledger EXCEPT ![u] = Append(ledger[u], row)]
      /\ balance' = [balance EXCEPT ![u] = balance[u] - 1]
  BY DEF Charge
<1> HIDE DEF row
<1>5. Append(ledger[u], row) \in Seq(WL!Rows)
  BY <1>1, <1>3
<1>6. balance' \in [Users -> Nat] /\ ledger' \in [Users -> Seq(WL!Rows)]
  BY <1>1, <1>2, <1>4, <1>5
<1>7. UNCHANGED <<status, channelNo, channelVars, session>>
  BY DEF Charge
<1>8. QED BY <1>6, <1>7 DEF TypeOK, channelVars

LEMMA SessionType ==
  ASSUME TypeOK, NEW s \in Sessions,
         \/ EndSession(s)
         \/ \E o \in Orders : PollOrder(s, o) \/ MockPay(s, o) \/ Query(s, o) \/ MarkPaid(s, o)
  PROVE  TypeOK'
<1>1. /\ session \in [Sessions -> Copies \cup {Idle}] /\ status \in [Orders -> OrderStatuses]
      /\ channelNo \in [Orders -> ChannelNumbers]
  BY DEF TypeOK
<1>2. CASE EndSession(s)
  BY <1>1, <1>2 DEF EndSession, TypeOK, walletVars, channelVars
<1>3. ASSUME NEW o \in Orders, NEW next \in {"query", "mark"}, Load(s, o, next) PROVE TypeOK'
  <2>1. [at |-> next, order |-> o, status |-> status[o], no |-> channelNo[o]] \in Copies
    BY <1>1 DEF Copies
  <2>2. session' \in [Sessions -> Copies \cup {Idle}]
    BY <1>1, <1>3, <2>1, Zenon DEF Load
  <2>3. QED BY <1>3, <2>2 DEF Load, TypeOK, walletVars, channelVars
<1>4. ASSUME NEW o \in Orders, NEW answer \in Answers, QueryAnswered(s, o, answer)
      PROVE  TypeOK'
  <2>1. session[s] \in Copies
    BY <1>1, <1>4 DEF QueryAnswered
  <2>2. /\ [session[s] EXCEPT !.at = "mark"] \in Copies
        /\ [session[s] EXCEPT !.at = "mark", !.status = status[o], !.no = answer.no] \in Copies
    BY <1>1, <1>4, <2>1 DEF Copies, Answers
  <2>3. session' \in [Sessions -> Copies \cup {Idle}]
    BY <1>1, <1>4, <2>2, Zenon DEF QueryAnswered
  <2>4. channelNo' \in [Orders -> ChannelNumbers]
    BY <1>1, <1>4 DEF QueryAnswered, Answers
  <2>5. UNCHANGED <<status, walletVars, channelVars>>
    BY <1>4 DEF QueryAnswered
  <2>6. QED BY <2>3, <2>4, <2>5 DEF TypeOK, walletVars, channelVars
<1>5. ASSUME NEW o \in Orders, MarkPaid(s, o) PROVE TypeOK'
  <2>1. /\ status' \in [Orders -> OrderStatuses]
        /\ balance' \in [Users -> Nat] /\ ledger' \in [Users -> Seq(WL!Rows)]
    BY <1>5, CreditType DEF MarkPaid
  <2>2. session' \in [Sessions -> Copies \cup {Idle}]
    BY <1>1, <1>5 DEF MarkPaid
  <2>3. UNCHANGED <<channelNo, channelVars>>
    BY <1>5 DEF MarkPaid
  <2>4. QED BY <2>1, <2>2, <2>3 DEF TypeOK, channelVars
<1>6. QED BY <1>2, <1>3, <1>4, <1>5 DEF PollOrder, MockPay, Query

LEMMA ReportType ==
  ASSUME TypeOK, NEW o \in Orders,
         \/ CreateOrder(o) \/ OpenAtChannel(o) \/ PayAtChannel(o)
         \/ RepeatReport(o) \/ GiveUpReport(o) \/ Report(o) \/ AdminMarkPaid(o)
  PROVE  TypeOK'
<1>1. CASE CreateOrder(o)
  BY <1>1 DEF CreateOrder, TypeOK, OrderStatuses, walletVars, channelVars
<1>2. CASE OpenAtChannel(o)
  <2>1. Opened(OrderMethod[o]) \subseteq ChannelNumbers
    BY RechargeAssumption DEF Opened, AlipayOpened, WechatOpened, UnionpayOpened,
                              Methods, ChannelNumbers
  <2>2. QED BY <1>2, <2>1 DEF OpenAtChannel, TypeOK, walletVars, channelVars
<1>3. CASE PayAtChannel(o) \/ RepeatReport(o) \/ GiveUpReport(o)
  BY <1>3 DEF PayAtChannel, RepeatReport, GiveUpReport, TypeOK, walletVars
<1>4. ASSUME Credit(o, status[o]), channelNo' \in [Orders -> ChannelNumbers],
             unacknowledged' \subseteq paidAtChannel, acknowledged' \subseteq paidAtChannel,
             UNCHANGED <<paidAtChannel, session>>
      PROVE  TypeOK'
  BY <1>4, CreditType DEF TypeOK
<1>5. CASE Report(o)
  BY <1>4, <1>5, Zenon DEF Report, Notify, TypeOK, ChannelNumbers
<1>6. CASE AdminMarkPaid(o)
  BY <1>4, <1>6 DEF AdminMarkPaid, TypeOK, channelVars
<1>7. QED BY <1>1, <1>2, <1>3, <1>5, <1>6

(* Rows and copies stay well formed, and reports are only of payments.     *)
THEOREM TypeCorrect == Spec => []TypeOK
<1>1. Init => TypeOK
  BY RechargeAssumption DEF Init, TypeOK, OrderStatuses, ChannelNumbers
<1>2. TypeOK /\ [Next]_vars => TypeOK'
  <2> SUFFICES ASSUME TypeOK, [Next]_vars PROVE TypeOK'
    OBVIOUS
  <2>1. CASE UNCHANGED vars
    BY <2>1 DEF vars, TypeOK
  <2>2. QED BY <2>1, ReportType, SessionType, ChargeType DEF Next
<1>3. QED BY <1>1, <1>2, PTL DEF Spec

-----------------------------------------------------------------------------
(* The wallet sees one posting, or nothing, in every step.                 *)
THEOREM WalletRefinement == Spec => ImplementsWalletLedger
<1>1. Init => WL!Init
  BY DEF Init, WL!Init
<1>2. TypeOK /\ [Next]_vars => WL!Next \/ UNCHANGED WL!walletVars
  <2> SUFFICES ASSUME TypeOK, [Next]_vars PROVE WL!Next \/ UNCHANGED WL!walletVars
    OBVIOUS
  <2>1. ASSUME NEW o \in Orders, NEW seen, Credit(o, seen)
        PROVE  WL!Next \/ UNCHANGED WL!walletVars
    <3>1. CASE seen = "paid" \/ WL!Posted("recharge", o)
      BY <2>1, <3>1 DEF Credit, walletVars, WL!walletVars
    <3>2. CASE ~(seen = "paid" \/ WL!Posted("recharge", o))
      <4>1. balance[OrderUser[o]] + OrderAmount[o] >= 0
        BY Types DEF TypeOK
      <4>2. WL!Post(OrderUser[o], "recharge", o, OrderAmount[o])
        BY <2>1, <3>2, <4>1 DEF Credit, WL!Post
      <4>3. QED BY <4>2, Types DEF WL!Next, WL!RowTypes, References
    <3>3. QED BY <3>1, <3>2
  <2>2. ASSUME NEW c \in Charges, Charge(c) PROVE WL!Next
    <3>1. balance[ChargeUser[c]] + -1 = balance[ChargeUser[c]] - 1
          /\ balance[ChargeUser[c]] + -1 >= 0
      BY <2>2, RechargeAssumption DEF TypeOK, Charge
    <3>2. WL!Post(ChargeUser[c], "consume", c, -1)
      BY <2>2, <3>1 DEF Charge, WL!Post
    <3>3. QED BY <3>2, RechargeAssumption DEF WL!Next, WL!RowTypes, References
  <2>3. CASE UNCHANGED walletVars
    BY <2>3 DEF walletVars, WL!walletVars
  <2>4. UNCHANGED vars => UNCHANGED walletVars
    BY DEF vars, walletVars
  <2>5. ASSUME NEW o \in Orders,
               CreateOrder(o) \/ OpenAtChannel(o) \/ PayAtChannel(o)
               \/ RepeatReport(o) \/ GiveUpReport(o)
        PROVE  UNCHANGED walletVars
    BY <2>5 DEF CreateOrder, OpenAtChannel, PayAtChannel, RepeatReport, GiveUpReport
  <2>6. ASSUME NEW s \in Sessions, NEW o \in Orders,
               EndSession(s) \/ PollOrder(s, o) \/ MockPay(s, o) \/ Query(s, o)
        PROVE  UNCHANGED walletVars
    BY <2>6 DEF EndSession, PollOrder, MockPay, Load, Query, QueryAnswered
  <2>7. ASSUME NEW o \in Orders, Report(o) \/ AdminMarkPaid(o) PROVE \E seen : Credit(o, seen)
    BY <2>7 DEF Report, Notify, AdminMarkPaid
  <2>8. ASSUME NEW s \in Sessions, NEW o \in Orders, MarkPaid(s, o) PROVE \E seen : Credit(o, seen)
    BY <2>8 DEF MarkPaid
  <2>9. ASSUME NEW s \in Sessions, EndSession(s) PROVE UNCHANGED walletVars
    BY <2>9 DEF EndSession
  <2>10. QED BY <2>1, <2>2, <2>3, <2>4, <2>5, <2>6, <2>7, <2>8, <2>9 DEF Next
<1>3. QED BY <1>1, <1>2, TypeCorrect, PTL DEF Spec, ImplementsWalletLedger, WL!Spec

-----------------------------------------------------------------------------
(* A recharge row stands in the ledger of its order's user: the induction  *)
(* needs it because the constraint looks at the rows of every user.        *)
CreditedInPlace ==
  \A u \in Users : \A i \in DOMAIN ledger[u] :
    ledger[u][i].type = "recharge" =>
      ledger[u][i].ref \in Orders /\ OrderUser[ledger[u][i].ref] = u

Credited == CreditedInPlace /\ PaidMeansCreditedOnce

LEMMA Appended ==
  ASSUME TypeOK, NEW u \in Users, NEW row \in WL!Rows,
         ledger' = [ledger EXCEPT ![u] = Append(ledger[u], row)]
  PROVE  /\ \A v \in Users \ {u} : ledger'[v] = ledger[v]
         /\ DOMAIN ledger'[u] = DOMAIN ledger[u] \cup {Len(ledger[u]) + 1}
         /\ Len(ledger[u]) + 1 \notin DOMAIN ledger[u]
         /\ \A i \in DOMAIN ledger[u] : ledger'[u][i] = ledger[u][i]
         /\ ledger'[u][Len(ledger[u]) + 1] = row
<1>1. ledger \in [Users -> Seq(WL!Rows)] /\ ledger[u] \in Seq(WL!Rows)
  BY DEF TypeOK
<1>2. /\ DOMAIN Append(ledger[u], row) = 1 .. Len(ledger[u]) + 1
      /\ DOMAIN ledger[u] = 1 .. Len(ledger[u])
      /\ Len(ledger[u]) \in Nat
      /\ \A i \in 1 .. Len(ledger[u]) : Append(ledger[u], row)[i] = ledger[u][i]
      /\ Append(ledger[u], row)[Len(ledger[u]) + 1] = row
  BY <1>1
<1>3. /\ ledger'[u] = Append(ledger[u], row)
      /\ \A v \in Users \ {u} : ledger'[v] = ledger[v]
  BY <1>1
<1>4. QED BY <1>2, <1>3

(* A row is posted with its order's status, or the status was paid before. *)
LEMMA CreditKeeps ==
  ASSUME TypeOK, Credited, NEW o \in Orders, NEW seen, Credit(o, seen)
  PROVE  Credited'
<1> DEFINE u == OrderUser[o]
           n == Len(ledger[u]) + 1
<1>1. CASE UNCHANGED <<status, walletVars>>
  BY <1>1 DEF walletVars, Credited, CreditedInPlace, PaidMeansCreditedOnce, CreditRows
<1>2. ASSUME NEW row \in WL!Rows, ~WL!Posted("recharge", o),
             row.type = "recharge", row.ref = o,
             status' = [status EXCEPT ![o] = "paid"],
             ledger' = [ledger EXCEPT ![u] = Append(ledger[u], row)]
      PROVE  Credited'
  <2>1. u \in Users
    BY Types
  <2>2. /\ \A v \in Users \ {u} : ledger'[v] = ledger[v]
        /\ DOMAIN ledger'[u] = DOMAIN ledger[u] \cup {n}
        /\ n \notin DOMAIN ledger[u]
        /\ \A i \in DOMAIN ledger[u] : ledger'[u][i] = ledger[u][i]
        /\ ledger'[u][n] = row
    BY <1>2, <2>1, Appended
  <2> HIDE DEF n
  <2>3. CreditedInPlace'
    BY <1>2, <2>1, <2>2 DEF Credited, CreditedInPlace
  <2>4. CreditRows(o)' = {n}
    <3>1. \A i \in DOMAIN ledger[u] : ~(ledger[u][i].type = "recharge" /\ ledger[u][i].ref = o)
      BY <1>2, <2>1 DEF WL!Posted
    <3>2. QED BY <1>2, <2>2, <3>1 DEF CreditRows
  <2>5. ASSUME NEW p \in Orders, p # o
        PROVE  CreditRows(p)' = CreditRows(p) /\ status'[p] = status[p]
    BY <1>2, <2>1, <2>2, <2>5, Types DEF CreditRows, TypeOK
  <2>6. status'[o] = "paid"
    BY <1>2 DEF TypeOK
  <2>7. PaidMeansCreditedOnce'
    BY <2>4, <2>5, <2>6 DEF Credited, PaidMeansCreditedOnce
  <2>8. QED BY <2>3, <2>7 DEF Credited
<1>3. QED BY <1>1, <1>2, CreditSteps

(* Other steps append no recharge row and make no order paid. *)
LEMMA ChargeKeeps ==
  ASSUME TypeOK, Credited, NEW c \in Charges, Charge(c)
  PROVE  Credited'
<1> DEFINE u == ChargeUser[c]
           n == Len(ledger[u]) + 1
           row == [type |-> "consume", ref |-> c, amount |-> -1, after |-> balance[u] - 1]
<1>1. u \in Users /\ balance[u] - 1 \in Nat
  BY RechargeAssumption DEF TypeOK, Charge
<1>2. row \in WL!Rows
  BY <1>1 DEF WL!Rows, WL!RowTypes, References
<1>3. ledger' = [ledger EXCEPT ![u] = Append(ledger[u], row)] /\ status' = status
  BY DEF Charge
<1>4. row.type = "consume"
  OBVIOUS
<1> HIDE DEF row
<1>5. /\ \A v \in Users \ {u} : ledger'[v] = ledger[v]
      /\ DOMAIN ledger'[u] = DOMAIN ledger[u] \cup {n}
      /\ \A i \in DOMAIN ledger[u] : ledger'[u][i] = ledger[u][i]
      /\ ledger'[u][n] = row
  BY <1>1, <1>2, <1>3, Appended
<1> HIDE DEF n
<1>6. CreditedInPlace'
  BY <1>1, <1>4, <1>5 DEF Credited, CreditedInPlace
<1>7. \A o \in Orders : CreditRows(o)' = CreditRows(o)
  BY <1>1, <1>4, <1>5, Types DEF CreditRows
<1>8. QED BY <1>3, <1>6, <1>7 DEF Credited, PaidMeansCreditedOnce

(* Every step but a credit and a charge. *)
LEMMA OtherSteps ==
  ASSUME TypeOK, [Next]_vars
  PROVE  \/ \E o \in Orders, seen \in OrderStatuses : Credit(o, seen)
         \/ \E c \in Charges : Charge(c)
         \/ /\ UNCHANGED ledger
            /\ \A o \in Orders : status'[o] = "paid" <=> status[o] = "paid"
<1>1. \A s \in Sessions : session[s] # Idle => session[s].status \in OrderStatuses
  BY DEF TypeOK, Copies
<1>2. ASSUME NEW o \in Orders, Report(o) \/ AdminMarkPaid(o)
      PROVE  \E seen \in OrderStatuses : Credit(o, seen)
  BY <1>2 DEF Report, Notify, AdminMarkPaid, TypeOK
<1>3. ASSUME NEW s \in Sessions, NEW o \in Orders, MarkPaid(s, o)
      PROVE  \E seen \in OrderStatuses : Credit(o, seen)
  BY <1>1, <1>3 DEF MarkPaid
<1>4. ASSUME NEW o \in Orders, CreateOrder(o)
      PROVE  /\ UNCHANGED ledger
             /\ \A p \in Orders : status'[p] = "paid" <=> status[p] = "paid"
  <2>1. UNCHANGED ledger
    BY <1>4 DEF CreateOrder, walletVars
  <2>2. status[o] = "absent" /\ status' = [status EXCEPT ![o] = "pending"]
    BY <1>4 DEF CreateOrder
  <2>3. status \in [Orders -> OrderStatuses]
    BY DEF TypeOK
  <2>4. QED BY <2>1, <2>2, <2>3
<1>5. ASSUME NEW o \in Orders,
             OpenAtChannel(o) \/ PayAtChannel(o) \/ RepeatReport(o) \/ GiveUpReport(o)
      PROVE  UNCHANGED <<status, ledger>>
  BY <1>5 DEF OpenAtChannel, PayAtChannel, RepeatReport, GiveUpReport, walletVars
<1>6. ASSUME NEW s \in Sessions, NEW o \in Orders,
             PollOrder(s, o) \/ MockPay(s, o) \/ Query(s, o)
      PROVE  UNCHANGED <<status, ledger>>
  BY <1>6 DEF PollOrder, MockPay, Load, Query, QueryAnswered, walletVars
<1>7. ASSUME NEW s \in Sessions, EndSession(s) PROVE UNCHANGED <<status, ledger>>
  BY <1>7 DEF EndSession, walletVars
<1>8. CASE UNCHANGED <<status, ledger>>
  BY <1>8
<1>9. CASE UNCHANGED vars
  BY <1>8, <1>9 DEF vars
<1>10. ASSUME Next
       PROVE  \/ \E o \in Orders, seen \in OrderStatuses : Credit(o, seen)
              \/ \E c \in Charges : Charge(c)
              \/ \E o \in Orders : CreateOrder(o)
              \/ UNCHANGED <<status, ledger>>
  <2>1. CASE \E o \in Orders :
               \/ CreateOrder(o) \/ OpenAtChannel(o) \/ PayAtChannel(o)
               \/ RepeatReport(o) \/ GiveUpReport(o) \/ Report(o) \/ AdminMarkPaid(o)
    BY <1>2, <1>5, <2>1
  <2>2. CASE \E s \in Sessions :
               \/ EndSession(s)
               \/ \E o \in Orders :
                    PollOrder(s, o) \/ MockPay(s, o) \/ Query(s, o) \/ MarkPaid(s, o)
    BY <1>3, <1>6, <1>7, <2>2
  <2>3. QED BY <1>10, <2>1, <2>2 DEF Next
<1>11. QED BY <1>4, <1>8, <1>9, <1>10

LEMMA CreditedHolds == Spec => []Credited
<1>1. Init => Credited
  BY RechargeAssumption DEF Init, Credited, CreditedInPlace, PaidMeansCreditedOnce, CreditRows
<1>2. TypeOK /\ Credited /\ [Next]_vars => Credited'
  <2> SUFFICES ASSUME TypeOK, Credited, [Next]_vars PROVE Credited'
    OBVIOUS
  <2>1. CASE \E o \in Orders, seen \in OrderStatuses : Credit(o, seen)
    BY <2>1, CreditKeeps
  <2>2. CASE \E c \in Charges : Charge(c)
    BY <2>2, ChargeKeeps
  <2>3. ASSUME UNCHANGED ledger,
               \A o \in Orders : status'[o] = "paid" <=> status[o] = "paid"
        PROVE  Credited'
    <3>1. CreditedInPlace' /\ \A o \in Orders : CreditRows(o)' = CreditRows(o)
      BY <2>3 DEF Credited, CreditedInPlace, CreditRows
    <3>2. QED BY <2>3, <3>1 DEF Credited, PaidMeansCreditedOnce
  <2>4. QED BY <2>1, <2>2, <2>3, OtherSteps
<1>3. QED BY <1>1, <1>2, TypeCorrect, PTL DEF Spec

(* A paid order has exactly one recharge row, any other order has none,    *)
(* however many reporters credit it from whatever copy of the order.       *)
THEOREM CreditedOnce == Spec => []PaidMeansCreditedOnce
<1>1. Credited => PaidMeansCreditedOnce
  BY DEF Credited
<1>2. QED BY <1>1, CreditedHolds, PTL

-----------------------------------------------------------------------------
LEMMA PaidStays ==
  ASSUME TypeOK, [Next]_vars, NEW o \in Orders, status[o] = "paid"
  PROVE  status'[o] = "paid"
<1>1. ASSUME NEW p \in Orders, NEW seen \in OrderStatuses, Credit(p, seen)
      PROVE  status'[o] = "paid"
  BY <1>1, CreditSteps DEF TypeOK
<1>2. ASSUME NEW c \in Charges, Charge(c) PROVE status'[o] = "paid"
  BY <1>2 DEF Charge
<1>3. QED BY <1>1, <1>2, OtherSteps

(* A credit of an order leaves it paid: if its reference was taken, it was *)
(* paid already.                                                           *)
LEMMA CreditPays ==
  ASSUME TypeOK, Credited, NEW o \in Orders, Credit(o, status[o])
  PROVE  status'[o] = "paid"
<1>1. CASE WL!Posted("recharge", o)
  <2>1. PICK u \in Users : \E i \in DOMAIN ledger[u] :
               ledger[u][i].type = "recharge" /\ ledger[u][i].ref = o
    BY <1>1 DEF WL!Posted
  <2>2. CreditRows(o) # {}
    BY <2>1 DEF Credited, CreditedInPlace, CreditRows
  <2>3. status[o] = "paid"
    BY <2>2 DEF Credited, PaidMeansCreditedOnce
  <2>4. QED BY <1>1, <2>3 DEF Credit
<1>2. CASE ~WL!Posted("recharge", o)
  BY <1>2, CreditSteps DEF TypeOK
<1>3. QED BY <1>1, <1>2

(* The handlers answer "success" only for payments that are in the wallet. *)
THEOREM AcknowledgedIsPaidHolds == Spec => []AcknowledgedIsPaid
<1>1. Init => AcknowledgedIsPaid
  BY DEF Init, AcknowledgedIsPaid
<1>2. TypeOK /\ Credited /\ AcknowledgedIsPaid /\ [Next]_vars => AcknowledgedIsPaid'
  <2> SUFFICES ASSUME TypeOK, Credited, AcknowledgedIsPaid, [Next]_vars,
                      NEW o \in acknowledged'
               PROVE  status'[o] = "paid"
    BY DEF AcknowledgedIsPaid
  <2>1. CASE o \in acknowledged
    BY <2>1, PaidStays DEF AcknowledgedIsPaid, TypeOK
  <2>2. CASE o \notin acknowledged
    <3>1. PICK p \in Orders : Report(p)
      BY <2>2 DEF Next, vars, CreateOrder, OpenAtChannel, PayAtChannel, RepeatReport,
         GiveUpReport, AdminMarkPaid, EndSession, PollOrder, MockPay, Load, Query,
         QueryAnswered, MarkPaid, Charge, channelVars
    <3>2. Credit(p, status[p]) /\ acknowledged' \subseteq acknowledged \cup {p}
      BY <3>1 DEF Report, Notify
    <3>3. QED BY <2>2, <3>2, CreditPays
  <2>3. QED BY <2>1, <2>2
<1>3. QED BY <1>1, <1>2, TypeCorrect, CreditedHolds, PTL DEF Spec
=============================================================================
