------------------------- MODULE UsageBillingProofs -------------------------
(***************************************************************************)
(* Theorems about the metered call for any number of users, keys and       *)
(* requests and any amounts.                                               *)
(***************************************************************************)
EXTENDS UsageBilling, SumTheorems

(* What the helpers return. *)
LEMMA LessType == ASSUME NEW reserved, NEW amount PROVE Less(reserved, amount) \in Nat
BY DEF Less

LEMMA NoKeyType == NoKey \in KeyRecords
BY DEF NoKey, KeyRecords, KeyStatuses, Limits

LEMMA NoViewType == NoView \in [key : KeyRecords, userActive : BOOLEAN, wallet : Wallets]
BY NoKeyType DEF NoView, Wallets

LEMMA WrittenBackType ==
  ASSUME NEW w \in Wallets, NEW copy \in Wallets, NEW amount \in Nat
  PROVE  WrittenBack(w, copy, amount) \in Wallets
BY DEF WrittenBack, Wallets

LEMMA ChargedType ==
  ASSUME NEW kr \in KeyRecords, NEW usage \in Usages
  PROVE  Charged(kr, usage) \in KeyRecords
<1>1. usage.tokens \in Nat /\ usage.amount \in Nat
  BY BillingAssumption
<1> DEFINE used == [kr EXCEPT !.usedTokens = @ + usage.tokens,
                              !.usedRequests = @ + 1,
                              !.usedAmount = @ + usage.amount]
<1>2. used \in KeyRecords
  <2>1. /\ kr.usedTokens + usage.tokens \in Nat
        /\ kr.usedRequests + 1 \in Nat
        /\ kr.usedAmount + usage.amount \in Nat
    BY <1>1 DEF KeyRecords
  <2>2. QED BY <2>1, Zenon DEF KeyRecords
<1>3. [used EXCEPT !.status = "quota_exceeded"] \in KeyRecords
  BY <1>2 DEF KeyRecords, KeyStatuses
<1>4. QED BY <1>2, <1>3 DEF Charged

LEMMA KeyStatusType ==
  ASSUME TypeOK, NEW k \in Keys, NEW s \in KeyStatuses, SetStatus(k, s)
  PROVE  key' \in [Keys -> KeyRecords]
<1>1. key[k] \in KeyRecords
  BY DEF TypeOK
<1>2. [key[k] EXCEPT !.status = s] \in KeyRecords
  BY <1>1 DEF KeyRecords
<1>3. key' = [key EXCEPT ![k] = [key[k] EXCEPT !.status = s]]
  BY DEF SetStatus
<1>4. QED BY <1>2, <1>3 DEF TypeOK

LEMMA HandlerType ==
  ASSUME TypeOK, NEW r \in Requests, NEW point \in ControlPoints
  PROVE  /\ Goto(r, point) => pc' \in [Requests -> ControlPoints]
         /\ Close(r, point) =>
              /\ pc' \in [Requests -> ControlPoints]
              /\ view' \in [Requests -> [key : KeyRecords, userActive : BOOLEAN, wallet : Wallets]]
<1>1. pc \in [Requests -> ControlPoints]
  BY DEF TypeOK
<1>2. view \in [Requests -> [key : KeyRecords, userActive : BOOLEAN, wallet : Wallets]]
  BY DEF TypeOK
<1>3. QED
  BY <1>1, <1>2, NoViewType, Zenon DEF Goto, Close

LEMMA Indices ==
  ASSUME NEW r \in Requests
  PROVE  KeyOf[r] \in Keys /\ Payer(r) \in Users /\ EstAmount[r] \in Nat /\ EstTokens[r] \in Nat
BY BillingAssumption DEF Payer

(* A wallet entry replaced by a wallet, and a row appended, keep the types. *)
LEMMA PostedType ==
  ASSUME TypeOK, NEW u \in Users, NEW w \in Wallets, NEW row \in WL!Rows
  PROVE  /\ [wallet EXCEPT ![u] = w] \in [Users -> Wallets]
         /\ [ledger EXCEPT ![u] = Append(ledger[u], row)] \in [Users -> Seq(WL!Rows)]
<1>1. wallet \in [Users -> Wallets] /\ ledger \in [Users -> Seq(WL!Rows)]
  BY DEF TypeOK
<1>2. ledger[u] \in Seq(WL!Rows)
  BY <1>1
<1>3. Append(ledger[u], row) \in Seq(WL!Rows)
  BY <1>2
<1>4. QED BY <1>1, <1>3

(* The steps between the lock on the key and the reservation. *)
Deciding(r) == CountPending(r) \/ CloseForLimit(r) \/ RefuseReservation(r)

Views == [key : KeyRecords, userActive : BOOLEAN, wallet : Wallets]

LEMMA AdmissionType ==
  ASSUME TypeOK, NEW r \in Requests,
         Authenticate(r) \/ LockAndCheck(r) \/ Deciding(r) \/ Reserve(r)
  PROVE  TypeOK'
<1> USE Indices, HandlerType, KeyStatusType
<1>1. view \in [Requests -> Views] /\ key \in [Keys -> KeyRecords]
      /\ wallet \in [Users -> Wallets] /\ userActive \in [Users -> BOOLEAN]
      /\ rsv \in [Requests -> ReservationStatuses]
  BY DEF TypeOK, Views
<1>2. {"loaded", "locked", "counted", "limited", "refused", "upstream"} \subseteq ControlPoints
      /\ {"arrears", "active", "quota_exceeded"} \subseteq KeyStatuses
  BY DEF ControlPoints, KeyStatuses
<1>3. SessionView(r) \in Views
  BY <1>1, Zenon DEF SessionView, Payer, Views
<1>4. CASE Authenticate(r)
  <2>1. [key |-> key[KeyOf[r]], userActive |-> userActive[UserOf[KeyOf[r]]],
         wallet |-> NoView.wallet] \in Views
    BY <1>1, NoViewType, BillingAssumption DEF Views
  <2>2. pc' \in [Requests -> ControlPoints] /\ view' \in [Requests -> Views]
    BY <1>1, <1>2, <1>4, <2>1, Zenon DEF Authenticate, Views
  <2>3. UNCHANGED <<userActive, key, moneyVars, rsv, overdue, fault, deleting>>
    BY <1>4 DEF Authenticate
  <2>4. QED BY <2>2, <2>3 DEF TypeOK, Views, moneyVars
<1>5. CASE LockAndCheck(r)
  <2>1. pc' \in [Requests -> ControlPoints]
    BY <1>2, <1>5, Zenon DEF LockAndCheck
  <2>2. view' \in [Requests -> Views]
    BY <1>1, <1>2, <1>3, <1>5, Zenon DEF LockAndCheck, Views
  <2>3. key' \in [Keys -> KeyRecords]
    BY <1>1, <1>2, <1>5, Zenon DEF LockAndCheck
  <2>4. UNCHANGED <<userActive, moneyVars, rsv, overdue, fault, deleting>>
    BY <1>5 DEF LockAndCheck
  <2>5. QED BY <2>1, <2>2, <2>3, <2>4 DEF TypeOK, Views, moneyVars
<1>6. CASE Deciding(r)
  <2>1. pc' \in [Requests -> ControlPoints] /\ view' \in [Requests -> Views]
    BY <1>1, <1>2, <1>6, Zenon DEF Deciding, CountPending, CloseForLimit, RefuseReservation, Views
  <2>2. key' \in [Keys -> KeyRecords]
    BY <1>1, <1>2, <1>6, Zenon DEF Deciding, CountPending, CloseForLimit, RefuseReservation
  <2>3. UNCHANGED <<userActive, moneyVars, rsv, overdue, fault, deleting>>
    BY <1>6 DEF Deciding, CountPending, CloseForLimit, RefuseReservation
  <2>4. QED BY <2>1, <2>2, <2>3 DEF TypeOK, Views, moneyVars
<1>7. CASE Reserve(r)
  <2>1. pc' \in [Requests -> ControlPoints] /\ view' \in [Requests -> Views]
    BY <1>2, <1>7, Zenon DEF Reserve, Views
  <2>2. key' \in [Keys -> KeyRecords]
    BY <1>1, <1>2, <1>7, Zenon DEF Reserve
  <2>3. wallet' \in [Users -> Wallets]
    <3>1. view[r].wallet \in Wallets /\ wallet[Payer(r)] \in Wallets
      BY <1>1 DEF Views
    <3>2. WrittenBack(wallet[Payer(r)], view[r].wallet, EstAmount[r]) \in Wallets
      BY <3>1, WrittenBackType
    <3>3. wallet' = [wallet EXCEPT ![Payer(r)] =
                       WrittenBack(wallet[Payer(r)], view[r].wallet, EstAmount[r])]
      BY <1>7 DEF Reserve
    <3>4. QED BY <1>1, <3>2, <3>3, Zenon
  <2>4. rsv' \in [Requests -> ReservationStatuses]
    BY <1>1, <1>7 DEF Reserve, ReservationStatuses
  <2>5. UNCHANGED <<userActive, ledger, usageLogs, overdue, fault, deleting>>
    BY <1>7 DEF Reserve
  <2>6. QED BY <2>1, <2>2, <2>3, <2>4, <2>5 DEF TypeOK, Views
<1>8. QED BY <1>4, <1>5, <1>6, <1>7

(* The effect of a settlement on the wallet and the ledger. *)
LEMMA SettleType ==
  ASSUME TypeOK, NEW r \in Requests, NEW usage \in Usages, NEW ref \in UpstreamIds \cup {r},
         Settle(r, usage, ref)
  PROVE  TypeOK'
<1> USE Indices, HandlerType
<1> DEFINE u == Payer(r)
           left == wallet[u].balance - usage.amount
           row == [type |-> "consume", ref |-> ref, amount |-> -usage.amount, after |-> left]
           log == [req |-> r, ref |-> ref, tokens |-> usage.tokens, amount |-> usage.amount]
<1>1. usage.tokens \in Nat /\ usage.amount \in Nat /\ ref \in References
  BY BillingAssumption DEF References
<1>2. wallet[u] \in Wallets /\ wallet[u].balance \in Nat
  BY DEF TypeOK, Wallets
<1>3. left \in Nat
  BY <1>1, <1>2 DEF Settle, Settleable
<1>4. -usage.amount \in LedgerAmounts
  BY DEF LedgerAmounts
<1>5. row \in WL!Rows
  BY <1>1, <1>3, <1>4 DEF WL!Rows, WL!RowTypes
<1>6. [balance |-> left, reserved |-> Less(wallet[u].reserved, EstAmount[r])] \in Wallets
  BY <1>3, LessType DEF Wallets
<1>7. wallet' \in [Users -> Wallets] /\ ledger' \in [Users -> Seq(WL!Rows)]
  <2>1. wallet' = [wallet EXCEPT ![u] =
                     [balance |-> left, reserved |-> Less(wallet[u].reserved, EstAmount[r])]]
    BY DEF Settle
  <2>2. ledger' = [ledger EXCEPT ![u] = Append(ledger[u], row)]
    BY DEF Settle
  <2> HIDE DEF row, left
  <2>3. QED BY <1>5, <1>6, <2>1, <2>2, PostedType
<1>8. key' \in [Keys -> KeyRecords]
  <2>1. key' = [key EXCEPT ![KeyOf[r]] = Charged(key[KeyOf[r]], usage)]
    BY DEF Settle
  <2>2. key[KeyOf[r]] \in KeyRecords
    BY DEF TypeOK
  <2>3. QED BY <2>1, <2>2, ChargedType DEF TypeOK
<1>9. rsv' \in [Requests -> ReservationStatuses]
  BY DEF Settle, TypeOK, ReservationStatuses
<1>10. usageLogs' \subseteq [req : Requests, ref : References, tokens : Nat, amount : Nat]
  <2>1. log \in [req : Requests, ref : References, tokens : Nat, amount : Nat]
    BY <1>1
  <2>2. usageLogs' = usageLogs \cup {log}
    BY DEF Settle
  <2> HIDE DEF log
  <2>3. QED BY <2>1, <2>2 DEF TypeOK
<1>11. pc' \in [Requests -> ControlPoints]
  BY DEF Settle, ControlPoints
<1>12. UNCHANGED <<userActive, overdue, view, fault, deleting>>
  BY DEF Settle
<1>13. QED BY <1>7, <1>8, <1>9, <1>10, <1>11, <1>12 DEF TypeOK

LEMMA AnswerType ==
  ASSUME TypeOK, NEW r \in Requests,
         \/ UpstreamAnswers(r) \/ UsageMissing(r) \/ Abandon(r)
         \/ \E class \in UpstreamErrors : UpstreamFails(r, class)
         \/ \E usage \in Usages, ref \in UpstreamIds \cup {r} : SettlementFails(r, usage, ref)
  PROVE  TypeOK'
<1> USE HandlerType
<1>1. {"upstream", "answered", "failing", "unsettled", "abandoned"} \subseteq ControlPoints
      /\ FaultPoint(r) \in ControlPoints
  BY DEF ControlPoints, FaultPoint
<1>2. pc' \in [Requests -> ControlPoints] /\ view' \in [Requests -> Views]
  BY <1>1, Zenon DEF UpstreamAnswers, UsageMissing, Abandon, UpstreamFails, SettlementFails,
              TypeOK, Views
<1>3. fault' \in [Requests -> ErrorClasses]
  <2>1. fault \in [Requests -> ErrorClasses]
    BY DEF TypeOK
  <2>2. "other" \in ErrorClasses /\ UpstreamErrors \subseteq ErrorClasses
    BY BillingAssumption DEF ErrorClasses
  <2>3. \A usage : SettlementFault(r, usage) \in ErrorClasses
    BY DEF SettlementFault, ErrorClasses
  <2>4. QED
    BY <2>1, <2>2, <2>3, Zenon
       DEF UpstreamAnswers, UsageMissing, Abandon, UpstreamFails, SettlementFails
<1>4. UNCHANGED <<userActive, key, moneyVars, rsv, overdue, deleting>>
  BY DEF UpstreamAnswers, UsageMissing, Abandon, UpstreamFails, SettlementFails
<1>5. QED BY <1>2, <1>3, <1>4 DEF TypeOK, Views, moneyVars

LEMMA OnErrorType ==
  ASSUME TypeOK, NEW r \in Requests, OnError(r)
  PROVE  TypeOK'
<1> USE Indices, HandlerType
<1>1. pc' \in [Requests -> ControlPoints]
  BY DEF OnError, ControlPoints
<1>2. key' \in [Keys -> KeyRecords]
  <2>1. CASE key' = [key EXCEPT ![KeyOf[r]].status = "quota_exceeded"]
    BY <2>1, KeyStatusType DEF KeyStatuses, SetStatus
  <2>2. CASE key' = [key EXCEPT ![KeyOf[r]].status = "arrears"]
    BY <2>2, KeyStatusType DEF KeyStatuses, SetStatus
  <2>3. CASE key' = key
    BY <2>3 DEF TypeOK
  <2>4. QED BY <2>1, <2>2, <2>3, Zenon DEF OnError
<1>3. rsv' \in [Requests -> ReservationStatuses]
  <2>1. rsv' = [rsv EXCEPT ![r] = "failed"] \/ rsv' = rsv
    BY Zenon DEF OnError
  <2>2. rsv \in [Requests -> ReservationStatuses] /\ "failed" \in ReservationStatuses
    BY DEF TypeOK, ReservationStatuses
  <2>3. QED BY <2>1, <2>2, Zenon
<1>4. wallet' \in [Users -> Wallets]
  <2>1. wallet[Payer(r)] \in Wallets /\ wallet \in [Users -> Wallets]
    BY DEF TypeOK
  <2>2. [wallet[Payer(r)] EXCEPT !.reserved = Less(wallet[Payer(r)].reserved, EstAmount[r])] \in Wallets
    BY <2>1, LessType DEF Wallets
  <2>3. \/ wallet' = wallet
        \/ wallet' = [wallet EXCEPT ![Payer(r)] =
             [wallet[Payer(r)] EXCEPT !.reserved = Less(wallet[Payer(r)].reserved, EstAmount[r])]]
    BY DEF OnError
  <2>4. QED BY <2>1, <2>2, <2>3, Zenon
<1>5. UNCHANGED <<userActive, ledger, usageLogs, overdue, view, fault, deleting>>
  BY DEF OnError
<1>6. QED BY <1>1, <1>2, <1>3, <1>4, <1>5 DEF TypeOK

LEMMA CleanupType ==
  ASSUME TypeOK, Cleanup
  PROVE  TypeOK'
<1>1. CASE ExpireReservations
  <2>1. rsv' \in [Requests -> ReservationStatuses]
    BY <1>1 DEF ExpireReservations, TypeOK, ReservationStatuses
  <2>2. wallet' \in [Users -> Wallets]
    <3>1. \A u \in Users :
            [wallet[u] EXCEPT !.reserved = Less(wallet[u].reserved, ExpiredAmount(u))] \in Wallets
      <4> TAKE u \in Users
      <4> DEFINE left == Less(wallet[u].reserved, ExpiredAmount(u))
      <4>1. left \in Nat
        BY LessType
      <4>2. wallet[u] \in Wallets
        BY DEF TypeOK
      <4> HIDE DEF left
      <4>3. [wallet[u] EXCEPT !.reserved = left] \in Wallets
        BY <4>1, <4>2 DEF Wallets
      <4> QED BY <4>3 DEF left
    <3>2. wallet' = [u \in Users |->
            [wallet[u] EXCEPT !.reserved = Less(wallet[u].reserved, ExpiredAmount(u))]]
      BY <1>1 DEF ExpireReservations
    <3>3. QED BY <3>1, <3>2, Zenon
  <2>3. UNCHANGED <<userActive, key, ledger, usageLogs, overdue, handlerVars, deleting>>
    BY <1>1 DEF ExpireReservations
  <2>4. QED BY <2>1, <2>2, <2>3 DEF TypeOK, handlerVars
<1>2. CASE \E r \in Requests : PassDeadline(r)
  BY <1>2 DEF PassDeadline, TypeOK, handlerVars, moneyVars
<1>3. QED BY <1>1, <1>2 DEF Cleanup

LEMMA KeyAdminType ==
  ASSUME TypeOK, NEW k \in Keys,
         \/ CreateKey(k) \/ DeleteCheck(k) \/ DeleteCommit(k)
         \/ \E status \in {"active", "disabled"} : SwitchKey(k, status)
         \/ \E limits \in LimitChoices : UpdateLimits(k, limits)
  PROVE  TypeOK'
<1>1. CASE CreateKey(k)
  <2>1. PICK limits \in LimitChoices :
          key' = [key EXCEPT ![k] = [NoKey EXCEPT !.status = "active", !.limits = limits]]
    BY <1>1 DEF CreateKey
  <2>2. [NoKey EXCEPT !.status = "active", !.limits = limits] \in KeyRecords
    BY BillingAssumption DEF NoKey, KeyRecords, KeyStatuses, Limits
  <2>3. key' \in [Keys -> KeyRecords]
    BY <2>1, <2>2, Zenon DEF TypeOK
  <2>4. UNCHANGED <<userActive, moneyVars, rsv, overdue, handlerVars, deleting>>
    BY <1>1 DEF CreateKey
  <2>5. QED BY <2>3, <2>4 DEF TypeOK, handlerVars, moneyVars
<1>2. CASE DeleteCheck(k)
  BY <1>2 DEF DeleteCheck, TypeOK, handlerVars, moneyVars
<1>3. CASE DeleteCommit(k)
  <2>1. key' \in [Keys -> KeyRecords]
    BY <1>3, KeyStatusType DEF DeleteCommit, KeyStatuses
  <2>2. rsv' \in [Requests -> ReservationStatuses] /\ deleting' \subseteq Keys
    BY <1>3 DEF DeleteCommit, TypeOK, ReservationStatuses
  <2>3. UNCHANGED <<userActive, moneyVars, overdue, handlerVars>>
    BY <1>3 DEF DeleteCommit
  <2>4. QED BY <2>1, <2>2, <2>3 DEF TypeOK, handlerVars, moneyVars
<1>4. ASSUME NEW status \in {"active", "disabled"}, SwitchKey(k, status) PROVE TypeOK'
  <2>1. key' \in [Keys -> KeyRecords]
    BY <1>4, KeyStatusType DEF SwitchKey, KeyStatuses
  <2>2. UNCHANGED <<userActive, moneyVars, rsv, overdue, handlerVars, deleting>>
    BY <1>4 DEF SwitchKey
  <2>3. QED BY <2>1, <2>2 DEF TypeOK, handlerVars, moneyVars
<1>5. ASSUME NEW limits \in LimitChoices, UpdateLimits(k, limits) PROVE TypeOK'
  <2>1. [key[k] EXCEPT !.limits = limits] \in KeyRecords
    <3>1. key[k] \in KeyRecords /\ limits \in Limits
      BY BillingAssumption DEF TypeOK
    <3>2. QED BY <3>1, Zenon DEF KeyRecords
  <2>2. key' = [key EXCEPT ![k] = [key[k] EXCEPT !.limits = limits]]
    BY <1>5 DEF UpdateLimits
  <2>3. key' \in [Keys -> KeyRecords]
    BY <2>1, <2>2, Zenon DEF TypeOK
  <2>4. UNCHANGED <<userActive, moneyVars, rsv, overdue, handlerVars, deleting>>
    BY <1>5 DEF UpdateLimits
  <2>5. QED BY <2>3, <2>4 DEF TypeOK, handlerVars, moneyVars
<1>6. QED BY <1>1, <1>2, <1>3, <1>4, <1>5

LEMMA WalletAdminType ==
  ASSUME TypeOK,
         \/ \E u \in Users, active \in BOOLEAN : SwitchUser(u, active)
         \/ \E o \in Orders : Recharge(o)
         \/ \E u \in Users, amount \in Adjustments : AdjustBalance(u, amount)
  PROVE  TypeOK'
<1>1. CASE \E u \in Users, active \in BOOLEAN : SwitchUser(u, active)
  BY <1>1 DEF SwitchUser, TypeOK, handlerVars, moneyVars
<1>2. ASSUME NEW u \in Users, NEW amount \in LedgerAmounts, NEW type \in WL!RowTypes,
             NEW ref \in References, wallet[u].balance + amount \in Nat,
             wallet' = [wallet EXCEPT ![u].balance = wallet[u].balance + amount],
             ledger' = [ledger EXCEPT ![u] =
               Append(@, [type |-> type, ref |-> ref, amount |-> amount,
                          after |-> wallet[u].balance + amount])],
             UNCHANGED <<userActive, key, usageLogs, rsv, overdue, handlerVars, deleting>>
      PROVE  TypeOK'
  <2> DEFINE w == [wallet[u] EXCEPT !.balance = wallet[u].balance + amount]
             row == [type |-> type, ref |-> ref, amount |-> amount,
                     after |-> wallet[u].balance + amount]
  <2>1. w \in Wallets
    <3>1. wallet[u] \in Wallets
      BY DEF TypeOK
    <3>2. QED BY <1>2, <3>1 DEF Wallets
  <2>2. row \in WL!Rows
    BY <1>2 DEF WL!Rows
  <2>3. wallet' = [wallet EXCEPT ![u] = w] /\ ledger' = [ledger EXCEPT ![u] = Append(ledger[u], row)]
    BY <1>2
  <2> HIDE DEF w, row
  <2>4. wallet' \in [Users -> Wallets] /\ ledger' \in [Users -> Seq(WL!Rows)]
    BY <2>1, <2>2, <2>3, PostedType
  <2>5. QED BY <1>2, <2>4 DEF TypeOK, handlerVars
<1>3. ASSUME NEW o \in Orders, Recharge(o) PROVE TypeOK'
  <2>1. /\ OrderUser[o] \in Users /\ OrderAmount[o] \in Nat
        /\ OrderAmount[o] \in LedgerAmounts /\ o \in References /\ "recharge" \in WL!RowTypes
    BY BillingAssumption DEF LedgerAmounts, References, WL!RowTypes
  <2>2. wallet[OrderUser[o]].balance + OrderAmount[o] \in Nat
    BY <2>1 DEF TypeOK, Wallets
  <2>3. QED BY <1>2, <1>3, <2>1, <2>2 DEF Recharge
<1>4. ASSUME NEW u \in Users, NEW amount \in Adjustments, AdjustBalance(u, amount) PROVE TypeOK'
  <2>1. amount \in LedgerAmounts /\ u \in References /\ "adjust" \in WL!RowTypes
    BY DEF LedgerAmounts, References, WL!RowTypes
  <2>2. wallet[u].balance + amount \in Nat
    BY <1>4, BillingAssumption DEF TypeOK, Wallets, AdjustBalance
  <2>3. QED BY <1>2, <1>4, <2>1, <2>2 DEF AdjustBalance
<1>5. QED BY <1>1, <1>3, <1>4

(* Rows stay well formed, balances and reserved balances never go below    *)
(* zero: every step writes a value of the column's type.                   *)
THEOREM TypeCorrect == Spec => []TypeOK
<1>1. Init => TypeOK
  <2> SUFFICES ASSUME Init PROVE TypeOK
    OBVIOUS
  <2>1. key \in [Keys -> KeyRecords]
    <3>1. PICK limits \in LimitChoices :
            key = [k \in Keys |-> IF k \in InitialKeys
                     THEN [NoKey EXCEPT !.status = "active", !.limits = limits] ELSE NoKey]
      BY DEF Init
    <3>2. [NoKey EXCEPT !.status = "active", !.limits = limits] \in KeyRecords
      BY BillingAssumption DEF NoKey, KeyRecords, KeyStatuses, Limits
    <3>3. QED BY <3>1, <3>2, NoKeyType, Zenon
  <2>2. wallet \in [Users -> Wallets] /\ ledger \in [Users -> Seq(WL!Rows)]
    BY BillingAssumption DEF Init, Wallets
  <2>3. view \in [Requests -> [key : KeyRecords, userActive : BOOLEAN, wallet : Wallets]]
    BY NoViewType, Zenon DEF Init
  <2>4. QED
    BY <2>1, <2>2, <2>3
       DEF Init, TypeOK, ReservationStatuses, ControlPoints, ErrorClasses
<1>2. TypeOK /\ [Next]_vars => TypeOK'
  <2> SUFFICES ASSUME TypeOK, [Next]_vars PROVE TypeOK'
    OBVIOUS
  <2>1. ASSUME NEW r \in Requests, Handler(r) PROVE TypeOK'
    BY <2>1, AdmissionType, SettleType, AnswerType, OnErrorType DEF Handler, Deciding
  <2>2. CASE Cleanup
    BY <2>2, CleanupType
  <2>3. CASE Admin
    BY <2>3, KeyAdminType, WalletAdminType DEF Admin
  <2>4. CASE UNCHANGED vars
    BY <2>4 DEF vars, moneyVars, handlerVars, TypeOK
  <2>5. QED BY <2>1, <2>2, <2>3, <2>4 DEF Next
<1>3. QED BY <1>1, <1>2, PTL DEF Spec

-----------------------------------------------------------------------------
(* The balances the wallet's specification is about. *)
Balances == [u \in Users |-> wallet[u].balance]

(* A step that touches only reserved balances is a stutter of the wallet.  *)
LEMMA SameMoney ==
  ASSUME TypeOK, UNCHANGED ledger,
         \A u \in Users : wallet'[u].balance = wallet[u].balance
  PROVE  UNCHANGED WL!walletVars
BY DEF WL!walletVars

(* A step that adds an amount and its row is a posting of the wallet.      *)
LEMMA PostingStep ==
  ASSUME TypeOK, NEW u \in Users, NEW type \in WL!RowTypes, NEW ref \in References,
         NEW amount \in LedgerAmounts, NEW w,
         ~WL!Posted(type, ref), wallet[u].balance + amount >= 0,
         w.balance = wallet[u].balance + amount,
         wallet' = [wallet EXCEPT ![u] = w],
         ledger' = [ledger EXCEPT ![u] =
           Append(ledger[u], [type |-> type, ref |-> ref, amount |-> amount,
                              after |-> wallet[u].balance + amount])]
  PROVE  WL!Next
<1>1. wallet \in [Users -> Wallets]
  BY DEF TypeOK
<1>2. Balances' = [Balances EXCEPT ![u] = Balances[u] + amount]
  <2>1. \A v \in Users : wallet'[v].balance =
          IF v = u THEN wallet[u].balance + amount ELSE wallet[v].balance
    BY <1>1
  <2>2. QED BY <2>1 DEF Balances
<1>3. WL!Post(u, type, ref, amount)
  BY <1>2 DEF WL!Post, Balances
<1>4. QED BY <1>3 DEF WL!Next

(* Whatever a handler, the cleanup loop or an administrator does to the    *)
(* wallet is one posting of the wallet's specification, or leaves balances *)
(* and ledger alone: admissions that write from stale copies can disturb   *)
(* reserved_balance, never the balance.                                    *)
THEOREM WalletRefinement == Spec => ImplementsWalletLedger
<1>1. Init => WL!Init
  BY BillingAssumption DEF Init, WL!Init
<1>2. TypeOK /\ [Next]_vars => WL!Next \/ UNCHANGED WL!walletVars
  <2> SUFFICES ASSUME TypeOK, [Next]_vars PROVE WL!Next \/ UNCHANGED WL!walletVars
    OBVIOUS
  <2> USE Indices
  <2>0. wallet \in [Users -> Wallets]
    BY DEF TypeOK
  <2>1. ASSUME NEW r \in Requests, Handler(r) PROVE WL!Next \/ UNCHANGED WL!walletVars
    <3>1. CASE Reserve(r)
      <4>1. wallet' = [wallet EXCEPT ![Payer(r)] =
                         WrittenBack(wallet[Payer(r)], view[r].wallet, EstAmount[r])]
        BY <3>1 DEF Reserve
      <4>2. WrittenBack(wallet[Payer(r)], view[r].wallet, EstAmount[r]).balance
              = wallet[Payer(r)].balance
        BY <2>0 DEF WrittenBack, Wallets
      <4>3. QED BY <2>0, <3>1, <4>1, <4>2, SameMoney DEF Reserve
    <3>2. CASE OnError(r)
      <4>1. \/ wallet' = wallet
            \/ wallet' = [wallet EXCEPT ![Payer(r)] =
                 [wallet[Payer(r)] EXCEPT !.reserved = Less(wallet[Payer(r)].reserved, EstAmount[r])]]
        BY <3>2 DEF OnError
      <4>2. \A u \in Users : wallet'[u].balance = wallet[u].balance
        BY <2>0, <4>1 DEF Wallets
      <4>3. QED BY <3>2, <4>2, SameMoney DEF OnError
    <3>3. ASSUME NEW usage \in Usages, NEW ref \in UpstreamIds \cup {r}, Settle(r, usage, ref)
          PROVE  WL!Next
      <4> DEFINE u == Payer(r)
                 left == wallet[u].balance - usage.amount
                 w == [balance |-> left, reserved |-> Less(wallet[u].reserved, EstAmount[r])]
      <4>1. usage.amount \in Nat /\ wallet[u].balance \in Nat
        BY <2>0, BillingAssumption DEF Wallets
      <4>2. left = wallet[u].balance + (-usage.amount) /\ left >= 0
        BY <3>3, <4>1 DEF Settle, Settleable
      <4>3. /\ -usage.amount \in LedgerAmounts /\ ref \in References
            /\ "consume" \in WL!RowTypes /\ ~WL!Posted("consume", ref)
        BY <3>3 DEF LedgerAmounts, References, WL!RowTypes, Settle, Settleable
      <4>4. wallet' = [wallet EXCEPT ![u] = w]
        BY <3>3 DEF Settle
      <4>5. ledger' = [ledger EXCEPT ![u] =
              Append(ledger[u], [type |-> "consume", ref |-> ref, amount |-> -usage.amount,
                                 after |-> left])]
        BY <3>3 DEF Settle
      <4>6. w.balance = left
        OBVIOUS
      <4> HIDE DEF left, w, u
      <4>7. QED BY <4>2, <4>3, <4>4, <4>5, <4>6, PostingStep DEF u
    <3>4. CASE ~Reserve(r) /\ ~OnError(r) /\
               ~\E usage \in Usages, ref \in UpstreamIds \cup {r} : Settle(r, usage, ref)
      <4>1. UNCHANGED <<wallet, ledger>>
        BY <2>1, <3>4 DEF Handler, Authenticate, LockAndCheck, Deciding,
           CountPending, CloseForLimit, RefuseReservation, UpstreamFails,
           UpstreamAnswers, UsageMissing, SettlementFails, Abandon, moneyVars
      <4>2. QED BY <4>1, SameMoney
    <3>5. QED BY <3>1, <3>2, <3>3, <3>4
  <2>2. CASE Cleanup
    <3>1. UNCHANGED ledger /\ \A u \in Users : wallet'[u].balance = wallet[u].balance
      <4>1. CASE ExpireReservations
        BY <2>0, <4>1 DEF ExpireReservations, Wallets
      <4>2. CASE \E r \in Requests : PassDeadline(r)
        BY <4>2 DEF PassDeadline, moneyVars
      <4>3. QED BY <2>2, <4>1, <4>2 DEF Cleanup
    <3>2. QED BY <3>1, SameMoney
  <2>3. ASSUME NEW o \in Orders, Recharge(o) PROVE WL!Next
    <3> DEFINE u == OrderUser[o]
               w == [wallet[u] EXCEPT !.balance = wallet[u].balance + OrderAmount[o]]
    <3>1. /\ u \in Users /\ OrderAmount[o] \in LedgerAmounts /\ o \in References
          /\ "recharge" \in WL!RowTypes /\ OrderAmount[o] \in Nat
      BY BillingAssumption DEF LedgerAmounts, References, WL!RowTypes
    <3>2. wallet[u] \in Wallets
      BY <2>0, <3>1
    <3>3. w.balance = wallet[u].balance + OrderAmount[o] /\ wallet[u].balance + OrderAmount[o] >= 0
      BY <3>1, <3>2 DEF Wallets
    <3>4. /\ ~WL!Posted("recharge", o)
          /\ wallet' = [wallet EXCEPT ![u] = w]
          /\ ledger' = [ledger EXCEPT ![u] =
               Append(ledger[u], [type |-> "recharge", ref |-> o, amount |-> OrderAmount[o],
                                  after |-> wallet[u].balance + OrderAmount[o]])]
      BY <2>3 DEF Recharge
    <3> HIDE DEF w, u
    <3>5. QED BY <3>1, <3>3, <3>4, PostingStep
  <2>4. ASSUME NEW u \in Users, NEW amount \in Adjustments, AdjustBalance(u, amount) PROVE WL!Next
    <3> DEFINE w == [wallet[u] EXCEPT !.balance = wallet[u].balance + amount]
    <3>1. amount \in LedgerAmounts /\ u \in References /\ "adjust" \in WL!RowTypes
      BY DEF LedgerAmounts, References, WL!RowTypes
    <3>2. w.balance = wallet[u].balance + amount /\ wallet[u].balance + amount >= 0
      BY <2>0, <2>4 DEF Wallets, AdjustBalance
    <3>3. /\ ~WL!Posted("adjust", u)
          /\ wallet' = [wallet EXCEPT ![u] = w]
          /\ ledger' = [ledger EXCEPT ![u] =
               Append(ledger[u], [type |-> "adjust", ref |-> u, amount |-> amount,
                                  after |-> wallet[u].balance + amount])]
      BY <2>4 DEF AdjustBalance
    <3> HIDE DEF w
    <3>4. QED BY <3>1, <3>2, <3>3, PostingStep
  <2>5. CASE Admin /\ ~(\E o \in Orders : Recharge(o))
                   /\ ~(\E u \in Users, amount \in Adjustments : AdjustBalance(u, amount))
    <3>1. UNCHANGED <<wallet, ledger>>
      BY <2>5 DEF Admin, CreateKey, DeleteCheck, DeleteCommit, SwitchKey, UpdateLimits,
                  SwitchUser, moneyVars
    <3>2. QED BY <3>1, SameMoney
  <2>6. CASE UNCHANGED vars
    <3>1. UNCHANGED <<wallet, ledger>>
      BY <2>6 DEF vars, moneyVars
    <3>2. QED BY <3>1, SameMoney
  <2>7. QED BY <2>1, <2>2, <2>3, <2>4, <2>5, <2>6 DEF Next, Admin
<1>3. QED BY <1>1, <1>2, TypeCorrect, PTL DEF Spec, ImplementsWalletLedger, WL!Spec

-----------------------------------------------------------------------------
(* A request has no reservation row before its admission commits. *)
NoEarlyReservation ==
  \A r \in Requests : pc[r] \in {"new", "loaded", "locked", "counted", "limited"} => rsv[r] = "none"

(* What one step does to the reservations: one request is admitted, or     *)
(* pending ones end, or the rows of a key are deleted.                     *)
LEMMA ReservationSteps ==
  ASSUME TypeOK, [Next]_vars, NEW q \in Requests
  PROVE  \/ rsv'[q] = rsv[q]
         \/ rsv[q] = "pending" /\ rsv'[q] \in {"captured", "failed", "expired"}
         \/ rsv[q] # "none" /\ rsv'[q] = "deleted"
         \/ pc[q] = "counted" /\ pc'[q] = "upstream" /\ rsv'[q] = "pending"
<1>1. rsv \in [Requests -> ReservationStatuses] /\ pc \in [Requests -> ControlPoints]
  BY DEF TypeOK
<1>2. ASSUME NEW r \in Requests, Reserve(r)
      PROVE  rsv'[q] = rsv[q] \/ (pc[q] = "counted" /\ pc'[q] = "upstream" /\ rsv'[q] = "pending")
  BY <1>1, <1>2 DEF Reserve, Close
<1>3. ASSUME NEW r \in Requests, NEW usage \in Usages, NEW ref \in UpstreamIds \cup {r},
             Settle(r, usage, ref)
      PROVE  rsv'[q] = rsv[q] \/ (rsv[q] = "pending" /\ rsv'[q] \in {"captured", "failed", "expired"})
  BY <1>1, <1>3 DEF Settle, Settleable
<1>4. ASSUME NEW r \in Requests, OnError(r)
      PROVE  rsv'[q] = rsv[q] \/ (rsv[q] = "pending" /\ rsv'[q] \in {"captured", "failed", "expired"})
  BY <1>1, <1>4 DEF OnError
<1>5. CASE ExpireReservations
  BY <1>1, <1>5 DEF ExpireReservations, Expired
<1>6. ASSUME NEW k \in Keys, DeleteCommit(k)
      PROVE  rsv'[q] = rsv[q] \/ (rsv[q] # "none" /\ rsv'[q] = "deleted")
  BY <1>1, <1>6 DEF DeleteCommit
<1>7. CASE UNCHANGED rsv
  BY <1>7
<1>8. ASSUME NEW r \in Requests, Handler(r), ~Reserve(r), ~OnError(r),
             ~\E usage \in Usages, ref \in UpstreamIds \cup {r} : Settle(r, usage, ref)
      PROVE  UNCHANGED rsv
  BY <1>8 DEF Handler, Authenticate, LockAndCheck, Deciding,
              CountPending, CloseForLimit, RefuseReservation, UpstreamFails,
              UpstreamAnswers, UsageMissing, SettlementFails, Abandon
<1>9. ASSUME Admin, ~\E k \in Keys : DeleteCommit(k) PROVE UNCHANGED rsv
  BY <1>9 DEF Admin, CreateKey, DeleteCheck, SwitchKey, UpdateLimits, SwitchUser, Recharge,
              AdjustBalance
<1>10. ASSUME NEW r \in Requests, PassDeadline(r) PROVE UNCHANGED rsv
  BY <1>10 DEF PassDeadline
<1>11. CASE \E r \in Requests : Handler(r)
  BY <1>11, <1>2, <1>3, <1>4, <1>7, <1>8
<1>12. CASE Cleanup
  BY <1>12, <1>5, <1>7, <1>10 DEF Cleanup
<1>13. CASE Admin
  BY <1>13, <1>6, <1>7, <1>9
<1>14. CASE UNCHANGED vars
  BY <1>14, <1>7 DEF vars
<1>15. QED BY <1>11, <1>12, <1>13, <1>14 DEF Next

(* A handler never goes back before its admission. *)
LEMMA AdmissionIsPast ==
  ASSUME TypeOK, [Next]_vars, NEW q \in Requests,
         pc'[q] \in {"new", "loaded", "locked", "counted", "limited"}
  PROVE  pc[q] \in {"new", "loaded", "locked", "counted", "limited"}
<1>1. pc \in [Requests -> ControlPoints]
  BY DEF TypeOK
<1>2. ASSUME NEW r \in Requests, Handler(r)
      PROVE  pc'[q] = pc[q] \/
               (q = r /\ (pc[r] \in {"new", "loaded", "locked", "counted", "limited"}
                          \/ pc'[r] \notin {"new", "loaded", "locked", "counted", "limited"}))
  <2>1. CASE \E usage \in Usages, ref \in UpstreamIds \cup {r} : Settle(r, usage, ref)
    BY <1>1, <2>1 DEF Settle, Goto
  <2>2. CASE \E usage \in Usages, ref \in UpstreamIds \cup {r} : SettlementFails(r, usage, ref)
    BY <1>1, <2>2 DEF SettlementFails, Goto, FaultPoint
  <2>3. CASE Authenticate(r) \/ LockAndCheck(r) \/ Deciding(r) \/ Reserve(r)
    BY <1>1, <2>3 DEF Authenticate, LockAndCheck, Deciding,
       CountPending, CloseForLimit, RefuseReservation, Reserve, Goto, Close
  <2>4. CASE \/ UpstreamAnswers(r) \/ UsageMissing(r) \/ OnError(r) \/ Abandon(r)
             \/ \E class \in UpstreamErrors : UpstreamFails(r, class)
    BY <1>1, <2>4 DEF UpstreamAnswers, UsageMissing, OnError, Abandon, UpstreamFails, Goto, Close,
                      FaultPoint
  <2>5. QED BY <1>2, <2>1, <2>2, <2>3, <2>4 DEF Handler, Deciding
<1>3. CASE \E r \in Requests : Handler(r)
  BY <1>2, <1>3
<1>4. ASSUME Cleanup \/ Admin \/ UNCHANGED vars PROVE UNCHANGED pc
  BY <1>4 DEF Cleanup, ExpireReservations, PassDeadline, Admin, CreateKey, DeleteCheck,
     DeleteCommit, SwitchKey, UpdateLimits, SwitchUser, Recharge, AdjustBalance, handlerVars, vars
<1>5. QED BY <1>3, <1>4 DEF Next

LEMMA NoEarlyReservationHolds == Spec => []NoEarlyReservation
<1>1. Init => NoEarlyReservation
  BY DEF Init, NoEarlyReservation
<1>2. TypeOK /\ NoEarlyReservation /\ [Next]_vars => NoEarlyReservation'
  <2> SUFFICES ASSUME TypeOK, NoEarlyReservation, [Next]_vars, NEW q \in Requests,
                      pc'[q] \in {"new", "loaded", "locked", "counted", "limited"}
               PROVE  rsv'[q] = "none"
    BY DEF NoEarlyReservation
  <2>1. rsv[q] = "none"
    BY AdmissionIsPast DEF NoEarlyReservation
  <2>2. QED BY <2>1, ReservationSteps
<1>3. QED BY <1>1, <1>2, TypeCorrect, PTL DEF Spec

(* Capture, release and expiry all start from "pending": whichever comes   *)
(* first ends the reservation, and the others find it ended.               *)
THEOREM ReservationEndsOnceHolds == Spec => ReservationEndsOnce
<1>1. TypeOK /\ NoEarlyReservation /\ [Next]_vars =>
        [\A r \in Requests :
           rsv[r] \in {"captured", "failed", "expired"} => rsv'[r] \in {rsv[r], "deleted"}]_vars
  <2> SUFFICES ASSUME TypeOK, NoEarlyReservation, [Next]_vars, NEW q \in Requests,
                      rsv[q] \in {"captured", "failed", "expired"}
               PROVE  rsv'[q] \in {rsv[q], "deleted"}
    OBVIOUS
  <2>1. pc[q] # "counted"
    BY DEF NoEarlyReservation
  <2>2. QED BY <2>1, ReservationSteps
<1>2. QED
  BY <1>1, TypeCorrect, NoEarlyReservationHolds, PTL DEF Spec, ReservationEndsOnce
-----------------------------------------------------------------------------
(* Only a settlement raises the number of calls a key has been charged for. *)
LEMMA OnlySettlementCounts ==
  ASSUME TypeOK, [Next]_vars, NEW k \in Keys, key'[k].usedRequests > key[k].usedRequests
  PROVE  \E r \in Requests : \E usage \in Usages, ref \in UpstreamIds \cup {r} :
           Settle(r, usage, ref) /\ KeyOf[r] = k
<1> DEFINE Kept == ~(key'[k].usedRequests > key[k].usedRequests)
<1>1. key \in [Keys -> KeyRecords] /\ key[k].usedRequests \in Nat
  BY DEF TypeOK, KeyRecords
<1>2. ~Kept
  OBVIOUS
<1>3. ASSUME NEW j \in Keys, NEW status, SetStatus(j, status) PROVE Kept
  BY <1>1, <1>3 DEF SetStatus, KeyRecords
<1>4. CASE UNCHANGED key
  BY <1>1, <1>2, <1>4
<1>5. ASSUME NEW r \in Requests, Handler(r),
             ~\E usage \in Usages, ref \in UpstreamIds \cup {r} : Settle(r, usage, ref)
      PROVE  Kept
  <2>1. KeyOf[r] \in Keys
    BY Indices
  <2>2. CASE LockAndCheck(r) \/ Deciding(r) \/ Reserve(r)
    <3>1. UNCHANGED key \/ \E status : SetStatus(KeyOf[r], status)
      BY <2>2 DEF LockAndCheck, Deciding, CountPending, CloseForLimit, RefuseReservation, Reserve
    <3>2. QED BY <1>1, <1>3, <2>1, <3>1
  <2>3. CASE OnError(r)
    <3>1. UNCHANGED key \/ \E status : SetStatus(KeyOf[r], status)
      BY <2>3, Zenon DEF OnError, SetStatus
    <3>2. QED BY <1>1, <1>3, <2>1, <3>1
  <2>4. CASE ~LockAndCheck(r) /\ ~Deciding(r) /\ ~Reserve(r) /\ ~OnError(r)
    <3>1. UNCHANGED key
      BY <1>5, <2>4 DEF Handler, Deciding, Authenticate, UpstreamFails, UpstreamAnswers,
                        UsageMissing, SettlementFails, Abandon
    <3>2. QED BY <1>1, <3>1
  <2>5. QED BY <2>2, <2>3, <2>4
<1>6. ASSUME Cleanup PROVE UNCHANGED key
  BY <1>6 DEF Cleanup, ExpireReservations, PassDeadline
<1>7. ASSUME Admin PROVE Kept
  <2>1. ASSUME NEW j \in Keys, CreateKey(j) PROVE Kept
    BY <1>1, <2>1 DEF CreateKey, NoKey
  <2>2. ASSUME NEW j \in Keys, NEW limits, UpdateLimits(j, limits) PROVE Kept
    BY <1>1, <2>2 DEF UpdateLimits, KeyRecords
  <2>3. ASSUME NEW j \in Keys, DeleteCommit(j) \/ \E status : SwitchKey(j, status) PROVE Kept
    BY <1>3, <2>3 DEF DeleteCommit, SwitchKey
  <2>4. ASSUME ~\E j \in Keys : \/ CreateKey(j) \/ DeleteCommit(j)
                               \/ \E status \in {"active", "disabled"} : SwitchKey(j, status)
                               \/ \E limits \in LimitChoices : UpdateLimits(j, limits)
        PROVE  Kept
    <3>1. UNCHANGED key
      BY <1>7, <2>4 DEF Admin, DeleteCheck, SwitchUser, Recharge, AdjustBalance
    <3>2. QED BY <1>1, <3>1
  <2>5. QED BY <2>1, <2>2, <2>3, <2>4
<1>8. ASSUME UNCHANGED vars PROVE UNCHANGED key
  BY <1>8 DEF vars
<1>9. PICK r \in Requests : \E usage \in Usages, ref \in UpstreamIds \cup {r} : Settle(r, usage, ref)
  BY <1>2, <1>4, <1>5, <1>6, <1>7, <1>8 DEF Next
<1>10. KeyOf[r] = k
  BY <1>1, <1>2, <1>9, Indices DEF Settle
<1>11. QED BY <1>9, <1>10

(* A settlement decides on the row it has locked, so it never takes a key  *)
(* past the limits the key has at that moment, however stale the copy its  *)
(* admission decided on.                                                   *)
THEOREM ChargedWithinLimitsHolds == Spec => ChargedWithinLimits
<1> DEFINE Step ==
      \A k \in Keys : key'[k].usedRequests > key[k].usedRequests =>
        LET kr == key'[k] IN
        /\ kr.limits.requests # 0 => kr.usedRequests <= kr.limits.requests
        /\ kr.limits.tokens # 0 => kr.usedTokens <= kr.limits.tokens
        /\ kr.limits.amount # 0 => kr.usedAmount <= kr.limits.amount
<1>1. TypeOK /\ [Next]_vars => [Step]_vars
  <2> SUFFICES ASSUME TypeOK, [Next]_vars, NEW k \in Keys,
                      key'[k].usedRequests > key[k].usedRequests
               PROVE  LET kr == key'[k] IN
                      /\ kr.limits.requests # 0 => kr.usedRequests <= kr.limits.requests
                      /\ kr.limits.tokens # 0 => kr.usedTokens <= kr.limits.tokens
                      /\ kr.limits.amount # 0 => kr.usedAmount <= kr.limits.amount
    OBVIOUS
  <2>1. PICK r \in Requests : \E usage \in Usages, ref \in UpstreamIds \cup {r} :
               Settle(r, usage, ref) /\ KeyOf[r] = k
    BY OnlySettlementCounts
  <2>2. PICK usage \in Usages : key' = [key EXCEPT ![k] = Charged(key[k], usage)]
                               /\ ~OverLimit(key[k], usage.tokens, usage.amount)
    BY <2>1 DEF Settle, Settleable
  <2>3. key[k] \in KeyRecords /\ usage.tokens \in Nat /\ usage.amount \in Nat
    BY BillingAssumption DEF TypeOK
  <2>4. key'[k] = Charged(key[k], usage)
    BY <2>2 DEF TypeOK
  <2>5. /\ key'[k].limits = key[k].limits
        /\ key'[k].usedRequests = key[k].usedRequests + 1
        /\ key'[k].usedTokens = key[k].usedTokens + usage.tokens
        /\ key'[k].usedAmount = key[k].usedAmount + usage.amount
    BY <2>3, <2>4 DEF Charged, KeyRecords
  <2>6. /\ key[k].limits \in Limits
        /\ key[k].usedRequests \in Nat /\ key[k].usedTokens \in Nat /\ key[k].usedAmount \in Nat
    BY <2>3 DEF KeyRecords
  <2>7. QED BY <2>2, <2>3, <2>5, <2>6 DEF OverLimit, Limits
<1>2. QED BY <1>1, TypeCorrect, PTL DEF Spec, ChargedWithinLimits
-----------------------------------------------------------------------------
Settlement == \E r \in Requests : \E usage \in Usages, ref \in UpstreamIds \cup {r} :
                Settle(r, usage, ref)

(* A step that is no settlement writes no usage row, captures nothing and  *)
(* appends at most one row, of another type than "consume".                *)
LEMMA OtherSteps ==
  ASSUME TypeOK, [Next]_vars, ~Settlement
  PROVE  /\ UNCHANGED usageLogs
         /\ \A r \in Requests : rsv'[r] = "captured" => rsv[r] = "captured"
         /\ \/ UNCHANGED ledger
            \/ \E u \in Users, row \in WL!Rows :
                 row.type # "consume" /\ ledger' = [ledger EXCEPT ![u] = Append(ledger[u], row)]
<1> DEFINE NoCapture == \A r \in Requests : rsv'[r] = "captured" => rsv[r] = "captured"
<1>1. rsv \in [Requests -> ReservationStatuses]
  BY DEF TypeOK
<1>2. ASSUME NEW r \in Requests, Handler(r)
      PROVE  UNCHANGED <<ledger, usageLogs>> /\ NoCapture
  <2>1. CASE Reserve(r)
    BY <1>1, <2>1 DEF Reserve
  <2>2. CASE OnError(r)
    BY <1>1, <2>2 DEF OnError
  <2>3. CASE ~Reserve(r) /\ ~OnError(r)
    BY <1>2, <2>3 DEF Settlement, Handler, Authenticate, LockAndCheck, Deciding,
       CountPending, CloseForLimit, RefuseReservation,
       UpstreamFails, UpstreamAnswers, UsageMissing, SettlementFails, Abandon, moneyVars
  <2>4. QED BY <2>1, <2>2, <2>3
<1>3. ASSUME Cleanup PROVE UNCHANGED <<ledger, usageLogs>> /\ NoCapture
  BY <1>1, <1>3 DEF Cleanup, ExpireReservations, PassDeadline, moneyVars
<1>4. ASSUME NEW o \in Orders, Recharge(o)
      PROVE  /\ UNCHANGED <<usageLogs, rsv>>
             /\ \E u \in Users, row \in WL!Rows :
                  row.type # "consume" /\ ledger' = [ledger EXCEPT ![u] = Append(ledger[u], row)]
  <2> DEFINE u == OrderUser[o]
             row == [type |-> "recharge", ref |-> o, amount |-> OrderAmount[o],
                     after |-> wallet[u].balance + OrderAmount[o]]
  <2>1. u \in Users /\ OrderAmount[o] \in Nat /\ OrderAmount[o] \in LedgerAmounts /\ o \in References
    BY BillingAssumption DEF LedgerAmounts, References
  <2>2. wallet[u].balance + OrderAmount[o] \in Nat
    BY <2>1 DEF TypeOK, Wallets
  <2>3. row \in WL!Rows /\ row.type # "consume"
    BY <2>1, <2>2 DEF WL!Rows, WL!RowTypes
  <2>4. UNCHANGED <<usageLogs, rsv>> /\ ledger' = [ledger EXCEPT ![u] = Append(ledger[u], row)]
    BY <1>4 DEF Recharge
  <2> HIDE DEF u, row
  <2>5. QED BY <2>1, <2>3, <2>4
<1>5. ASSUME NEW u \in Users, NEW amount \in Adjustments, AdjustBalance(u, amount)
      PROVE  /\ UNCHANGED <<usageLogs, rsv>>
             /\ \E v \in Users, row \in WL!Rows :
                  row.type # "consume" /\ ledger' = [ledger EXCEPT ![v] = Append(ledger[v], row)]
  <2> DEFINE row == [type |-> "adjust", ref |-> u, amount |-> amount,
                     after |-> wallet[u].balance + amount]
  <2>1. amount \in LedgerAmounts /\ u \in References /\ wallet[u].balance + amount \in Nat
    BY <1>5, BillingAssumption DEF LedgerAmounts, References, TypeOK, Wallets, AdjustBalance
  <2>2. row \in WL!Rows /\ row.type # "consume"
    BY <2>1 DEF WL!Rows, WL!RowTypes
  <2>3. UNCHANGED <<usageLogs, rsv>> /\ ledger' = [ledger EXCEPT ![u] = Append(ledger[u], row)]
    BY <1>5 DEF AdjustBalance
  <2> HIDE DEF row
  <2>4. QED BY <2>2, <2>3
<1>6. ASSUME Admin, ~\E o \in Orders : Recharge(o),
             ~\E u \in Users, amount \in Adjustments : AdjustBalance(u, amount)
      PROVE  UNCHANGED <<ledger, usageLogs>> /\ NoCapture
  BY <1>1, <1>6 DEF Admin, CreateKey, DeleteCheck, DeleteCommit, SwitchKey, UpdateLimits,
     SwitchUser, moneyVars
<1>7. ASSUME UNCHANGED vars PROVE UNCHANGED <<ledger, usageLogs>> /\ NoCapture
  BY <1>7 DEF vars, moneyVars
<1>8. QED BY <1>2, <1>3, <1>4, <1>5, <1>6, <1>7 DEF Next

(* Captured and deleted reservations stay so. *)
LEMMA CapturedStays ==
  ASSUME TypeOK, NoEarlyReservation, [Next]_vars, NEW q \in Requests,
         rsv[q] \in {"captured", "deleted"}
  PROVE  rsv'[q] \in {"captured", "deleted"}
<1>1. pc[q] # "counted"
  BY DEF NoEarlyReservation
<1>2. QED BY <1>1, ReservationSteps

(* Appending a row keeps the rows there are and adds one. *)
LEMMA Appended ==
  ASSUME TypeOK, NEW u \in Users, NEW row \in WL!Rows,
         ledger' = [ledger EXCEPT ![u] = Append(ledger[u], row)]
  PROVE  /\ \A v \in Users : \A i \in DOMAIN ledger[v] :
              i \in DOMAIN ledger'[v] /\ ledger'[v][i] = ledger[v][i]
         /\ \A v \in Users : \A i \in DOMAIN ledger'[v] :
              \/ i \in DOMAIN ledger[v] /\ ledger'[v][i] = ledger[v][i]
              \/ v = u /\ ledger'[v][i] = row
         /\ Len(ledger[u]) + 1 \in DOMAIN ledger'[u] /\ ledger'[u][Len(ledger[u]) + 1] = row
<1>1. ledger \in [Users -> Seq(WL!Rows)] /\ ledger[u] \in Seq(WL!Rows)
  BY DEF TypeOK
<1>2. /\ DOMAIN Append(ledger[u], row) = 1 .. Len(ledger[u]) + 1
      /\ DOMAIN ledger[u] = 1 .. Len(ledger[u])
      /\ Len(ledger[u]) \in Nat
      /\ \A i \in 1 .. Len(ledger[u]) : Append(ledger[u], row)[i] = ledger[u][i]
      /\ Append(ledger[u], row)[Len(ledger[u]) + 1] = row
  BY <1>1
<1>3. /\ ledger'[u] = Append(ledger[u], row)
      /\ \A v \in Users \ {u} : ledger'[v] = ledger[v]
  BY <1>1
<1>4. QED BY <1>2, <1>3

(* The five parts of ChargedOnceWhenCaptured across a settlement: the      *)
(* reservation was pending and the reference unused, so neither the        *)
(* request nor the reference has a usage row yet.                          *)
LEMMA SettlementCharges ==
  ASSUME TypeOK, NoEarlyReservation, ChargedOnceWhenCaptured, [Next]_vars, NEW r \in Requests,
         NEW usage \in Usages, NEW ref \in UpstreamIds \cup {r}, Settle(r, usage, ref)
  PROVE  ChargedOnceWhenCaptured'
<1> DEFINE p == Payer(r)
           left == wallet[p].balance - usage.amount
           entry == [type |-> "consume", ref |-> ref, amount |-> -usage.amount, after |-> left]
           log == [req |-> r, ref |-> ref, tokens |-> usage.tokens, amount |-> usage.amount]
<1>1. /\ rsv[r] = "pending" /\ rsv' = [rsv EXCEPT ![r] = "captured"]
      /\ usageLogs' = usageLogs \cup {log}
      /\ ledger' = [ledger EXCEPT ![p] = Append(ledger[p], entry)]
      /\ ~WL!Posted("consume", ref)
  BY DEF Settle, Settleable
<1>2. p \in Users /\ rsv \in [Requests -> ReservationStatuses] /\ \A l \in usageLogs : l.req \in Requests
  BY Indices DEF TypeOK
<1>3. entry \in WL!Rows
  <2>1. usage.amount \in Nat /\ wallet[p].balance \in Nat
    BY <1>2, BillingAssumption DEF TypeOK, Wallets
  <2>2. left \in Nat
    BY <2>1 DEF Settle, Settleable
  <2>3. -usage.amount \in LedgerAmounts /\ ref \in References
    BY DEF LedgerAmounts, References
  <2>4. QED BY <2>2, <2>3 DEF WL!Rows, WL!RowTypes
<1>4. /\ entry.type = "consume" /\ entry.ref = ref /\ entry.amount = -usage.amount
      /\ log.req = r /\ log.ref = ref /\ log.amount = usage.amount
  OBVIOUS
<1> HIDE DEF entry, log, left, p
<1>5. /\ \A v \in Users : \A i \in DOMAIN ledger[v] :
           i \in DOMAIN ledger'[v] /\ ledger'[v][i] = ledger[v][i]
      /\ \A v \in Users : \A i \in DOMAIN ledger'[v] :
           \/ i \in DOMAIN ledger[v] /\ ledger'[v][i] = ledger[v][i]
           \/ v = p /\ ledger'[v][i] = entry
      /\ Len(ledger[p]) + 1 \in DOMAIN ledger'[p] /\ ledger'[p][Len(ledger[p]) + 1] = entry
  BY <1>1, <1>2, <1>3, Appended
<1>6. \A l \in usageLogs : l.req # r
  BY <1>1 DEF ChargedOnceWhenCaptured
<1>7. \A l \in usageLogs : l.ref # ref
  BY <1>1, <1>2, Indices DEF ChargedOnceWhenCaptured, WL!Posted, ConsumeRows
<1>8. \A q \in Requests : rsv'[q] = "captured" => \E l \in usageLogs' : l.req = q
  <2>1. \A q \in Requests : rsv'[q] = "captured" => q = r \/ rsv[q] = "captured"
    BY <1>1, <1>2
  <2>2. QED BY <1>1, <1>4, <2>1 DEF ChargedOnceWhenCaptured
<1>9. \A l \in usageLogs' : rsv'[l.req] \in {"captured", "deleted"}
  <2>1. rsv'[r] = "captured"
    BY <1>1, <1>2
  <2>2. \A l \in usageLogs : rsv'[l.req] \in {"captured", "deleted"}
    BY <1>2, CapturedStays DEF ChargedOnceWhenCaptured
  <2>3. QED BY <1>1, <1>4, <2>1, <2>2
<1>10. \A l, m \in usageLogs' : (l.req = m.req \/ l.ref = m.ref) => l = m
  BY <1>1, <1>4, <1>6, <1>7 DEF ChargedOnceWhenCaptured
<1>11. \A l \in usageLogs' : \E i \in ConsumeRows(Payer(l.req))' :
         /\ ledger'[Payer(l.req)][i].ref = l.ref
         /\ ledger'[Payer(l.req)][i].amount = -l.amount
  <2>1. ASSUME NEW l \in usageLogs
        PROVE  \E i \in DOMAIN ledger'[Payer(l.req)] :
                 /\ ledger'[Payer(l.req)][i].type = "consume"
                 /\ ledger'[Payer(l.req)][i].ref = l.ref
                 /\ ledger'[Payer(l.req)][i].amount = -l.amount
    <3>1. Payer(l.req) \in Users
      BY <1>2, Indices
    <3>2. PICK i \in DOMAIN ledger[Payer(l.req)] :
                 /\ ledger[Payer(l.req)][i].type = "consume"
                 /\ ledger[Payer(l.req)][i].ref = l.ref
                 /\ ledger[Payer(l.req)][i].amount = -l.amount
      BY DEF ChargedOnceWhenCaptured, ConsumeRows
    <3>3. QED BY <1>5, <3>1, <3>2
  <2>2. \E i \in DOMAIN ledger'[p] :
          /\ ledger'[p][i].type = "consume"
          /\ ledger'[p][i].ref = log.ref
          /\ ledger'[p][i].amount = -log.amount
    BY <1>4, <1>5
  <2>3. Payer(log.req) = p
    BY <1>4 DEF p
  <2>4. QED BY <1>1, <2>1, <2>2, <2>3 DEF ConsumeRows
<1>12. \A v \in Users : \A i \in ConsumeRows(v)' :
         \E l \in usageLogs' : Payer(l.req) = v /\ l.ref = ledger'[v][i].ref
  <2> SUFFICES ASSUME NEW v \in Users, NEW i \in DOMAIN ledger'[v], ledger'[v][i].type = "consume"
               PROVE  \E l \in usageLogs' : Payer(l.req) = v /\ l.ref = ledger'[v][i].ref
    BY DEF ConsumeRows
  <2>1. CASE i \in DOMAIN ledger[v] /\ ledger'[v][i] = ledger[v][i]
    <3>1. i \in ConsumeRows(v)
      BY <2>1 DEF ConsumeRows
    <3>2. QED BY <1>1, <2>1, <3>1 DEF ChargedOnceWhenCaptured
  <2>2. CASE v = p /\ ledger'[v][i] = entry
    BY <1>1, <1>4, <2>2 DEF p
  <2>3. QED BY <1>5, <2>1, <2>2
<1>13. QED BY <1>8, <1>9, <1>10, <1>11, <1>12 DEF ChargedOnceWhenCaptured, Payer

LEMMA OthersChargeNothing ==
  ASSUME TypeOK, NoEarlyReservation, ChargedOnceWhenCaptured, [Next]_vars, ~Settlement
  PROVE  ChargedOnceWhenCaptured'
<1>1. /\ usageLogs' = usageLogs
      /\ \A q \in Requests : rsv'[q] = "captured" => rsv[q] = "captured"
  BY OtherSteps
<1>2. \A l \in usageLogs : l.req \in Requests /\ Payer(l.req) \in Users
  BY Indices DEF TypeOK
<1>3. \A u \in Users : \A i \in DOMAIN ledger[u] :
        i \in DOMAIN ledger'[u] /\ ledger'[u][i] = ledger[u][i]
  <2>1. CASE UNCHANGED ledger
    BY <2>1
  <2>2. CASE \E u \in Users, row \in WL!Rows :
               row.type # "consume" /\ ledger' = [ledger EXCEPT ![u] = Append(ledger[u], row)]
    BY <2>2, Appended
  <2>3. QED BY <2>1, <2>2, OtherSteps
<1>4. \A u \in Users : \A i \in DOMAIN ledger'[u] :
        ledger'[u][i].type = "consume" => i \in DOMAIN ledger[u] /\ ledger'[u][i] = ledger[u][i]
  <2>1. CASE UNCHANGED ledger
    BY <2>1
  <2>2. CASE \E u \in Users, row \in WL!Rows :
               row.type # "consume" /\ ledger' = [ledger EXCEPT ![u] = Append(ledger[u], row)]
    BY <2>2, Appended
  <2>3. QED BY <2>1, <2>2, OtherSteps
<1>5. \A l \in usageLogs : rsv'[l.req] \in {"captured", "deleted"}
  BY <1>2, CapturedStays DEF ChargedOnceWhenCaptured
<1>6. \A l \in usageLogs : \E i \in ConsumeRows(Payer(l.req))' :
        /\ ledger'[Payer(l.req)][i].ref = l.ref
        /\ ledger'[Payer(l.req)][i].amount = -l.amount
  BY <1>2, <1>3 DEF ChargedOnceWhenCaptured, ConsumeRows
<1>7. \A u \in Users : \A i \in ConsumeRows(u)' :
        \E l \in usageLogs : Payer(l.req) = u /\ l.ref = ledger'[u][i].ref
  BY <1>4 DEF ChargedOnceWhenCaptured, ConsumeRows
<1>8. QED BY <1>1, <1>5, <1>6, <1>7 DEF ChargedOnceWhenCaptured, Payer

(* A request has at most one usage row, exactly one if its reservation was *)
(* captured, and usage rows and consume rows of the ledger correspond.     *)
THEOREM ChargedOnceHolds == Spec => []ChargedOnceWhenCaptured
<1>1. Init => ChargedOnceWhenCaptured
  BY DEF Init, ChargedOnceWhenCaptured, ConsumeRows
<1>2. TypeOK /\ NoEarlyReservation /\ ChargedOnceWhenCaptured /\ [Next]_vars
        => ChargedOnceWhenCaptured'
  BY SettlementCharges, OthersChargeNothing DEF Settlement
<1>3. QED BY <1>1, <1>2, TypeCorrect, NoEarlyReservationHolds, PTL DEF Spec

-----------------------------------------------------------------------------
(* Where a step may take the handler of q, and what it then holds. *)
LEMMA HandlerSteps ==
  ASSUME TypeOK, [Next]_vars, NEW q \in Requests
  PROVE  \/ pc'[q] = pc[q] /\ view'[q] = view[q]
         \/ pc'[q] \notin {"loaded", "locked", "counted", "limited"} /\ view'[q] = NoView
         \/ /\ pc[q] = "new" /\ pc'[q] = "loaded" /\ UNCHANGED key
            /\ Exists(KeyOf[q]) /\ view'[q].key = key[KeyOf[q]]
         \/ /\ pc[q] = "loaded" /\ pc'[q] = "locked" /\ UNCHANGED <<key, wallet, rsv>>
            /\ KeyFree(KeyOf[q]) /\ Callable(SessionView(q)) /\ view'[q] = SessionView(q)
         \/ /\ pc[q] = "locked" /\ pc'[q] \in {"counted", "limited"}
            /\ UNCHANGED <<key, wallet, rsv>> /\ CountPending(q) /\ view'[q] = view[q]
         \/ /\ pc[q] \in {"upstream", "answered", "failing", "unsettled"}
            /\ pc'[q] \notin {"loaded", "locked", "counted", "limited"} /\ view'[q] = view[q]
<1>1. /\ pc \in [Requests -> ControlPoints]
      /\ view \in [Requests -> [key : KeyRecords, userActive : BOOLEAN, wallet : Wallets]]
  BY DEF TypeOK
<1>2. ASSUME NEW r \in Requests, NEW point, Close(r, point)
      PROVE  IF r = q THEN pc'[q] = point /\ view'[q] = NoView
                      ELSE pc'[q] = pc[q] /\ view'[q] = view[q]
  BY <1>1, <1>2 DEF Close
<1>3. ASSUME NEW r \in Requests, NEW point, Goto(r, point)
      PROVE  pc'[q] = IF r = q THEN point ELSE pc[q]
  BY <1>1, <1>3 DEF Goto
<1>4. ASSUME NEW r \in Requests, Authenticate(r)
      PROVE  \/ pc'[q] = pc[q] /\ view'[q] = view[q]
             \/ pc'[q] \notin {"loaded", "locked", "counted", "limited"} /\ view'[q] = NoView
             \/ /\ pc[q] = "new" /\ pc'[q] = "loaded" /\ UNCHANGED key
                /\ Exists(KeyOf[q]) /\ view'[q].key = key[KeyOf[q]]
  <2>1. CASE Exists(KeyOf[r])
    BY <1>1, <1>3, <1>4, <2>1 DEF Authenticate
  <2>2. CASE ~Exists(KeyOf[r])
    BY <1>2, <1>4, <2>2 DEF Authenticate
  <2> QED BY <2>1, <2>2
<1>5. ASSUME NEW r \in Requests, LockAndCheck(r)
      PROVE  \/ pc'[q] = pc[q] /\ view'[q] = view[q]
             \/ pc'[q] \notin {"loaded", "locked", "counted", "limited"} /\ view'[q] = NoView
             \/ /\ pc[q] = "loaded" /\ pc'[q] = "locked" /\ UNCHANGED <<key, wallet, rsv>>
                /\ KeyFree(KeyOf[q]) /\ Callable(SessionView(q)) /\ view'[q] = SessionView(q)
  <2>1. CASE Close(r, "refused")
    BY <1>2, <2>1
  <2>2. CASE /\ Goto(r, "locked") /\ Callable(SessionView(r))
             /\ view' = [view EXCEPT ![r] = SessionView(r)] /\ UNCHANGED key
    BY <1>1, <1>3, <1>5, <2>2 DEF LockAndCheck, moneyVars
  <2> QED BY <1>5, <2>1, <2>2 DEF LockAndCheck
<1>6. ASSUME NEW r \in Requests, CloseForLimit(r) \/ RefuseReservation(r) \/ Reserve(r) \/ Abandon(r)
      PROVE  \/ pc'[q] = pc[q] /\ view'[q] = view[q]
             \/ pc'[q] \notin {"loaded", "locked", "counted", "limited"} /\ view'[q] = NoView
  <2>1. \E point \in {"refused", "upstream", "abandoned"} : Close(r, point)
    BY <1>6 DEF CloseForLimit, RefuseReservation, Reserve, Abandon
  <2> QED BY <1>2, <2>1
<1>10. ASSUME NEW r \in Requests, CountPending(r)
       PROVE  \/ pc'[q] = pc[q] /\ view'[q] = view[q]
              \/ pc'[q] \notin {"loaded", "locked", "counted", "limited"} /\ view'[q] = NoView
              \/ /\ pc[q] = "locked" /\ pc'[q] \in {"counted", "limited"}
                 /\ UNCHANGED <<key, wallet, rsv>> /\ CountPending(q) /\ view'[q] = view[q]
  <2>1. CASE Close(r, "refused")
    BY <1>2, <2>1
  <2>2. CASE UNCHANGED view /\ \E point \in {"counted", "limited"} : Goto(r, point)
    <3>1. pc[r] = "locked" /\ UNCHANGED <<key, wallet, rsv>>
      BY <1>10 DEF CountPending, moneyVars
    <3> QED BY <1>3, <1>10, <2>2, <3>1
  <2> QED BY <1>10, <2>1, <2>2 DEF CountPending
<1>7. ASSUME NEW r \in Requests,
             \/ UpstreamAnswers(r) \/ UsageMissing(r) \/ OnError(r)
             \/ \E class \in UpstreamErrors : UpstreamFails(r, class)
             \/ \E usage \in Usages, ref \in UpstreamIds \cup {r} :
                  Settle(r, usage, ref) \/ SettlementFails(r, usage, ref)
      PROVE  \/ pc'[q] = pc[q] /\ view'[q] = view[q]
             \/ /\ pc[q] \in {"upstream", "answered", "failing", "unsettled"}
                /\ pc'[q] \notin {"loaded", "locked", "counted", "limited"} /\ view'[q] = view[q]
  <2>1. /\ \E point \in ControlPoints \ {"loaded", "locked", "counted", "limited"} : Goto(r, point)
        /\ pc[r] \in {"upstream", "answered", "failing", "unsettled"} /\ UNCHANGED view
    BY <1>7 DEF UpstreamAnswers, UsageMissing, OnError, UpstreamFails, Settle, SettlementFails,
                FaultPoint, ControlPoints
  <2> QED BY <1>3, <2>1
<1>8. ASSUME Cleanup \/ Admin \/ UNCHANGED vars PROVE UNCHANGED <<pc, view>>
  BY <1>8 DEF Cleanup, ExpireReservations, PassDeadline, Admin, CreateKey, DeleteCheck,
     DeleteCommit, SwitchKey, UpdateLimits, SwitchUser, Recharge, AdjustBalance, handlerVars, vars
<1>9. CASE \E r \in Requests : Handler(r)
  BY <1>4, <1>5, <1>6, <1>7, <1>9, <1>10 DEF Handler
<1> QED BY <1>8, <1>9 DEF Next

(* The lock on the key keeps other admissions out, so the copy of the      *)
(* wallet an admission writes back from is the wallet.                     *)
AloneInAdmission ==
  \A r, q \in Requests :
    InAdmission(r) /\ InAdmission(q) /\ KeyOf[r] = KeyOf[q] => r = q

(* Admission by admission: what the lock of one keeps out. *)
LEMMA AloneStays ==
  ASSUME TypeOK, AloneInAdmission, [Next]_vars
  PROVE  AloneInAdmission'
<1> SUFFICES ASSUME NEW r \in Requests, NEW q \in Requests, r # q, KeyOf[r] = KeyOf[q],
                    InAdmission(r)', InAdmission(q)'
             PROVE  FALSE
  BY DEF AloneInAdmission
<1>1. \A p \in Requests : InAdmission(p)' =>
        InAdmission(p) \/ (pc[p] = "loaded" /\ pc'[p] = "locked" /\ KeyFree(KeyOf[p]))
  BY HandlerSteps DEF InAdmission
<1>2. InAdmission(r) => InAdmission(q)
  BY <1>1 DEF KeyFree
<1>3. InAdmission(q) => InAdmission(r)
  BY <1>1 DEF KeyFree
<1>4. pc[r] = "loaded" /\ pc[q] = "loaded" /\ pc'[r] = "locked" /\ pc'[q] = "locked"
  BY <1>1, <1>2, <1>3 DEF AloneInAdmission
<1>5. ASSUME NEW p \in Requests, NEW o \in Requests, p # o, pc[p] = "loaded", pc'[p] = "locked",
             pc[o] = "loaded"
      PROVE  pc'[o] = "loaded"
  <2>1. pc \in [Requests -> ControlPoints]
    BY DEF TypeOK
  <2>2. ASSUME NEW x \in Requests, Handler(x) PROVE \A y \in Requests \ {x} : pc'[y] = pc[y]
    BY <2>1, <2>2 DEF Handler, Authenticate, LockAndCheck, Deciding,
       CountPending, CloseForLimit, RefuseReservation, Reserve, UpstreamFails,
       UpstreamAnswers, UsageMissing, Settle, SettlementFails, OnError, Abandon, Goto, Close
  <2>3. ASSUME Cleanup \/ Admin \/ UNCHANGED vars PROVE UNCHANGED pc
    BY <2>3 DEF Cleanup, ExpireReservations, PassDeadline, Admin, CreateKey, DeleteCheck,
       DeleteCommit, SwitchKey, UpdateLimits, SwitchUser, Recharge, AdjustBalance, handlerVars, vars
  <2> QED BY <1>5, <2>2, <2>3 DEF Next
<1> QED BY <1>4, <1>5

LEMMA AloneInAdmissionHolds == Spec => []AloneInAdmission
<1>1. Init => AloneInAdmission
  BY DEF Init, AloneInAdmission, InAdmission
<1> QED BY <1>1, AloneStays, TypeCorrect, PTL DEF Spec

-----------------------------------------------------------------------------
(* What the rows of keys and wallets summarise: the request limit against  *)
(* the calls in progress, the counters of a key against its usage rows,    *)
(* the status of a key against the calls that write it, the reserved       *)
(* balance against the reservations.                                       *)

(* The request limit: as long as nobody changes the limits of a key, the   *)
(* calls in progress on it stay within its request limit, although         *)
(* admission decides on an old copy of the key.                            *)

CreatedOnce(k) == key[k].status # "absent"

(* The copy an admission decides on may have old counters and an old       *)
(* status, but it has the limits of the row.                               *)
CopyHasLimits ==
  \A r \in Requests : pc[r] \in {"loaded", "locked", "counted", "limited"} =>
    CreatedOnce(KeyOf[r]) /\ view[r].key.limits = key[KeyOf[r]].limits

PendingOnKeys == \A r \in Requests : rsv[r] = "pending" => CreatedOnce(KeyOf[r])

(* As PendingWithinRequestLimit, of deleted keys, too. *)
PendingWithinLimits ==
  \A k \in Keys : key[k].limits.requests # 0 => Cardinality(Pending(k)) <= key[k].limits.requests

(* What an admission that has counted holds until it reserves: meanwhile   *)
(* the reservations of its key can only end.                               *)
RoomCounted(r) ==
  LET kr == view[r].key IN
  kr.limits.requests # 0 =>
    kr.usedRequests + Cardinality(Pending(KeyOf[r])) + 1 <= kr.limits.requests
CountedHaveRoom == \A r \in Requests : pc[r] = "counted" => RoomCounted(r)

LimitInv == CopyHasLimits /\ PendingOnKeys /\ PendingWithinLimits /\ CountedHaveRoom

-----------------------------------------------------------------------------
(* What the steps leave alone.                                             *)

KeysKept ==
  \A k \in Keys : key'[k].limits = key[k].limits /\ (CreatedOnce(k) => CreatedOnce(k)')
NoneAdmitted == \A r \in Requests : rsv'[r] = "pending" => rsv[r] = "pending"
NoneLoaded ==
  \A r \in Requests : pc'[r] \in {"loaded", "locked", "counted", "limited"} =>
    /\ pc[r] \in {"loaded", "locked", "counted", "limited"} /\ view'[r].key = view[r].key
    /\ pc'[r] = "counted" => pc[r] = "counted"

(* A status other than "absent" is all that most steps write to a key. *)
LEMMA StatusKeeps ==
  ASSUME TypeOK, NEW k \in Keys, NEW s \in KeyStatuses \ {"absent"}, SetStatus(k, s)
  PROVE  KeysKept
<1>1. key' = [key EXCEPT ![k] = [key[k] EXCEPT !.status = s]]
  BY DEF SetStatus
<1>2. key \in [Keys -> KeyRecords]
  BY DEF TypeOK
<1>3. [key[k] EXCEPT !.status = s].limits = key[k].limits
  BY <1>2 DEF KeyRecords
<1>4. [key[k] EXCEPT !.status = s].status = s
  BY <1>2 DEF KeyRecords
<1> QED BY <1>1, <1>2, <1>3, <1>4 DEF KeysKept, CreatedOnce

LEMMA ClosingKeeps ==
  ASSUME TypeOK, NEW r \in Requests,
         NEW point \in ControlPoints \ {"loaded", "locked", "counted", "limited"},
         Close(r, point) \/ (Goto(r, point) /\ UNCHANGED view)
  PROVE  NoneLoaded
<1>1. /\ pc \in [Requests -> ControlPoints]
      /\ view \in [Requests -> [key : KeyRecords, userActive : BOOLEAN, wallet : Wallets]]
  BY DEF TypeOK
<1>2. pc' = [pc EXCEPT ![r] = point] /\ \A q \in Requests \ {r} : view'[q] = view[q]
  BY <1>1 DEF Close, Goto
<1> QED BY <1>1, <1>2 DEF NoneLoaded

(* Fewer calls in progress, and as many limits: the invariant stays. *)
LEMMA KeptLimits ==
  ASSUME BillingAssumption, IsFiniteSet(Requests), TypeOK, LimitInv,
         KeysKept, NoneAdmitted, NoneLoaded
  PROVE  LimitInv'
<1>1. \A r \in Requests : KeyOf[r] \in Keys
  BY DEF BillingAssumption
<1>2. CopyHasLimits'
  BY <1>1 DEF LimitInv, CopyHasLimits, KeysKept, NoneLoaded
<1>3. PendingOnKeys'
  BY <1>1 DEF LimitInv, PendingOnKeys, KeysKept, NoneAdmitted
<1>5. ASSUME NEW k \in Keys
      PROVE  /\ Cardinality(Pending(k)') <= Cardinality(Pending(k))
             /\ Cardinality(Pending(k)) \in Nat /\ Cardinality(Pending(k)') \in Nat
  <2>1. Pending(k)' \subseteq Pending(k) /\ Pending(k) \subseteq Requests
    BY DEF NoneAdmitted, Pending
  <2>2. IsFiniteSet(Pending(k))
    BY <2>1, FS_Subset
  <2> QED BY <2>1, <2>2, FS_Subset, FS_CardinalityType
<1>4. ASSUME NEW k \in Keys, key'[k].limits.requests # 0
      PROVE  Cardinality(Pending(k)') <= key'[k].limits.requests
  <2>4. key'[k].limits = key[k].limits /\ key[k].limits.requests \in Nat
    BY DEF KeysKept, TypeOK, KeyRecords, Limits
  <2> QED BY <1>4, <1>5, <2>4 DEF LimitInv, PendingWithinLimits
<1>6. ASSUME NEW r \in Requests, pc'[r] = "counted" PROVE RoomCounted(r)'
  <2>1. pc[r] = "counted" /\ view'[r].key = view[r].key
    BY <1>6 DEF NoneLoaded
  <2>2. view[r].key.usedRequests \in Nat /\ view[r].key.limits.requests \in Nat
    BY DEF TypeOK, KeyRecords, Limits
  <2>3. RoomCounted(r)
    BY <2>1 DEF LimitInv, CountedHaveRoom
  <2> QED BY <1>1, <1>5, <2>1, <2>2, <2>3 DEF RoomCounted
<1>7. CountedHaveRoom'
  BY <1>6 DEF CountedHaveRoom
<1> QED BY <1>2, <1>3, <1>4, <1>7 DEF LimitInv, PendingWithinLimits

(* Counting leaves the rows alone, and finds the room it needs. *)
LEMMA CountKeeps ==
  ASSUME BillingAssumption, IsFiniteSet(Requests), TypeOK, LimitInv, NEW r \in Requests, CountPending(r)
  PROVE  LimitInv'
<1>1. /\ pc \in [Requests -> ControlPoints] /\ pc[r] = "locked"
      /\ view \in [Requests -> [key : KeyRecords, userActive : BOOLEAN, wallet : Wallets]]
      /\ UNCHANGED <<key, rsv>>
  BY DEF TypeOK, CountPending
<1>2. /\ \A k : Pending(k)' = Pending(k)
      /\ \A q \in Requests \ {r} : pc'[q] = pc[q] /\ view'[q] = view[q]
      /\ pc'[r] \in {"limited", "counted"} => view'[r] = view[r]
      /\ pc'[r] \in {"limited", "counted", "refused"}
  BY <1>1 DEF CountPending, Goto, Close, Pending
<1>3. CopyHasLimits' /\ PendingOnKeys' /\ PendingWithinLimits'
  BY <1>1, <1>2 DEF LimitInv, CopyHasLimits, PendingOnKeys, PendingWithinLimits, CreatedOnce
<1>4. ASSUME NEW q \in Requests, pc'[q] = "counted" PROVE RoomCounted(q)'
  <2>1. CASE q # r
    BY <1>2, <1>4, <2>1 DEF LimitInv, CountedHaveRoom, RoomCounted
  <2>2. CASE q = r
    <3>1. ~RequestLimitReached(r)
      BY <1>1, <1>4, <2>2 DEF CountPending, Goto, Close
    <3>2. view[r].key.usedRequests \in Nat /\ view[r].key.limits.requests \in Nat
      BY <1>1 DEF KeyRecords, Limits
    <3>3. IsFiniteSet(Pending(KeyOf[r]))
      BY FS_Subset DEF Pending
    <3>4. Cardinality(Pending(KeyOf[r])) \in Nat
      BY <3>3, FS_CardinalityType
    <3>5. RoomCounted(r)
      BY <3>1, <3>2, <3>4 DEF RequestLimitReached, RoomCounted
    <3>6. view'[r] = view[r] /\ Pending(KeyOf[r])' = Pending(KeyOf[r])
      BY <1>2, <1>4, <2>2
    <3> QED BY <2>2, <3>5, <3>6 DEF RoomCounted
  <2> QED BY <2>1, <2>2
<1> QED BY <1>3, <1>4 DEF LimitInv, CountedHaveRoom

-----------------------------------------------------------------------------
(* The steps that do touch the three.                                      *)

LEMMA AuthenticateKeeps ==
  ASSUME BillingAssumption, TypeOK, LimitInv, NEW r \in Requests, Authenticate(r)
  PROVE  LimitInv'
<1>1. /\ pc \in [Requests -> ControlPoints]
      /\ view \in [Requests -> [key : KeyRecords, userActive : BOOLEAN, wallet : Wallets]]
      /\ UNCHANGED <<key, rsv>>
  BY DEF TypeOK, Authenticate
<1>2. ASSUME NEW q \in Requests, pc'[q] \in {"loaded", "locked", "counted", "limited"}
      PROVE  CreatedOnce(KeyOf[q])' /\ view'[q].key.limits = key'[KeyOf[q]].limits
  <2>1. CASE q # r
    <3>1. pc'[q] = pc[q] /\ view'[q] = view[q]
      BY <1>1, <2>1 DEF Authenticate, Goto, Close
    <3> QED BY <1>1, <1>2, <3>1 DEF LimitInv, CopyHasLimits, CreatedOnce
  <2>2. CASE q = r
    <3>1. Exists(KeyOf[r])
      BY <1>1, <1>2, <2>2 DEF Authenticate, Close
    <3>2. view'[r].key = key[KeyOf[r]]
      BY <1>1, <3>1 DEF Authenticate
    <3> QED BY <1>1, <2>2, <3>1, <3>2 DEF Exists, CreatedOnce
  <2> QED BY <2>1, <2>2
<1>3. ASSUME NEW q \in Requests, pc'[q] = "counted" PROVE RoomCounted(q)'
  <2>1. pc[q] = "counted" /\ view'[q] = view[q]
    BY <1>1, <1>3 DEF Authenticate, Goto, Close
  <2> QED BY <1>1, <2>1 DEF LimitInv, CountedHaveRoom, RoomCounted, Pending
<1> QED BY <1>1, <1>2, <1>3 DEF LimitInv, CopyHasLimits, PendingOnKeys, PendingWithinLimits, Pending,
    CreatedOnce, CountedHaveRoom

LEMMA ReserveKeeps ==
  ASSUME BillingAssumption, IsFiniteSet(Requests), TypeOK, AloneInAdmission, LimitInv,
         NEW r \in Requests, Reserve(r)
  PROVE  LimitInv'
<1> DEFINE k == KeyOf[r]
<1>1. k \in Keys /\ pc[r] = "counted" /\ rsv \in [Requests -> ReservationStatuses]
  BY DEF BillingAssumption, TypeOK, Reserve
<1>2. CreatedOnce(k) /\ view[r].key.limits = key[k].limits
  BY <1>1 DEF LimitInv, CopyHasLimits
<1>3. KeysKept
  <2>1. CASE UNCHANGED key
    BY <2>1 DEF KeysKept, CreatedOnce
  <2>2. CASE SetStatus(k, "active")
    BY <1>1, <2>2, StatusKeeps DEF KeyStatuses
  <2> QED BY <2>1, <2>2 DEF Reserve
<1>4. NoneLoaded
  BY ClosingKeeps DEF Reserve, ControlPoints
<1>5. rsv' = [rsv EXCEPT ![r] = "pending"]
  BY DEF Reserve
<1>6. \A q \in Requests : KeyOf[q] \in Keys
  BY DEF BillingAssumption
<1>7. CopyHasLimits'
  BY <1>3, <1>4, <1>6 DEF LimitInv, CopyHasLimits, KeysKept, NoneLoaded
<1>8. PendingOnKeys'
  BY <1>1, <1>2, <1>3, <1>5, <1>6 DEF LimitInv, PendingOnKeys, KeysKept
<1>9. ASSUME NEW l \in Keys, key'[l].limits.requests # 0
      PROVE  Cardinality(Pending(l)') <= key'[l].limits.requests
  <2>1. Pending(l) \subseteq Requests /\ IsFiniteSet(Pending(l))
    BY FS_Subset DEF Pending
  <2>2. key'[l].limits = key[l].limits /\ key[l].limits.requests \in Nat
    BY <1>3 DEF KeysKept, TypeOK, KeyRecords, Limits
  <2>3. CASE l # k
    <3>1. Pending(l)' = Pending(l)
      BY <1>1, <1>5, <2>3 DEF Pending
    <3> QED BY <1>9, <2>2, <3>1 DEF LimitInv, PendingWithinLimits
  <2>4. CASE l = k
    <3>1. Pending(l)' = Pending(l) \cup {r}
      BY <1>1, <1>5, <2>4 DEF Pending
    <3>2. /\ Cardinality(Pending(l)) \in Nat
          /\ Cardinality(Pending(l) \cup {r}) <= Cardinality(Pending(l)) + 1
      <4>1. Cardinality(Pending(l)) \in Nat
        BY <2>1, FS_CardinalityType
      <4>2. Cardinality(Pending(l) \cup {r}) =
              IF r \in Pending(l) THEN Cardinality(Pending(l)) ELSE Cardinality(Pending(l)) + 1
        BY <2>1, FS_AddElement
      <4> QED BY <4>1, <4>2
    <3>3. view[r].key.usedRequests \in Nat
      BY DEF TypeOK, KeyRecords
    <3>4. view[r].key.usedRequests + Cardinality(Pending(k)) + 1 <= view[r].key.limits.requests
      BY <1>1, <1>2, <1>9, <2>2, <2>4 DEF LimitInv, CountedHaveRoom, RoomCounted
    <3>5. Cardinality(Pending(l)) + 1 <= key[l].limits.requests
      BY <1>2, <2>2, <2>4, <3>2, <3>3, <3>4
    <3>6. Cardinality(Pending(l) \cup {r}) \in Nat
      BY <2>1, FS_AddElement, FS_CardinalityType
    <3>7. Cardinality(Pending(l)') \in Nat /\ Cardinality(Pending(l)') <= Cardinality(Pending(l)) + 1
      BY <3>1, <3>2, <3>6
    <3> QED BY <2>2, <3>2, <3>5, <3>7
  <2> QED BY <2>3, <2>4
<1>10. ASSUME NEW q \in Requests, pc'[q] = "counted" PROVE RoomCounted(q)'
  <2>1. pc[q] = "counted" /\ view'[q] = view[q] /\ q # r
    BY <1>10 DEF Reserve, Close, TypeOK
  <2>2. KeyOf[q] # k
    BY <1>1, <2>1 DEF AloneInAdmission, InAdmission
  <2>3. Pending(KeyOf[q])' = Pending(KeyOf[q])
    BY <1>1, <1>5, <2>2 DEF Pending
  <2> QED BY <2>1, <2>3 DEF LimitInv, CountedHaveRoom, RoomCounted
<1> QED BY <1>7, <1>8, <1>9, <1>10 DEF LimitInv, PendingWithinLimits, CountedHaveRoom

LEMMA CreateKeyKeeps ==
  ASSUME BillingAssumption, TypeOK, LimitInv, NEW k \in Keys, CreateKey(k)
  PROVE  LimitInv'
<1>1. PICK limits \in LimitChoices :
        key' = [key EXCEPT ![k] = [NoKey EXCEPT !.status = "active", !.limits = limits]]
  BY DEF CreateKey
<1>2. /\ key \in [Keys -> KeyRecords] /\ limits \in Limits /\ key[k].status = "absent"
      /\ UNCHANGED <<rsv, pc, view>>
  BY DEF TypeOK, BillingAssumption, CreateKey, handlerVars
<1>3. key'[k].status = "active" /\ key'[k].limits = limits
  BY <1>1, <1>2 DEF NoKey
<1>4. \A l \in Keys \ {k} : key'[l] = key[l]
  BY <1>1, <1>2
<1>5. \A q \in Requests : KeyOf[q] \in Keys
  BY DEF BillingAssumption
<1>6. CopyHasLimits' /\ PendingOnKeys'
  BY <1>2, <1>3, <1>4, <1>5 DEF LimitInv, CopyHasLimits, PendingOnKeys, CreatedOnce
<1>7. Pending(k)' = {}
  BY <1>2 DEF LimitInv, PendingOnKeys, CreatedOnce, Pending
<1>8. Cardinality({}) = 0
  BY FS_EmptySet
<1>9. \A l \in Keys \ {k} : Pending(l)' = Pending(l)
  BY <1>2 DEF Pending
<1>10. limits.requests \in Nat
  BY <1>2 DEF Limits
<1>11. ASSUME NEW l \in Keys, key'[l].limits.requests # 0
       PROVE  Cardinality(Pending(l)') <= key'[l].limits.requests
  <2>1. CASE l = k
    <3>1. Pending(l)' = {}
      BY <1>7, <2>1 DEF Pending
    <3> QED BY <1>3, <1>8, <1>10, <2>1, <3>1
  <2>2. CASE l # k
    <3>1. key'[l] = key[l] /\ Pending(l)' = Pending(l)
      BY <1>4, <1>9, <2>2
    <3> QED BY <1>11, <3>1 DEF LimitInv, PendingWithinLimits
  <2> QED BY <2>1, <2>2
<1>12. CountedHaveRoom'
  BY <1>2 DEF LimitInv, CountedHaveRoom, RoomCounted, Pending
<1> QED BY <1>6, <1>11, <1>12 DEF LimitInv, PendingWithinLimits

-----------------------------------------------------------------------------
(* All the others.                                                         *)

LEMMA HandlersKeepLimits ==
  ASSUME BillingAssumption, TypeOK, NEW r \in Requests, Handler(r),
         ~Authenticate(r), ~CountPending(r), ~Reserve(r)
  PROVE  KeysKept /\ NoneAdmitted /\ NoneLoaded
<1>1. KeyOf[r] \in Keys /\ rsv \in [Requests -> ReservationStatuses]
  BY DEF BillingAssumption, TypeOK
<1>2. UNCHANGED key => KeysKept
  BY DEF KeysKept, CreatedOnce
<1>3. UNCHANGED rsv => NoneAdmitted
  BY DEF NoneAdmitted
<1>4. ASSUME LockAndCheck(r) PROVE KeysKept /\ NoneAdmitted /\ NoneLoaded
  <2>1. CASE Close(r, "refused")
    <3>1. KeysKept
      BY <1>1, <1>2, <1>4, StatusKeeps DEF LockAndCheck, KeyStatuses
    <3> QED BY <1>3, <1>4, <2>1, <3>1, ClosingKeeps DEF LockAndCheck, ControlPoints
  <2>2. CASE UNCHANGED key /\ Goto(r, "locked") /\ view' = [view EXCEPT ![r] = SessionView(r)]
    <3>1. /\ pc \in [Requests -> ControlPoints]
          /\ view \in [Requests -> [key : KeyRecords, userActive : BOOLEAN, wallet : Wallets]]
      BY DEF TypeOK
    <3>2. SessionView(r).key = view[r].key
      BY <3>1 DEF SessionView
    <3>3. view'[r].key = view[r].key /\ \A q \in Requests \ {r} : view'[q] = view[q]
      BY <2>2, <3>1, <3>2
    <3>4. pc[r] = "loaded" /\ pc'[r] = "locked" /\ \A q \in Requests \ {r} : pc'[q] = pc[q]
      BY <1>4, <2>2, <3>1 DEF LockAndCheck, Goto
    <3>5. NoneLoaded
      BY <3>3, <3>4 DEF NoneLoaded
    <3> QED BY <1>2, <1>3, <1>4, <2>2, <3>5 DEF LockAndCheck
  <2> QED BY <1>4, <2>1, <2>2 DEF LockAndCheck
<1>5. ASSUME CloseForLimit(r) \/ RefuseReservation(r) PROVE KeysKept /\ NoneAdmitted /\ NoneLoaded
  <2>1. KeysKept
    BY <1>1, <1>2, <1>5, StatusKeeps DEF CloseForLimit, RefuseReservation, KeyStatuses
  <2> QED BY <1>3, <1>5, <2>1, ClosingKeeps DEF CloseForLimit, RefuseReservation, ControlPoints
<1>6. ASSUME UpstreamAnswers(r) \/ UsageMissing(r)
             \/ (\E class \in UpstreamErrors : UpstreamFails(r, class))
             \/ (\E usage \in Usages, ref \in UpstreamIds \cup {r} : SettlementFails(r, usage, ref))
      PROVE  KeysKept /\ NoneAdmitted /\ NoneLoaded
  <2>1. UNCHANGED <<key, rsv, view>>
    BY <1>6 DEF UpstreamAnswers, UsageMissing, UpstreamFails, SettlementFails
  <2>2. \E point \in {"answered", "failing", "unsettled"} : Goto(r, point)
    BY <1>6 DEF UpstreamAnswers, UsageMissing, UpstreamFails, SettlementFails, FaultPoint
  <2> QED BY <1>2, <1>3, <2>1, <2>2, ClosingKeeps DEF ControlPoints
<1>7. ASSUME Abandon(r) PROVE KeysKept /\ NoneAdmitted /\ NoneLoaded
  BY <1>2, <1>3, <1>7, ClosingKeeps DEF Abandon, ControlPoints
<1>8. ASSUME NEW usage \in Usages, NEW ref \in UpstreamIds \cup {r}, Settle(r, usage, ref)
      PROVE  KeysKept /\ NoneAdmitted /\ NoneLoaded
  <2>1. key \in [Keys -> KeyRecords] /\ key[KeyOf[r]] \in KeyRecords
    BY <1>1 DEF TypeOK
  <2>2. /\ Charged(key[KeyOf[r]], usage).limits = key[KeyOf[r]].limits
        /\ Charged(key[KeyOf[r]], usage).status \in {key[KeyOf[r]].status, "quota_exceeded"}
    BY <2>1 DEF Charged, KeyRecords
  <2>3. key' = [key EXCEPT ![KeyOf[r]] = Charged(key[KeyOf[r]], usage)]
    BY <1>8 DEF Settle
  <2>4. KeysKept
    BY <1>1, <2>1, <2>2, <2>3 DEF KeysKept, CreatedOnce
  <2>5. NoneAdmitted
    BY <1>1, <1>8 DEF Settle, NoneAdmitted
  <2> QED BY <1>8, <2>4, <2>5, ClosingKeeps DEF Settle, ControlPoints
<1>9. ASSUME OnError(r) PROVE KeysKept /\ NoneAdmitted /\ NoneLoaded
  <2>1. \/ UNCHANGED key
        \/ SetStatus(KeyOf[r], "quota_exceeded") \/ SetStatus(KeyOf[r], "arrears")
    BY <1>9 DEF OnError, SetStatus
  <2>2. KeysKept
    BY <1>1, <1>2, <2>1, StatusKeeps DEF KeyStatuses
  <2>3. NoneAdmitted
    BY <1>1, <1>9 DEF OnError, NoneAdmitted
  <2> QED BY <1>9, <2>2, <2>3, ClosingKeeps DEF OnError, ControlPoints
<1> QED BY <1>4, <1>5, <1>6, <1>7, <1>8, <1>9 DEF Handler

LEMMA OthersKeepLimits ==
  ASSUME BillingAssumption, "limits" \notin Administration, TypeOK,
         Cleanup \/ Admin \/ UNCHANGED vars, ~\E k \in Keys : CreateKey(k)
  PROVE  KeysKept /\ NoneAdmitted /\ NoneLoaded
<1>1. UNCHANGED handlerVars => NoneLoaded
  BY DEF handlerVars, NoneLoaded
<1>2. UNCHANGED key => KeysKept
  BY DEF KeysKept, CreatedOnce
<1>3. UNCHANGED rsv => NoneAdmitted
  BY DEF NoneAdmitted
<1>4. ASSUME Cleanup PROVE KeysKept /\ NoneAdmitted /\ NoneLoaded
  <2>1. UNCHANGED <<key, handlerVars>>
    BY <1>4 DEF Cleanup, ExpireReservations, PassDeadline
  <2>2. NoneAdmitted
    BY <1>3, <1>4 DEF Cleanup, ExpireReservations, PassDeadline, NoneAdmitted
  <2> QED BY <1>1, <1>2, <2>1, <2>2
<1>5. ASSUME NEW k \in Keys, DeleteCommit(k) PROVE KeysKept /\ NoneAdmitted /\ NoneLoaded
  <2>1. NoneAdmitted
    BY <1>5 DEF DeleteCommit, NoneAdmitted
  <2>2. KeysKept
    BY <1>5, StatusKeeps DEF DeleteCommit, KeyStatuses
  <2> QED BY <1>1, <1>5, <2>1, <2>2 DEF DeleteCommit
<1>6. ASSUME NEW k \in Keys, NEW status \in {"active", "disabled"}, SwitchKey(k, status)
      PROVE  KeysKept /\ NoneAdmitted /\ NoneLoaded
  BY <1>1, <1>3, <1>6, StatusKeeps DEF SwitchKey, KeyStatuses
<1>7. ASSUME \/ \E k \in Keys : DeleteCheck(k)
             \/ \E u \in Users, active \in BOOLEAN : SwitchUser(u, active)
             \/ \E o \in Orders : Recharge(o)
             \/ \E u \in Users, amount \in Adjustments : AdjustBalance(u, amount)
             \/ UNCHANGED vars
      PROVE  KeysKept /\ NoneAdmitted /\ NoneLoaded
  BY <1>1, <1>2, <1>3, <1>7 DEF DeleteCheck, SwitchUser, Recharge, AdjustBalance, vars, handlerVars
<1>8. \A k \in Keys, limits \in LimitChoices : ~UpdateLimits(k, limits)
  BY DEF UpdateLimits
<1> QED BY <1>4, <1>5, <1>6, <1>7, <1>8 DEF Admin

-----------------------------------------------------------------------------
(* before_request_async: if nobody changes limits, never more calls are in *)
(* progress on a key than its request limit allows, whatever admission,    *)
(* settlement, expiry, deletion and crashes do to each other.              *)
THEOREM RequestLimitHolds ==
  ASSUME IsFiniteSet(Requests), "limits" \notin Administration
  PROVE  Spec => []PendingWithinRequestLimit
<1>1. Init => LimitInv
  <2> SUFFICES ASSUME Init PROVE LimitInv
    OBVIOUS
  <2>1. \A r \in Requests : pc[r] = "new" /\ rsv[r] = "none"
    BY DEF Init
  <2>2. CopyHasLimits /\ PendingOnKeys /\ CountedHaveRoom
    BY <2>1 DEF CopyHasLimits, PendingOnKeys, CountedHaveRoom
  <2>3. \A k \in Keys : Pending(k) = {}
    BY <2>1 DEF Pending
  <2>4. PICK limits \in LimitChoices :
          key = [k \in Keys |-> IF k \in InitialKeys
                   THEN [NoKey EXCEPT !.status = "active", !.limits = limits] ELSE NoKey]
    BY DEF Init
  <2>5. \A k \in Keys : key[k].limits.requests \in Nat
    BY <2>4, BillingAssumption DEF NoKey, Limits
  <2>6. Cardinality({}) = 0
    BY FS_EmptySet
  <2> QED BY <2>2, <2>3, <2>5, <2>6 DEF LimitInv, PendingWithinLimits
<1>2. TypeOK /\ AloneInAdmission /\ LimitInv /\ [Next]_vars => LimitInv'
  <2> SUFFICES ASSUME TypeOK, AloneInAdmission, LimitInv, [Next]_vars PROVE LimitInv'
    OBVIOUS
  <2>1. CASE \E r \in Requests : Authenticate(r)
    BY <2>1, BillingAssumption, AuthenticateKeeps
  <2>2. CASE \E r \in Requests : Reserve(r)
    BY <2>2, BillingAssumption, ReserveKeeps
  <2>6. CASE \E r \in Requests : CountPending(r)
    BY <2>6, BillingAssumption, CountKeeps
  <2>3. CASE \E k \in Keys : CreateKey(k)
    BY <2>3, BillingAssumption, CreateKeyKeeps
  <2>4. CASE \E r \in Requests : Handler(r) /\ ~Authenticate(r) /\ ~CountPending(r) /\ ~Reserve(r)
    BY <2>4, BillingAssumption, HandlersKeepLimits, KeptLimits
  <2>5. CASE (Cleanup \/ Admin \/ UNCHANGED vars) /\ ~\E k \in Keys : CreateKey(k)
    BY <2>5, BillingAssumption, OthersKeepLimits, KeptLimits
  <2> QED BY <2>1, <2>2, <2>3, <2>4, <2>5, <2>6 DEF Next
<1>3. LimitInv => PendingWithinRequestLimit
  BY DEF LimitInv, PendingWithinLimits, PendingWithinRequestLimit
<1> QED BY <1>1, <1>2, <1>3, TypeCorrect, AloneInAdmissionHolds, PTL DEF Spec

-----------------------------------------------------------------------------
(* The steps that write the row of a key. *)
LEMMA KeySteps ==
  ASSUME TypeOK, [Next]_vars, NEW k \in Keys
  PROVE  \/ key'[k] = key[k]
         \/ \E r \in Requests :
              KeyOf[r] = k /\ (LockAndCheck(r) \/ Deciding(r) \/ Reserve(r) \/ OnError(r))
         \/ \E r \in Requests : KeyOf[r] = k /\
              \E usage \in Usages, ref \in UpstreamIds \cup {r} : Settle(r, usage, ref)
         \/ CreateKey(k) \/ DeleteCommit(k)
         \/ \E status \in {"active", "disabled"} : SwitchKey(k, status)
         \/ \E limits \in LimitChoices : UpdateLimits(k, limits)
<1>1. key \in [Keys -> KeyRecords]
  BY DEF TypeOK
<1>2. ASSUME NEW j \in Keys \ {k}, NEW status, SetStatus(j, status)
      PROVE  key'[k] = key[k]
  BY <1>1, <1>2 DEF SetStatus
<1>3. ASSUME NEW r \in Requests, Handler(r), KeyOf[r] # k
      PROVE  key'[k] = key[k]
  <2>1. KeyOf[r] \in Keys
    BY Indices
  <2>2. CASE LockAndCheck(r) \/ Deciding(r) \/ Reserve(r)
    BY <1>2, <1>3, <2>1, <2>2 DEF LockAndCheck, Deciding,
       CountPending, CloseForLimit, RefuseReservation, Reserve
  <2>3. CASE OnError(r)
    <3>1. UNCHANGED key \/ \E status : SetStatus(KeyOf[r], status)
      BY <2>3, Zenon DEF OnError, SetStatus
    <3> QED BY <1>2, <1>3, <2>1, <3>1
  <2>4. CASE \E usage \in Usages, ref \in UpstreamIds \cup {r} : Settle(r, usage, ref)
    BY <1>1, <1>3, <2>1, <2>4 DEF Settle
  <2> QED BY <1>3, <2>2, <2>3, <2>4 DEF Handler, Deciding, Authenticate, UpstreamFails,
      UpstreamAnswers, UsageMissing, SettlementFails, Abandon
<1>4. ASSUME NEW r \in Requests, Handler(r), KeyOf[r] = k,
             ~(LockAndCheck(r) \/ Deciding(r) \/ Reserve(r) \/ OnError(r)),
             ~\E usage \in Usages, ref \in UpstreamIds \cup {r} : Settle(r, usage, ref)
      PROVE  UNCHANGED key
  BY <1>4 DEF Handler, Deciding, Authenticate, UpstreamFails, UpstreamAnswers, UsageMissing,
     SettlementFails, Abandon
<1>5. ASSUME NEW j \in Keys \ {k},
             \/ CreateKey(j) \/ DeleteCommit(j)
             \/ \E status \in {"active", "disabled"} : SwitchKey(j, status)
             \/ \E limits \in LimitChoices : UpdateLimits(j, limits)
      PROVE  key'[k] = key[k]
  BY <1>1, <1>2, <1>5 DEF CreateKey, DeleteCommit, SwitchKey, UpdateLimits
<1>6. ASSUME \/ Cleanup \/ UNCHANGED vars
             \/ \E j \in Keys : DeleteCheck(j)
             \/ \E u \in Users, active \in BOOLEAN : SwitchUser(u, active)
             \/ \E o \in Orders : Recharge(o)
             \/ \E u \in Users, amount \in Adjustments : AdjustBalance(u, amount)
      PROVE  UNCHANGED key
  BY <1>6 DEF Cleanup, ExpireReservations, PassDeadline, vars, DeleteCheck, SwitchUser, Recharge,
     AdjustBalance
<1>7. CASE \E r \in Requests : Handler(r)
  BY <1>3, <1>4, <1>7
<1>8. CASE Admin
  BY <1>5, <1>6, <1>8 DEF Admin
<1> QED BY <1>6, <1>7, <1>8 DEF Next

-----------------------------------------------------------------------------
(* The counters of a key.                                                  *)

SameUsage(k) ==
  /\ key'[k].usedRequests = key[k].usedRequests
  /\ key'[k].usedTokens = key[k].usedTokens
  /\ key'[k].usedAmount = key[k].usedAmount

UnusedWhenAbsent ==
  \A k \in Keys : key[k].status = "absent" =>
    key[k].usedRequests = 0 /\ key[k].usedTokens = 0 /\ key[k].usedAmount = 0

LEMMA StatusLeavesUsage ==
  ASSUME TypeOK, NEW k \in Keys, NEW status, SetStatus(k, status)
  PROVE  SameUsage(k) /\ key'[k].status = status
<1>1. key \in [Keys -> KeyRecords] /\ key[k] \in KeyRecords
  BY DEF TypeOK
<1> QED BY <1>1 DEF SetStatus, KeyRecords, SameUsage

LEMMA SettlementCounts ==
  ASSUME TypeOK, NEW r \in Requests, NEW usage \in Usages, NEW ref, Settle(r, usage, ref)
  PROVE  LET k == KeyOf[r] IN
         /\ key'[k].usedRequests = key[k].usedRequests + 1
         /\ key'[k].usedTokens = key[k].usedTokens + usage.tokens
         /\ key'[k].usedAmount = key[k].usedAmount + usage.amount
         /\ key'[k].status # "absent"
         /\ \A j \in Keys \ {k} : key'[j] = key[j]
<1> DEFINE k == KeyOf[r]
<1>1. k \in Keys /\ key \in [Keys -> KeyRecords] /\ key[k] \in KeyRecords
  BY Indices DEF TypeOK
<1>2. key' = [key EXCEPT ![k] = Charged(key[k], usage)] /\ key[k].status # "absent"
  BY DEF Settle, Settleable, Exists
<1>3. key'[k] = Charged(key[k], usage) /\ \A j \in Keys \ {k} : key'[j] = key[j]
  BY <1>1, <1>2
<1> QED BY <1>1, <1>2, <1>3 DEF Charged, KeyRecords

LEMMA OthersLeaveUsage ==
  ASSUME TypeOK, UnusedWhenAbsent, [Next]_vars, ~Settlement, NEW k \in Keys
  PROVE  SameUsage(k) /\ (key'[k].status = "absent" => key[k].status = "absent")
<1>1. key \in [Keys -> KeyRecords] /\ key[k] \in KeyRecords
  BY DEF TypeOK
<1>2. CASE key'[k] = key[k]
  BY <1>2 DEF SameUsage
<1>3. CASE UNCHANGED key \/ \E status \in KeyStatuses \ {"absent"} : SetStatus(k, status)
  BY <1>3, StatusLeavesUsage DEF SameUsage
<1>4. ASSUME NEW r \in Requests, KeyOf[r] = k,
             LockAndCheck(r) \/ Deciding(r) \/ Reserve(r) \/ OnError(r)
      PROVE  UNCHANGED key \/ \E status \in KeyStatuses \ {"absent"} : SetStatus(k, status)
  <2>1. \/ UNCHANGED key
        \/ \E status \in {"arrears", "quota_exceeded", "active"} : SetStatus(k, status)
    <3>1. CASE LockAndCheck(r) \/ Deciding(r) \/ Reserve(r)
      BY <1>4, <3>1 DEF LockAndCheck, Deciding, CountPending, CloseForLimit, RefuseReservation, Reserve
    <3>2. CASE OnError(r)
      <4>1. UNCHANGED key \/ SetStatus(k, "quota_exceeded") \/ SetStatus(k, "arrears")
        BY <1>4, <3>2, Zenon DEF OnError, SetStatus
      <4> QED BY <4>1
    <3> QED BY <1>4, <3>1, <3>2
  <2> QED BY <2>1 DEF KeyStatuses
<1>5. CASE CreateKey(k)
  <2>1. PICK limits : key' = [key EXCEPT ![k] = [NoKey EXCEPT !.status = "active", !.limits = limits]]
    BY <1>5 DEF CreateKey
  <2>2. key'[k] = [NoKey EXCEPT !.status = "active", !.limits = limits]
    BY <1>1, <2>1
  <2> QED BY <1>5, <2>2 DEF CreateKey, UnusedWhenAbsent, NoKey, SameUsage
<1>6. CASE DeleteCommit(k) \/ \E status \in {"active", "disabled"} : SwitchKey(k, status)
  BY <1>3, <1>6 DEF DeleteCommit, SwitchKey, KeyStatuses
<1>7. CASE \E limits \in LimitChoices : UpdateLimits(k, limits)
  BY <1>1, <1>7 DEF UpdateLimits, KeyRecords, SameUsage
<1>8. ~\E r \in Requests : \E usage \in Usages, ref \in UpstreamIds \cup {r} : Settle(r, usage, ref)
  BY DEF Settlement
<1> QED BY <1>2, <1>3, <1>4, <1>5, <1>6, <1>7, <1>8, KeySteps

(* As CountersMatchUsageLogs, of deleted keys, too. *)
TokensOfLogs == [l \in usageLogs |-> l.tokens]
AmountsOfLogs == [l \in usageLogs |-> l.amount]
CountersOf(k) ==
  /\ key[k].usedRequests = Cardinality(LogsOfKey(k))
  /\ key[k].usedTokens = Sum(TokensOfLogs, LogsOfKey(k))
  /\ key[k].usedAmount = Sum(AmountsOfLogs, LogsOfKey(k))
CountersInv ==
  /\ IsFiniteSet(usageLogs)
  /\ UnusedWhenAbsent
  /\ \A k \in Keys : CountersOf(k)

(* The usage row a settlement writes is a new one, and it is one more row  *)
(* of its key and of no other.                                             *)
LEMMA SettlementKeepsCounters ==
  ASSUME TypeOK, ChargedOnceWhenCaptured, CountersInv,
         NEW r \in Requests, NEW usage \in Usages, NEW ref, Settle(r, usage, ref)
  PROVE  CountersInv'
<1> DEFINE k == KeyOf[r]
           log == [req |-> r, ref |-> ref, tokens |-> usage.tokens, amount |-> usage.amount]
           Logs == LogsOfKey(k)
<1>1. k \in Keys /\ usage.tokens \in Nat /\ usage.amount \in Nat
  BY Indices, BillingAssumption
<1>2. /\ \A l \in usageLogs : l.tokens \in Nat /\ l.amount \in Nat
      /\ log.req = r /\ log.tokens = usage.tokens /\ log.amount = usage.amount
  BY DEF TypeOK
<1>3. usageLogs' = usageLogs \cup {log} /\ rsv[r] = "pending"
  BY DEF Settle, Settleable
<1>4. log \notin usageLogs
  BY <1>2, <1>3 DEF ChargedOnceWhenCaptured
<1> HIDE DEF log
<1>5. LogsOfKey(k)' = Logs \cup {log} /\ \A j \in Keys \ {k} : LogsOfKey(j)' = LogsOfKey(j)
  BY <1>2, <1>3 DEF LogsOfKey
<1>6. /\ \A l \in usageLogs : TokensOfLogs'[l] = TokensOfLogs[l]
      /\ \A l \in usageLogs : AmountsOfLogs'[l] = AmountsOfLogs[l]
      /\ \A l \in usageLogs' : TokensOfLogs'[l] \in Nat /\ AmountsOfLogs'[l] \in Nat
      /\ TokensOfLogs'[log] = usage.tokens /\ AmountsOfLogs'[log] = usage.amount
  BY <1>1, <1>2, <1>3 DEF TokensOfLogs, AmountsOfLogs
<1>7. \A j \in Keys : LogsOfKey(j) \subseteq usageLogs /\ IsFiniteSet(LogsOfKey(j))
  BY FS_Subset DEF LogsOfKey, CountersInv
<1>8. IsFiniteSet(usageLogs')
  BY <1>3, FS_AddElement DEF CountersInv
<1>9. UnusedWhenAbsent'
  <2>1. \A j \in Keys : key'[j].status = "absent" => key'[j] = key[j]
    BY SettlementCounts
  <2> QED BY <2>1 DEF CountersInv, UnusedWhenAbsent
<1>10. CountersOf(k)'
  <2>1. /\ key'[k].usedRequests = key[k].usedRequests + 1
        /\ key'[k].usedTokens = key[k].usedTokens + usage.tokens
        /\ key'[k].usedAmount = key[k].usedAmount + usage.amount
    BY SettlementCounts
  <2>2. CountersOf(k)
    BY <1>1 DEF CountersInv
  <2>3. log \notin Logs /\ Logs \subseteq usageLogs /\ IsFiniteSet(Logs)
    BY <1>1, <1>4, <1>7
  <2> HIDE DEF k, Logs
  <2>4. Cardinality(Logs \cup {log}) = Cardinality(Logs) + 1
    BY <2>3, FS_AddElement
  <2>5. Sum(TokensOfLogs', Logs \cup {log}) = usage.tokens + Sum(TokensOfLogs, Logs)
    BY <1>3, <1>6, <2>3, SumExtended
  <2>6. Sum(AmountsOfLogs', Logs \cup {log}) = usage.amount + Sum(AmountsOfLogs, Logs)
    BY <1>3, <1>6, <2>3, SumExtended
  <2>7. /\ key[k].usedTokens \in Nat /\ key[k].usedAmount \in Nat
    BY <1>1 DEF TypeOK, KeyRecords
  <2>8. /\ key[k].usedRequests = Cardinality(Logs)
        /\ key[k].usedTokens = Sum(TokensOfLogs, Logs)
        /\ key[k].usedAmount = Sum(AmountsOfLogs, Logs)
    BY <2>2 DEF CountersOf, Logs
  <2>9. /\ key'[k].usedRequests = Cardinality(LogsOfKey(k)')
        /\ key'[k].usedTokens = Sum(TokensOfLogs', LogsOfKey(k)')
        /\ key'[k].usedAmount = Sum(AmountsOfLogs', LogsOfKey(k)')
    BY <1>1, <1>5, <2>1, <2>4, <2>5, <2>6, <2>7, <2>8
  <2> QED BY <2>9 DEF CountersOf, k
<1>11. ASSUME NEW j \in Keys \ {k} PROVE CountersOf(j)'
  <2>1. key'[j] = key[j] /\ LogsOfKey(j)' = LogsOfKey(j) /\ CountersOf(j)
    BY <1>5, SettlementCounts DEF CountersInv
  <2>2. /\ Sum(TokensOfLogs', LogsOfKey(j)) = Sum(TokensOfLogs, LogsOfKey(j))
        /\ Sum(AmountsOfLogs', LogsOfKey(j)) = Sum(AmountsOfLogs, LogsOfKey(j))
    BY <1>6, <1>7, SumEqual
  <2> QED BY <2>1, <2>2 DEF CountersOf
<1> QED BY <1>8, <1>9, <1>10, <1>11 DEF CountersInv

LEMMA OthersKeepCounters ==
  ASSUME TypeOK, CountersInv, [Next]_vars, ~Settlement
  PROVE  CountersInv'
<1>1. UNCHANGED usageLogs
  BY OtherSteps
<1>2. /\ \A k \in Keys : LogsOfKey(k)' = LogsOfKey(k)
      /\ TokensOfLogs' = TokensOfLogs /\ AmountsOfLogs' = AmountsOfLogs
  BY <1>1 DEF LogsOfKey, TokensOfLogs, AmountsOfLogs
<1>3. \A k \in Keys : SameUsage(k) /\ (key'[k].status = "absent" => key[k].status = "absent")
  BY OthersLeaveUsage DEF CountersInv
<1>4. UnusedWhenAbsent'
  BY <1>3 DEF CountersInv, UnusedWhenAbsent, SameUsage
<1>5. \A k \in Keys : CountersOf(k)'
  BY <1>2, <1>3 DEF CountersInv, CountersOf, SameUsage
<1> QED BY <1>1, <1>4, <1>5 DEF CountersInv

LEMMA CountersInvHolds == Spec => []CountersInv
<1>1. Init => CountersInv
  <2> SUFFICES ASSUME Init PROVE CountersInv
    OBVIOUS
  <2>1. usageLogs = {} /\ IsFiniteSet(usageLogs) /\ Cardinality({}) = 0
    BY FS_EmptySet DEF Init
  <2>2. \A k \in Keys : LogsOfKey(k) = {}
    BY <2>1 DEF LogsOfKey
  <2>3. \A k \in Keys : key[k].usedRequests = 0 /\ key[k].usedTokens = 0 /\ key[k].usedAmount = 0
    BY DEF Init, NoKey
  <2> QED BY <2>1, <2>2, <2>3, SumEmpty DEF CountersInv, UnusedWhenAbsent, CountersOf
<1>2. TypeOK /\ ChargedOnceWhenCaptured /\ CountersInv /\ [Next]_vars => CountersInv'
  BY SettlementKeepsCounters, OthersKeepCounters DEF Settlement
<1> QED BY <1>1, <1>2, TypeCorrect, ChargedOnceHolds, PTL DEF Spec

(* api_keys.used_requests, used_tokens and used_amount are at any moment   *)
(* the number and the sums of the usage rows of the key: no interleaving   *)
(* of settlements, failures and administration loses or repeats an update. *)
THEOREM CountersMatch == Spec => []CountersMatchUsageLogs
<1>1. CountersInv => CountersMatchUsageLogs
  BY DEF CountersInv, CountersOf, CountersMatchUsageLogs, TokensOfLogs, AmountsOfLogs
<1> QED BY <1>1, CountersInvHolds, PTL

-----------------------------------------------------------------------------
(* The status of a key.                                                    *)

(* What a handler still holds of the key it loaded.  From its admission on *)
(* it holds nothing; before, the counters of its copy are old ones.        *)
CopyIsOlder ==
  \A r \in Requests :
    /\ pc[r] \in {"loaded", "locked", "counted", "limited"} =>
         /\ CreatedOnce(KeyOf[r])
         /\ view[r].key.usedRequests <= key[KeyOf[r]].usedRequests
    /\ InAdmission(r) => view[r].key.status \in {"active", "arrears"}
    /\ pc[r] \in {"upstream", "answered", "failing", "unsettled"} => view[r] = NoView

(* Counters do not go back. *)
UsageGrows(k) ==
  /\ key'[k].usedRequests >= key[k].usedRequests
  /\ CreatedOnce(k) => CreatedOnce(k)'

LEMMA UsageGrowsAlways ==
  ASSUME TypeOK, UnusedWhenAbsent, [Next]_vars, NEW k \in Keys
  PROVE  UsageGrows(k)
<1>1. key[k].usedRequests \in Nat
  BY DEF TypeOK, KeyRecords
<1>2. CASE Settlement
  <2>1. PICK r \in Requests : \E usage \in Usages, ref \in UpstreamIds \cup {r} : Settle(r, usage, ref)
    BY <1>2 DEF Settlement
  <2>2. CASE KeyOf[r] = k
    BY <1>1, <2>1, <2>2, SettlementCounts DEF UsageGrows, CreatedOnce
  <2>3. CASE KeyOf[r] # k
    <3>1. key'[k] = key[k]
      BY <2>1, <2>3, SettlementCounts
    <3> QED BY <1>1, <3>1 DEF UsageGrows, CreatedOnce
  <2> QED BY <2>2, <2>3
<1>3. CASE ~Settlement
  BY <1>1, <1>3, OthersLeaveUsage DEF UsageGrows, SameUsage, CreatedOnce
<1> QED BY <1>2, <1>3

LEMMA CopyIsOlderHolds == Spec => []CopyIsOlder
<1>1. Init => CopyIsOlder
  BY DEF Init, CopyIsOlder, InAdmission
<1>2. TypeOK /\ TypeOK' /\ UnusedWhenAbsent /\ CopyIsOlder /\ [Next]_vars => CopyIsOlder'
  <2> SUFFICES ASSUME TypeOK, TypeOK', UnusedWhenAbsent, CopyIsOlder, [Next]_vars
               PROVE  CopyIsOlder'
    OBVIOUS
  <2> SUFFICES ASSUME NEW q \in Requests
               PROVE  /\ pc'[q] \in {"loaded", "locked", "counted", "limited"} =>
                           /\ CreatedOnce(KeyOf[q])'
                           /\ view'[q].key.usedRequests <= key'[KeyOf[q]].usedRequests
                      /\ InAdmission(q)' => view'[q].key.status \in {"active", "arrears"}
                      /\ pc'[q] \in {"upstream", "answered", "failing", "unsettled"} =>
                           view'[q] = NoView
    BY DEF CopyIsOlder
  <2> DEFINE k == KeyOf[q]
  <2>1. k \in Keys /\ UsageGrows(k)
    BY Indices, UsageGrowsAlways
  <2>2. /\ key[k].usedRequests \in Nat /\ key'[k].usedRequests \in Nat
        /\ view[q].key.usedRequests \in Nat
    BY <2>1 DEF TypeOK, KeyRecords
  <2>3. CASE pc'[q] = pc[q] /\ view'[q] = view[q]
    BY <2>1, <2>2, <2>3 DEF CopyIsOlder, InAdmission, UsageGrows, CreatedOnce
  <2>4. CASE pc'[q] \notin {"loaded", "locked", "counted", "limited"} /\ view'[q] = NoView
    BY <2>4 DEF InAdmission
  <2>5. CASE /\ pc'[q] = "loaded" /\ UNCHANGED key
             /\ Exists(k) /\ view'[q].key = key[k]
    BY <2>2, <2>5 DEF Exists, CreatedOnce, InAdmission
  <2>6. CASE /\ pc[q] = "loaded" /\ pc'[q] = "locked" /\ UNCHANGED key
             /\ Callable(SessionView(q)) /\ view'[q] = SessionView(q)
    <3>1. SessionView(q).key = view[q].key
      BY DEF SessionView, TypeOK
    <3> QED BY <2>6, <3>1 DEF CopyIsOlder, Callable, Revived, CreatedOnce
  <2>7. CASE /\ pc[q] \in {"upstream", "answered", "failing", "unsettled"}
             /\ pc'[q] \notin {"loaded", "locked", "counted", "limited"} /\ view'[q] = view[q]
    BY <2>7 DEF CopyIsOlder, InAdmission
  <2>8. CASE /\ pc[q] = "locked" /\ pc'[q] \in {"counted", "limited"} /\ UNCHANGED key
             /\ view'[q] = view[q]
    BY <2>8 DEF CopyIsOlder, InAdmission, CreatedOnce
  <2> QED BY <2>3, <2>4, <2>5, <2>6, <2>7, <2>8, HandlerSteps
<1>3. CountersInv => UnusedWhenAbsent
  BY DEF CountersInv
<1> QED BY <1>1, <1>2, <1>3, TypeCorrect, CountersInvHolds, PTL DEF Spec

(* Only an enable, or an admission that holds a copy from before, makes a  *)
(* disabled key callable; a settlement or a failed call can at most close  *)
(* it for its quota or its arrears.                                        *)
THEOREM ReopenedByEarlierCallsHolds == Spec => ReopenedByEarlierCalls
<1> DEFINE By(k) ==
      \E r \in Requests :
        /\ KeyOf[r] = k /\ pc'[r] # pc[r]
        /\ AdmittedEarlier(r) \/ ClosedBySettlement(r, k) \/ ClosedByFailure(r, k)
<1> DEFINE Step ==
      \A k \in Keys : key[k].status = "disabled" =>
        \/ key'[k].status \in {"disabled", "deleted"}
        \/ SwitchKey(k, "active")
        \/ By(k)
<1>1. TypeOK /\ CopyIsOlder /\ [Next]_vars => [Step]_vars
  <2> SUFFICES ASSUME TypeOK, CopyIsOlder, [Next]_vars, NEW k \in Keys, key[k].status = "disabled",
                      key'[k].status \notin {"disabled", "deleted"}, ~SwitchKey(k, "active")
               PROVE  By(k)
    OBVIOUS
  <2>1. /\ key \in [Keys -> KeyRecords] /\ pc \in [Requests -> ControlPoints]
        /\ view \in [Requests -> [key : KeyRecords, userActive : BOOLEAN, wallet : Wallets]]
    BY DEF TypeOK
  <2>2. ~CreateKey(k) /\ ~DeleteCommit(k) /\ ~SwitchKey(k, "disabled")
    BY StatusLeavesUsage DEF CreateKey, DeleteCommit, SwitchKey
  <2>3. \A limits \in LimitChoices : ~UpdateLimits(k, limits)
    BY <2>1 DEF UpdateLimits, KeyRecords
  <2>4. \/ \E r \in Requests :
             KeyOf[r] = k /\ (LockAndCheck(r) \/ Deciding(r) \/ Reserve(r) \/ OnError(r))
        \/ \E r \in Requests : KeyOf[r] = k /\
             \E usage \in Usages, ref \in UpstreamIds \cup {r} : Settle(r, usage, ref)
    BY <2>2, <2>3, KeySteps
  <2>5. ASSUME NEW r \in Requests, KeyOf[r] = k, NEW usage \in Usages, NEW ref,
               Settle(r, usage, ref)
        PROVE  ClosedBySettlement(r, k) /\ pc'[r] # pc[r]
    <3>1. key'[k] = Charged(key[k], usage) /\ key[k] \in KeyRecords
      BY <2>1, <2>5 DEF Settle
    <3>2. pc[r] = "answered" /\ pc'[r] = "served"
      BY <2>1, <2>5 DEF Settle, Goto
    <3> QED BY <3>1, <3>2 DEF Charged, AtLimit, KeyRecords, ClosedBySettlement
  <2>6. ASSUME NEW r \in Requests, KeyOf[r] = k, OnError(r)
        PROVE  ClosedByFailure(r, k) /\ pc'[r] # pc[r]
    <3>1. pc[r] \in {"failing", "unsettled"} /\ pc'[r] \in {"unbilled", "failed"}
      BY <2>1, <2>6 DEF OnError, Goto
    <3>2. \/ fault[r] = "quota" /\ SetStatus(k, "quota_exceeded")
          \/ fault[r] = "arrears" /\ SetStatus(k, "arrears")
          \/ UNCHANGED key
      BY <2>6, Zenon DEF OnError, SetStatus
    <3> QED BY <3>1, <3>2, StatusLeavesUsage DEF ClosedByFailure
  <2>7. ASSUME NEW r \in Requests, KeyOf[r] = k, CloseForLimit(r) \/ Reserve(r)
        PROVE  AdmittedEarlier(r) /\ pc'[r] # pc[r]
    BY <2>1, <2>7 DEF CloseForLimit, Reserve, Close, CopyIsOlder, InAdmission, AdmittedEarlier
  <2>8. ASSUME NEW r \in Requests, KeyOf[r] = k, LockAndCheck(r)
        PROVE  AdmittedEarlier(r) /\ pc'[r] # pc[r]
    <3>1. pc[r] = "loaded" /\ Close(r, "refused") /\ Callable(SessionView(r))
      BY <2>8 DEF LockAndCheck
    <3>2. SessionView(r).key = view[r].key
      BY <2>1 DEF SessionView
    <3> QED BY <2>1, <3>1, <3>2 DEF Close, Callable, Revived, AdmittedEarlier
  <2>9. \A r \in Requests : ~CountPending(r) /\ ~RefuseReservation(r)
    BY DEF CountPending, RefuseReservation
  <2> QED BY <2>4, <2>5, <2>6, <2>7, <2>8, <2>9 DEF Deciding
<1> QED BY <1>1, TypeCorrect, CopyIsOlderHolds, PTL DEF Spec, ReopenedByEarlierCalls

(* Every call is counted at most once: the counter of the copy is at most  *)
(* the number of usage rows, each of which ended one admitted call, and    *)
(* the pending calls are others.                                           *)
EndedOn(k) == {q \in Requests : KeyOf[q] = k /\ rsv[q] \in {"captured", "deleted"}}

LEMMA RowsEndedCalls ==
  ASSUME IsFiniteSet(Requests), TypeOK, ChargedOnceWhenCaptured, NEW k \in Keys
  PROVE  Cardinality(LogsOfKey(k)) <= Cardinality(EndedOn(k))
<1> DEFINE caller == [l \in LogsOfKey(k) |-> l.req]
<1>1. IsFiniteSet(EndedOn(k))
  BY FS_Subset DEF EndedOn
<1>2. \A l \in LogsOfKey(k) : l.req \in EndedOn(k)
  BY DEF LogsOfKey, EndedOn, ChargedOnceWhenCaptured, TypeOK
<1>3. \A l, m \in LogsOfKey(k) : l.req = m.req => l = m
  BY DEF LogsOfKey, ChargedOnceWhenCaptured
<1>4. caller \in Injection(LogsOfKey(k), EndedOn(k))
  BY <1>2, <1>3 DEF Injection, IsInjective
<1> QED BY <1>1, <1>4, FS_Injection

LEMMA CountedOnce ==
  ASSUME IsFiniteSet(Requests), TypeOK, ChargedOnceWhenCaptured, CountersInv, CopyIsOlder,
         NEW r \in Requests, pc[r] = "locked"
  PROVE  view[r].key.usedRequests + Cardinality(Pending(KeyOf[r])) <= Cardinality(AdmittedOn(KeyOf[r]))
<1> DEFINE k == KeyOf[r]
<1>1. k \in Keys
  BY Indices
<1>2. /\ IsFiniteSet(Pending(k)) /\ IsFiniteSet(EndedOn(k)) /\ IsFiniteSet(AdmittedOn(k))
      /\ IsFiniteSet(Pending(k) \cup EndedOn(k))
  BY FS_Subset, FS_Union DEF Pending, EndedOn, AdmittedOn
<1>3. Pending(k) \cap EndedOn(k) = {} /\ Pending(k) \cup EndedOn(k) \subseteq AdmittedOn(k)
  BY DEF Pending, EndedOn, AdmittedOn
<1>4. /\ Cardinality(Pending(k)) \in Nat /\ Cardinality(EndedOn(k)) \in Nat
      /\ Cardinality(AdmittedOn(k)) \in Nat
      /\ Cardinality({}) = 0
  BY <1>2, FS_CardinalityType, FS_EmptySet
<1>5. Cardinality(Pending(k) \cup EndedOn(k)) = Cardinality(Pending(k)) + Cardinality(EndedOn(k))
  <2>1. Cardinality(Pending(k) \cup EndedOn(k)) =
          Cardinality(Pending(k)) + Cardinality(EndedOn(k)) - Cardinality(Pending(k) \cap EndedOn(k))
    BY <1>2, FS_Union
  <2>2. Cardinality(Pending(k) \cap EndedOn(k)) = 0
    BY <1>3, <1>4
  <2> HIDE DEF k
  <2> QED BY <1>4, <2>1, <2>2, SMT
<1>6. Cardinality(Pending(k)) + Cardinality(EndedOn(k)) <= Cardinality(AdmittedOn(k))
  BY <1>2, <1>3, <1>5, FS_Subset
<1>7. view[r].key.usedRequests <= key[k].usedRequests /\ view[r].key.usedRequests \in Nat
  BY DEF CopyIsOlder, TypeOK, KeyRecords
<1>8. key[k].usedRequests = Cardinality(LogsOfKey(k)) /\ key[k].usedRequests \in Nat
  BY <1>1 DEF CountersInv, CountersOf, TypeOK, KeyRecords
<1>9. Cardinality(LogsOfKey(k)) <= Cardinality(EndedOn(k))
  BY <1>1, RowsEndedCalls
<1> QED BY <1>4, <1>6, <1>7, <1>8, <1>9

(* A key is closed for its request limit only when that many calls were    *)
(* admitted on it: old counters and a later count of the pending           *)
(* reservations never count a call twice, and what the cleanup loop ends   *)
(* meanwhile had been admitted.                                            *)
THEOREM LimitUsedUpHolds ==
  ASSUME IsFiniteSet(Requests)
  PROVE  Spec => []LimitUsedUp
<1>1. Init => LimitUsedUp
  BY DEF Init, LimitUsedUp
<1>2. TypeOK /\ NoEarlyReservation /\ ChargedOnceWhenCaptured /\ CountersInv /\ CopyIsOlder
        /\ LimitUsedUp /\ [Next]_vars => LimitUsedUp'
  <2> SUFFICES ASSUME TypeOK, NoEarlyReservation, ChargedOnceWhenCaptured, CountersInv, CopyIsOlder,
                      LimitUsedUp, [Next]_vars, NEW r \in Requests, pc'[r] = "limited"
               PROVE  Cardinality(AdmittedOn(KeyOf[r])') >= view'[r].key.limits.requests
    BY DEF LimitUsedUp
  <2> DEFINE k == KeyOf[r]
             limit == view[r].key.limits.requests
  <2>1. AdmittedOn(k) \subseteq AdmittedOn(k)'
    BY ReservationSteps DEF AdmittedOn, NoEarlyReservation
  <2>2. IsFiniteSet(AdmittedOn(k)) /\ IsFiniteSet(AdmittedOn(k)')
    BY FS_Subset DEF AdmittedOn
  <2>3. /\ Cardinality(AdmittedOn(k)) <= Cardinality(AdmittedOn(k)')
        /\ Cardinality(AdmittedOn(k)) \in Nat /\ Cardinality(AdmittedOn(k)') \in Nat
    BY <2>1, <2>2, FS_Subset, FS_CardinalityType
  <2>4. limit \in Nat /\ view[r].key.usedRequests \in Nat
    BY DEF TypeOK, KeyRecords, Limits
  <2>5. CASE pc[r] = "limited" /\ view'[r] = view[r]
    BY <2>3, <2>4, <2>5 DEF LimitUsedUp
  <2>6. CASE pc[r] = "locked" /\ CountPending(r) /\ view'[r] = view[r]
    <3>1. RequestLimitReached(r)
      <4>1. pc \in [Requests -> ControlPoints]
        BY DEF TypeOK
      <4> QED BY <2>6, <4>1 DEF CountPending, Goto, Close
    <3>2. IsFiniteSet(Pending(k))
      BY FS_Subset DEF Pending
    <3>3. Cardinality(Pending(k)) \in Nat
      BY <3>2, FS_CardinalityType
    <3>4. view[r].key.usedRequests + Cardinality(Pending(k)) <= Cardinality(AdmittedOn(k))
      BY <2>6, CountedOnce
    <3> QED BY <2>3, <2>4, <2>6, <3>1, <3>3, <3>4 DEF RequestLimitReached
  <2> QED BY <2>5, <2>6, HandlerSteps
<1> QED
  BY <1>1, <1>2, TypeCorrect, NoEarlyReservationHolds, ChargedOnceHolds, CountersInvHolds,
     CopyIsOlderHolds, PTL DEF Spec

-----------------------------------------------------------------------------
(* The reserved balance of a wallet with one key.                          *)

Undisturbed(u) ==
  /\ OneKeyWallet(u)
  /\ \A r \in RequestsOf(u) : r \notin overdue /\ rsv[r] # "deleted"

BackedWallet(u) ==
  /\ wallet[u].reserved = ReservedFor(u)
  /\ \A r \in RequestsOf(u) : InAdmission(r) => view[r].wallet.reserved = wallet[u].reserved
ReservedInv == AloneInAdmission /\ \A u \in Users : Undisturbed(u) => BackedWallet(u)

PendingOf(u) == {r \in RequestsOf(u) : rsv[r] = "pending"}

LEMMA UndisturbedBefore ==
  ASSUME TypeOK, NoEarlyReservation, [Next]_vars, NEW u \in Users, Undisturbed(u)'
  PROVE  Undisturbed(u)
<1>1. overdue \subseteq overdue'
  <2>1. ASSUME NEW r \in Requests, Handler(r) PROVE UNCHANGED overdue
    BY <2>1 DEF Handler, Authenticate, LockAndCheck, Deciding,
       CountPending, CloseForLimit, RefuseReservation, Reserve, UpstreamFails,
       UpstreamAnswers, UsageMissing, Settle, SettlementFails, OnError, Abandon
  <2>2. ASSUME Cleanup PROVE overdue \subseteq overdue'
    BY <2>2 DEF Cleanup, ExpireReservations, PassDeadline
  <2>3. ASSUME Admin \/ UNCHANGED vars PROVE UNCHANGED overdue
    BY <2>3 DEF Admin, CreateKey, DeleteCheck, DeleteCommit, SwitchKey, UpdateLimits, SwitchUser,
       Recharge, AdjustBalance, vars
  <2> QED BY <2>1, <2>2, <2>3 DEF Next
<1>2. \A r \in Requests : rsv[r] = "deleted" => rsv'[r] = "deleted"
  BY ReservationSteps DEF NoEarlyReservation
<1> QED BY <1>1, <1>2 DEF Undisturbed, OneKeyWallet, RequestsOf, Payer

LEMMA PendingOfSum ==
  ASSUME IsFiniteSet(Requests), NEW u
  PROVE  /\ IsFiniteSet(PendingOf(u)) /\ PendingOf(u) \subseteq Requests
         /\ \A r \in PendingOf(u) : EstAmount[r] \in Nat
         /\ ReservedFor(u) = Sum(EstAmount, PendingOf(u))
<1>1. PendingOf(u) \subseteq Requests
  BY DEF PendingOf, RequestsOf
<1>2. IsFiniteSet(PendingOf(u))
  BY <1>1, FS_Subset
<1>3. \A r \in Requests : EstAmount[r] \in Nat
  BY BillingAssumption
<1> QED BY <1>1, <1>2, <1>3 DEF ReservedFor, PendingOf

(* Nothing a wallet's reserved balance is about has changed. *)
Quiet(u) == wallet'[u].reserved = wallet[u].reserved /\ PendingOf(u)' = PendingOf(u)

(* A reservation that ends in its own handler gives back its amount. *)
Released(r) ==
  /\ pc[r] \in {"answered", "failing", "unsettled"} /\ KeyFree(KeyOf[r])
  /\ rsv[r] = "pending" /\ PendingOf(Payer(r))' = PendingOf(Payer(r)) \ {r}
  /\ wallet'[Payer(r)].reserved = Less(wallet[Payer(r)].reserved, EstAmount[r])

LEMMA EndingSteps ==
  ASSUME TypeOK, NEW r \in Requests, NEW u \in Users,
         OnError(r) \/ \E usage \in Usages, ref \in UpstreamIds \cup {r} : Settle(r, usage, ref)
  PROVE  Quiet(u) \/ (Payer(r) = u /\ Released(r))
<1>1. /\ rsv \in [Requests -> ReservationStatuses] /\ wallet \in [Users -> Wallets]
      /\ wallet[Payer(r)] \in Wallets
  BY Indices DEF TypeOK
<1>2. /\ pc[r] \in {"answered", "failing", "unsettled"} /\ KeyFree(KeyOf[r])
      /\ \/ /\ rsv[r] = "pending"
            /\ \E status \in {"captured", "failed"} : rsv' = [rsv EXCEPT ![r] = status]
            /\ \E w : /\ wallet' = [wallet EXCEPT ![Payer(r)] = w]
                      /\ w.reserved = Less(wallet[Payer(r)].reserved, EstAmount[r])
         \/ UNCHANGED <<rsv, wallet>>
  <2>1. CASE OnError(r)
    <3>1. [wallet[Payer(r)] EXCEPT !.reserved = Less(wallet[Payer(r)].reserved, EstAmount[r])].reserved
            = Less(wallet[Payer(r)].reserved, EstAmount[r])
      BY <1>1 DEF Wallets
    <3> QED BY <2>1, <3>1 DEF OnError
  <2>2. CASE \E usage \in Usages, ref \in UpstreamIds \cup {r} : Settle(r, usage, ref)
    <3>1. PICK usage \in Usages, ref \in UpstreamIds \cup {r} : Settle(r, usage, ref)
      BY <2>2
    <3> DEFINE w == [balance |-> wallet[Payer(r)].balance - usage.amount,
                     reserved |-> Less(wallet[Payer(r)].reserved, EstAmount[r])]
    <3>2. wallet' = [wallet EXCEPT ![Payer(r)] = w]
      BY <3>1 DEF Settle
    <3>3. w.reserved = Less(wallet[Payer(r)].reserved, EstAmount[r])
      OBVIOUS
    <3> HIDE DEF w
    <3>4. rsv[r] = "pending" /\ rsv' = [rsv EXCEPT ![r] = "captured"]
      BY <3>1 DEF Settle, Settleable
    <3> QED BY <3>1, <3>2, <3>3, <3>4 DEF Settle
  <2> QED BY <2>1, <2>2
<1>3. CASE UNCHANGED <<rsv, wallet>>
  BY <1>3 DEF Quiet, PendingOf, RequestsOf, Payer
<1>4. CASE /\ rsv[r] = "pending"
           /\ \E status \in {"captured", "failed"} : rsv' = [rsv EXCEPT ![r] = status]
           /\ \E w : /\ wallet' = [wallet EXCEPT ![Payer(r)] = w]
                     /\ w.reserved = Less(wallet[Payer(r)].reserved, EstAmount[r])
  <2>1. /\ rsv'[r] # "pending" /\ \A q \in Requests \ {r} : rsv'[q] = rsv[q]
        /\ wallet'[Payer(r)].reserved = Less(wallet[Payer(r)].reserved, EstAmount[r])
        /\ \A v \in Users \ {Payer(r)} : wallet'[v] = wallet[v]
    BY <1>1, <1>4, Indices
  <2>2. PendingOf(Payer(r))' = PendingOf(Payer(r)) \ {r}
    BY <2>1 DEF PendingOf, RequestsOf, Payer
  <2>3. \A v \in Users \ {Payer(r)} : PendingOf(v)' = PendingOf(v)
    BY <2>1 DEF PendingOf, RequestsOf, Payer
  <2> QED BY <1>2, <1>4, <2>1, <2>2, <2>3 DEF Quiet, Released
<1> QED BY <1>2, <1>3, <1>4

LEMMA ExpirySteps ==
  ASSUME IsFiniteSet(Requests), TypeOK, NEW u \in Users, Undisturbed(u), ExpireReservations
  PROVE  Quiet(u)
<1>1. {r \in Expired : Payer(r) = u} = {}
  BY DEF Expired, Undisturbed, RequestsOf, TypeOK
<1>2. ExpiredAmount(u) = 0
  BY <1>1, SumEmpty DEF ExpiredAmount
<1>3. wallet[u] \in Wallets
  BY DEF TypeOK
<1>4. wallet'[u] = [wallet[u] EXCEPT !.reserved = Less(wallet[u].reserved, 0)]
  BY <1>2 DEF ExpireReservations
<1>5. wallet'[u].reserved = wallet[u].reserved
  BY <1>3, <1>4 DEF Less, Wallets
<1>6. \A r \in RequestsOf(u) : rsv'[r] = rsv[r]
  BY DEF ExpireReservations, Expired, Undisturbed, RequestsOf
<1>7. PendingOf(u)' = PendingOf(u)
  BY <1>6 DEF PendingOf, RequestsOf, Payer
<1> QED BY <1>5, <1>7 DEF Quiet

LEMMA ReservedSteps ==
  ASSUME IsFiniteSet(Requests), TypeOK, [Next]_vars, NEW u \in Users, Undisturbed(u), Undisturbed(u)'
  PROVE  Quiet(u) \/ \E r \in RequestsOf(u) : Reserve(r) \/ Released(r)
<1>1. /\ rsv \in [Requests -> ReservationStatuses] /\ wallet \in [Users -> Wallets]
      /\ wallet[u] \in Wallets
  BY DEF TypeOK
<1>2. CASE UNCHANGED <<rsv, wallet>>
  BY <1>2 DEF Quiet, PendingOf, RequestsOf, Payer
<1>3. ASSUME NEW r \in Requests, Reserve(r), Payer(r) # u PROVE Quiet(u)
  <2>1. /\ rsv' = [rsv EXCEPT ![r] = "pending"]
        /\ wallet' = [wallet EXCEPT ![Payer(r)] =
             WrittenBack(wallet[Payer(r)], view[r].wallet, EstAmount[r])]
    BY <1>3 DEF Reserve
  <2>2. wallet'[u] = wallet[u] /\ \A q \in Requests \ {r} : rsv'[q] = rsv[q]
    BY <1>1, <1>3, <2>1
  <2> QED BY <1>3, <2>2 DEF Quiet, PendingOf, RequestsOf, Payer
<1>4. ASSUME NEW r \in Requests, Handler(r), ~Reserve(r), ~OnError(r),
             ~\E usage \in Usages, ref \in UpstreamIds \cup {r} : Settle(r, usage, ref)
      PROVE  UNCHANGED <<rsv, wallet>>
  BY <1>4 DEF Handler, Authenticate, LockAndCheck, Deciding,
     CountPending, CloseForLimit, RefuseReservation, UpstreamFails,
     UpstreamAnswers, UsageMissing, SettlementFails, Abandon, moneyVars
<1>5. CASE \E r \in Requests : Handler(r)
  BY <1>2, <1>3, <1>4, <1>5, EndingSteps DEF RequestsOf
<1>6. ASSUME NEW k \in Keys, DeleteCommit(k) PROVE Quiet(u)
  <2>1. \A r \in RequestsOf(u) : rsv'[r] = rsv[r]
    BY <1>1, <1>6 DEF DeleteCommit, Undisturbed, RequestsOf, Payer
  <2>2. UNCHANGED wallet
    BY <1>6 DEF DeleteCommit, moneyVars
  <2> QED BY <2>1, <2>2 DEF Quiet, PendingOf, RequestsOf, Payer
<1>7. ASSUME \/ \E o \in Orders : Recharge(o)
             \/ \E v \in Users, amount \in Adjustments : AdjustBalance(v, amount)
      PROVE  Quiet(u)
  <2>1. UNCHANGED rsv
    BY <1>7 DEF Recharge, AdjustBalance
  <2>2. \E v \in Users : \E after : wallet' = [wallet EXCEPT ![v].balance = after]
    BY <1>7, BillingAssumption DEF Recharge, AdjustBalance
  <2>3. wallet'[u].reserved = wallet[u].reserved
    BY <1>1, <2>2 DEF Wallets
  <2> QED BY <2>1, <2>3 DEF Quiet, PendingOf, RequestsOf, Payer
<1>8. ASSUME \/ UNCHANGED vars \/ \E r \in Requests : PassDeadline(r)
             \/ \E k \in Keys : CreateKey(k) \/ DeleteCheck(k)
             \/ \E k \in Keys, status \in {"active", "disabled"} : SwitchKey(k, status)
             \/ \E k \in Keys, limits \in LimitChoices : UpdateLimits(k, limits)
             \/ \E v \in Users, active \in BOOLEAN : SwitchUser(v, active)
      PROVE  UNCHANGED <<rsv, wallet>>
  BY <1>8 DEF vars, PassDeadline, CreateKey, DeleteCheck, SwitchKey, UpdateLimits, SwitchUser,
     moneyVars
<1>9. CASE Cleanup
  BY <1>2, <1>8, <1>9, ExpirySteps DEF Cleanup
<1>10. CASE Admin
  BY <1>2, <1>6, <1>7, <1>8, <1>10 DEF Admin
<1> QED BY <1>2, <1>5, <1>8, <1>9, <1>10 DEF Next

LEMMA BackedStays ==
  ASSUME IsFiniteSet(Requests), TypeOK, NoEarlyReservation, ReservedInv, [Next]_vars,
         NEW u \in Users, Undisturbed(u)'
  PROVE  BackedWallet(u)'
<1>1. Undisturbed(u) /\ BackedWallet(u)
  BY UndisturbedBefore DEF ReservedInv
<1>2. /\ wallet \in [Users -> Wallets] /\ wallet[u].reserved \in Nat
      /\ rsv \in [Requests -> ReservationStatuses]
      /\ view \in [Requests -> [key : KeyRecords, userActive : BOOLEAN, wallet : Wallets]]
  BY DEF TypeOK, Wallets
<1>3. /\ ReservedFor(u) = Sum(EstAmount, PendingOf(u)) /\ IsFiniteSet(PendingOf(u))
      /\ ReservedFor(u)' = Sum(EstAmount, PendingOf(u)') /\ PendingOf(u) \subseteq Requests
      /\ \A r \in PendingOf(u) : EstAmount[r] \in Nat
  <2>1. ReservedFor(u)' = Sum(EstAmount, PendingOf(u)')
    BY DEF ReservedFor, PendingOf
  <2> QED BY <2>1, PendingOfSum
(* A handler in its admission has read the wallet since the lock was free. *)
<1>4. ASSUME wallet'[u].reserved = wallet[u].reserved
      PROVE  \A q \in RequestsOf(u) : InAdmission(q)' => view'[q].wallet.reserved = wallet'[u].reserved
  <2> SUFFICES ASSUME NEW q \in RequestsOf(u), InAdmission(q)'
               PROVE  view'[q].wallet.reserved = wallet[u].reserved
    BY <1>4
  <2>1. q \in Requests /\ Payer(q) = u
    BY DEF RequestsOf
  <2>2. CASE InAdmission(q) /\ view'[q] = view[q]
    BY <1>1, <2>2 DEF BackedWallet
  <2>3. CASE view'[q] = SessionView(q)
    BY <1>2, <2>1, <2>3 DEF SessionView
  <2> QED BY <2>1, <2>2, <2>3, HandlerSteps DEF InAdmission
<1>5. CASE Quiet(u)
  BY <1>1, <1>3, <1>4, <1>5 DEF Quiet, BackedWallet, RequestsOf, Payer
<1>6. ASSUME NEW r \in RequestsOf(u), Reserve(r)
      PROVE  BackedWallet(u)'
  <2>1. /\ r \in Requests /\ Payer(r) = u /\ EstAmount[r] \in Nat /\ InAdmission(r)
        /\ ~InAdmission(r)'
    BY <1>6, BillingAssumption DEF RequestsOf, Reserve, Close, TypeOK, InAdmission
  <2>2. view[r].wallet.reserved = wallet[u].reserved
    BY <1>1, <2>1 DEF BackedWallet
  <2>3. rsv[r] = "none" /\ rsv' = [rsv EXCEPT ![r] = "pending"]
    BY <1>6, <2>1 DEF NoEarlyReservation, Reserve, InAdmission
  <2>4. PendingOf(u)' = PendingOf(u) \cup {r} /\ r \notin PendingOf(u)
    BY <1>2, <2>1, <2>3 DEF PendingOf, RequestsOf, Payer
  <2>5. ReservedFor(u)' = EstAmount[r] + ReservedFor(u)
    BY <1>3, <2>1, <2>4, SumAdd
  <2>6. wallet'[u].reserved = wallet[u].reserved + EstAmount[r]
    <3>1. wallet'[u] = WrittenBack(wallet[u], view[r].wallet, EstAmount[r]) /\ wallet[u] \in Wallets
      BY <1>2, <1>6, <2>1 DEF Reserve
    <3> QED BY <1>2, <2>1, <2>2, <3>1 DEF WrittenBack, Wallets
  <2>7. wallet'[u].reserved = ReservedFor(u)'
    BY <1>1, <1>2, <2>1, <2>5, <2>6 DEF BackedWallet
  <2>8. \A q \in RequestsOf(u)' : ~InAdmission(q)'
    <3> SUFFICES ASSUME NEW q \in RequestsOf(u), InAdmission(q)' PROVE FALSE
      BY DEF RequestsOf, Payer
    <3>1. InAdmission(q) /\ q # r /\ q \in Requests
      BY <1>6, <2>1 DEF Reserve, Close, TypeOK, RequestsOf, InAdmission
    <3>2. KeyOf[q] = KeyOf[r]
      BY <1>1, <2>1, <3>1, Indices DEF Undisturbed, OneKeyWallet, RequestsOf, Payer
    <3> QED BY <2>1, <3>1, <3>2 DEF ReservedInv, AloneInAdmission
  <2> QED BY <2>7, <2>8 DEF BackedWallet
<1>7. ASSUME NEW r \in RequestsOf(u), Released(r)
      PROVE  BackedWallet(u)'
  <2>1. r \in Requests /\ Payer(r) = u /\ r \in PendingOf(u)
    BY <1>7 DEF RequestsOf, PendingOf, Released
  <2>2. PendingOf(u)' = PendingOf(u) \ {r} /\ IsFiniteSet(PendingOf(u)')
    BY <1>3, <1>7, <2>1, FS_RemoveElement DEF Released
  <2>3. ReservedFor(u) = EstAmount[r] + ReservedFor(u)' /\ ReservedFor(u)' \in Nat
    BY <1>3, <2>1, <2>2, SumRemove, SumNat
  <2>4. EstAmount[r] \in Nat
    BY <1>3, <2>1
  <2>5. wallet'[u].reserved = ReservedFor(u)'
    BY <1>1, <1>2, <1>7, <2>1, <2>3, <2>4 DEF Released, Less, BackedWallet
  <2>6. \A q \in RequestsOf(u)' : ~InAdmission(q)'
    <3> SUFFICES ASSUME NEW q \in RequestsOf(u), InAdmission(q)' PROVE FALSE
      BY DEF RequestsOf, Payer
    <3>1. q \in Requests /\ Payer(q) = u
      BY DEF RequestsOf
    <3>2. KeyOf[q] = KeyOf[r]
      BY <1>1, <2>1, <3>1, Indices DEF Undisturbed, OneKeyWallet, Payer
    <3>3. ~InAdmission(q)
      BY <1>7, <3>1, <3>2 DEF Released, KeyFree
    <3>4. UNCHANGED rsv
      BY <3>1, <3>3, HandlerSteps DEF InAdmission
    <3> QED BY <2>1, <2>2, <3>4 DEF PendingOf, RequestsOf, Payer
  <2> QED BY <2>5, <2>6 DEF BackedWallet
<1> QED BY <1>1, <1>5, <1>6, <1>7, ReservedSteps

(* wallet_accounts.reserved_balance is the sum of the pending reservations *)
(* of its wallet, as long as the wallet has one key and no reservation was *)
(* left to the cleanup loop or deleted with its key.                       *)
THEOREM ReservedBacks ==
  ASSUME IsFiniteSet(Requests)
  PROVE  Spec => []ReservedBacksPending
<1>1. Init => ReservedInv
  <2> SUFFICES ASSUME Init PROVE ReservedInv
    OBVIOUS
  <2>1. \A r \in Requests : ~InAdmission(r) /\ rsv[r] # "pending"
    BY DEF Init, InAdmission
  <2>2. \A u \in Users : ReservedFor(u) = 0
    <3>1. \A u \in Users : {r \in RequestsOf(u) : rsv[r] = "pending"} = {}
      BY <2>1 DEF RequestsOf
    <3> QED BY <3>1, SumEmpty DEF ReservedFor
  <2>3. \A u \in Users : wallet[u].reserved = 0
    BY DEF Init
  <2> QED BY <2>1, <2>2, <2>3 DEF ReservedInv, AloneInAdmission, BackedWallet, RequestsOf
<1>2. TypeOK /\ NoEarlyReservation /\ ReservedInv /\ [Next]_vars => ReservedInv'
  <2> SUFFICES ASSUME TypeOK, NoEarlyReservation, ReservedInv, [Next]_vars PROVE ReservedInv'
    OBVIOUS
  <2>1. AloneInAdmission'
    BY AloneStays DEF ReservedInv
  <2>2. \A u \in Users : Undisturbed(u)' => BackedWallet(u)'
    BY BackedStays
  <2> QED BY <2>1, <2>2 DEF ReservedInv
<1>3. ReservedInv => ReservedBacksPending
  BY DEF ReservedInv, ReservedBacksPending, Undisturbed, BackedWallet
<1> QED BY <1>1, <1>2, <1>3, TypeCorrect, NoEarlyReservationHolds, PTL DEF Spec
=============================================================================
