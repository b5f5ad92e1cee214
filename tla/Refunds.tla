------------------------------ MODULE Refunds ------------------------------
(***************************************************************************)
(* Refunds of recharges: a user's request is split over the orders that    *)
(* paid for the balance, and an administrator's approval refunds item by   *)
(* item at the channel and debits the wallet for each.                     *)
(*                                                                         *)
(* approve_refund is one request session that calls the channel and        *)
(* commits several times.  It works on the copies of the request, its      *)
(* items and the wallet it loaded first; the ORM writes an attribute when  *)
(* the session changed it, and a commit leaves the copies as they are, so  *)
(* what others commit meanwhile is neither seen nor protected.  desk[a] is *)
(* what such a session holds.  The module is about one user: every query   *)
(* of the code is restricted to the user of the request.                   *)
(***************************************************************************)
EXTENDS PaymentChannels, Sequences, Sums

CONSTANTS
  Owner,          \* the user
  Orders,         \* the user's paid orders
  OrderAmount,    \* [Orders -> Nat]
  PaidAt,         \* [Orders -> Nat], the order of payment, no two alike
  OrderMethod,    \* [Orders -> Methods], payment_orders.payment_method
  Slow,           \* the orders whose channel may answer "processing"
  Closes,         \* those of them whose refund WeChat may close unpaid
  Cent,           \* units of 0.0001 yuan in the smallest refundable amount
  InitialBalance, \* Nat
  Refunds,        \* ids of refund requests
  Creators,       \* sessions of create_refund
  Admins,         \* sessions of approve_refund and reject_refund
  Persistent,     \* those of them that keep approving (see FairSpec)
  MayReject,      \* BOOLEAN: requests are rejected, too
  Postings,       \* other changes of the balance: recharges and charges
  PostingAmount   \* [Postings -> Int]

ASSUME RefundAssumption ==
  /\ Cent \in Nat \ {0} /\ InitialBalance \in Nat
  /\ OrderAmount \in [Orders -> Nat] /\ \A o \in Orders : OrderAmount[o] % Cent = 0
  /\ PaidAt \in [Orders -> Nat] /\ \A o, p \in Orders : PaidAt[o] = PaidAt[p] => o = p
  /\ OrderMethod \in [Orders -> Methods]
  /\ Slow \subseteq Orders /\ Closes \subseteq {o \in Slow : OrderMethod[o] = "wechat"}
  /\ Persistent \subseteq Admins /\ MayReject \in BOOLEAN
  /\ PostingAmount \in [Postings -> Int]

RefundStatuses == {"absent", "pending", "processing", "refunded", "rejected"}
ItemStatuses == {"pending", "processing", "refunded"}
Items == [order : Orders, amount : Nat, status : ItemStatuses]
ItemIds == Refunds \X (1 .. Cardinality(Orders))
Idle == [at |-> "idle"]

VARIABLES
  status,  \* [Refunds -> RefundStatuses], refund_requests.status
  items,   \* [Refunds -> Seq(Items)], refund_items by ascending id
  balance, \* wallet_accounts.balance
  ledger,  \* the rows of wallet_ledger
  channel, \* [ItemIds -> RefundStates], the refund at the channel, by refund_no
  draft,   \* [Creators -> what create_refund has read], or Idle
  desk     \* [Admins -> what an approval or rejection holds], or Idle

vars == <<status, items, balance, ledger, channel, draft, desk>>
walletVars == <<balance, ledger>>

(* What a posting may be of: of an order in part or in full, or another one. *)
Amounts ==
  {PostingAmount[m] : m \in Postings}
    \cup UNION {{-n : n \in 0 .. OrderAmount[o]} : o \in Orders}

WL == INSTANCE WalletLedger
        WITH Users <- {Owner}, InitialBalance <- [u \in {Owner} |-> InitialBalance],
             References <- ItemIds \cup Postings, Amounts <- Amounts,
             balance <- [u \in {Owner} |-> balance], ledger <- [u \in {Owner} |-> ledger]

Drafts ==
  [at : {"summarised"}, amount : Nat] \cup [at : {"allocated"}, items : Seq(Items)]
ApprovalSteps ==
  {"item", "unsent", "unclear", "slow", "paid", "debited", "failing", "rejecting"}
Desks ==
  [at : ApprovalSteps, refund : Refunds, base : RefundStatuses \cup {"expired"},
   now : RefundStatuses \cup {"expired"}, seen : Seq(ItemStatuses \cup {"expired"}),
   purse : Nat, next : Nat, total : Nat]

TypeOK ==
  /\ status \in [Refunds -> RefundStatuses]
  /\ items \in [Refunds -> Seq(Items)]
  /\ balance \in Nat
  /\ ledger \in Seq(WL!Rows)
  /\ channel \in [ItemIds -> RefundStates]
  /\ draft \in [Creators -> Drafts \cup {Idle}]
  /\ desk \in [Admins -> Desks \cup {Idle}]

Init ==
  /\ status = [q \in Refunds |-> "absent"]
  /\ items = [q \in Refunds |-> <<>>]
  /\ balance = InitialBalance
  /\ ledger = <<>>
  /\ channel = [x \in ItemIds |-> "none"]
  /\ draft = [s \in Creators |-> Idle]
  /\ desk = [a \in Admins |-> Idle]

-----------------------------------------------------------------------------
(* create_refund.                                                          *)

(* Mutant: a request whose refund is under way no longer counts. *)
CountedPending == {q \in Refunds : status[q] \in {"pending", "refunded"}}

(* The items of a request, by the numbers their refunds have at a channel. *)
ItemsOf(q) == {<<q, i>> : i \in DOMAIN items[q]}
ItemAt(x) == items[x[1]][x[2]]
AmountOf(S) == Sum([x \in S |-> ItemAt(x).amount], S)

(* The requests whose items count against the orders. *)
Counted == {q \in Refunds : status[q] \in {"pending", "processing", "refunded"}}

AllocatedTo(o, requests) ==
  AmountOf({x \in UNION {ItemsOf(q) : q \in requests} : ItemAt(x).order = o})

Available(o) == Max({0, OrderAmount[o] - AllocatedTo(o, Counted)})
AvailableOf(S) == Sum([o \in S |-> Available(o)], S)

Floor(x) == x - (x % Cent)

(* _build_refund_summary: what is left of the recharges, and in the wallet. *)
Refundable ==
  LET recharged == Sum(OrderAmount, Orders)
      claimed == AmountOf(UNION {ItemsOf(q) : q \in Counted})
  IN  Floor(Max({0, Min({balance, recharged - claimed})}))

Summarise(s) ==
  /\ draft[s] = Idle
  /\ \A q \in Refunds : status[q] # "pending"
  /\ Refundable > 0
  /\ draft' = [draft EXCEPT ![s] = [at |-> "summarised", amount |-> Refundable]]
  /\ UNCHANGED <<status, items, walletVars, channel, desk>>

(* The orders with the most left are used first, then the latest.          *)
Candidates == {o \in Orders : Available(o) > 0}
Precedes(o, p) ==
  \/ Available(o) > Available(p)
  \/ Available(o) = Available(p) /\ PaidAt[o] > PaidAt[p]
CoveredBefore(o) == AvailableOf({p \in Candidates : Precedes(p, o)})

(* _build_refund_allocations. *)
Allocation(amount) ==
  LET used == {o \in Candidates : CoveredBefore(o) < amount}
      nth(i) == CHOOSE o \in used : Cardinality({p \in used : Precedes(p, o)}) = i - 1
  IN  [i \in 1 .. Cardinality(used) |->
        [order |-> nth(i), status |-> "pending",
         amount |-> Min({Available(nth(i)), amount - CoveredBefore(nth(i))})]]

(* The allocations are computed before the commit; if the orders do not    *)
(* cover the amount any more, the request is refused.                      *)
Allocate(s) ==
  /\ draft[s] # Idle /\ draft[s].at = "summarised"
  /\ draft' = [draft EXCEPT ![s] =
       IF AvailableOf(Candidates) >= draft[s].amount
         THEN [at |-> "allocated", items |-> Allocation(draft[s].amount)]
         ELSE Idle]
  /\ UNCHANGED <<status, items, walletVars, channel, desk>>

CommitRequest(s, q) ==
  /\ draft[s] # Idle /\ draft[s].at = "allocated"
  /\ status[q] = "absent"
  /\ status' = [status EXCEPT ![q] = "pending"]
  /\ items' = [items EXCEPT ![q] = draft[s].items]
  /\ draft' = [draft EXCEPT ![s] = Idle]
  /\ UNCHANGED <<walletVars, channel, desk>>

(* The process dies before the commit. *)
LoseDraft(s) ==
  /\ draft[s] # Idle
  /\ draft' = [draft EXCEPT ![s] = Idle]
  /\ UNCHANGED <<status, items, walletVars, channel, desk>>

-----------------------------------------------------------------------------
(* approve_refund.                                                         *)

At(a, point) == desk[a] # Idle /\ desk[a].at = point
Claimed(q, unpaid) == AmountOf({x \in ItemsOf(q) : ItemAt(x).status \in unpaid})

(* The item the session is at. *)
Position(a) == <<desk[a].refund, desk[a].next>>
Item(a) == items[desk[a].refund][desk[a].next]
HasItem(a) == At(a, "item") /\ desk[a].next <= Len(desk[a].seen)

(* The item's status as the session sees it; after a rollback it is read anew. *)
Seen(a) == IF desk[a].seen[desk[a].next] = "expired" THEN Item(a).status
                                                     ELSE desk[a].seen[desk[a].next]

(* Mutant: an approval is not repeated once items were refunded. *)
OnlyPending == {"pending"}
Approvable == {"pending", "processing"}

(* Load the request, its items and the wallet, and check that the balance  *)
(* covers what is not refunded yet.                                        *)
LoadApproval(a, q) ==
  /\ desk[a] = Idle
  /\ status[q] \in Approvable /\ items[q] # <<>>
  /\ balance >= Claimed(q, {"pending", "processing"})
  /\ desk' = [desk EXCEPT ![a] =
       [at |-> "item", refund |-> q, base |-> status[q], now |-> status[q],
        seen |-> [i \in DOMAIN items[q] |-> items[q][i].status],
        purse |-> balance, next |-> 1, total |-> 0]]
  /\ UNCHANGED <<status, items, walletVars, channel, draft>>

(* An item already refunded is counted, one under way is left alone. *)
SkipItem(a) ==
  /\ HasItem(a)
  /\ \/ /\ Seen(a) = "refunded"
        /\ desk' = [desk EXCEPT ![a].next = @ + 1, ![a].total = @ + Item(a).amount]
     \/ /\ Seen(a) = "processing"
        /\ desk' = [desk EXCEPT ![a].next = @ + 1, ![a].now = "processing"]
  /\ UNCHANGED <<status, items, walletVars, channel, draft>>

Method(a) == OrderMethod[Item(a).order]
Busy(a) == Item(a).order \in Slow
QueryResults(a) == RefundQueried(Method(a), channel[Position(a)], Busy(a))

AskChannel(a) ==
  /\ HasItem(a) /\ Seen(a) = "pending"
  /\ \E result \in QueryResults(a) : desk' = [desk EXCEPT ![a].at = result]
  /\ UNCHANGED <<status, items, walletVars, channel, draft>>

(* Could the channel refund the item: is that much of the order left?      *)
RefundedOf(o) ==
  AmountOf({x \in UNION {ItemsOf(q) : q \in Refunds} :
              ItemAt(x).order = o /\ channel[x] \in {"processing", "done"}})
Coverable(a) == RefundedOf(Item(a).order) + Item(a).amount <= OrderAmount[Item(a).order]

(* What the refund is at the channel after the request: the channel knows  *)
(* it by its number and makes it once.                                     *)
AfterRequest(a) ==
  {channel[Position(a)]} \cup
    IF /\ channel[Position(a)] = "none" /\ Coverable(a)
       /\ Acceptable(Method(a), Item(a).amount, OrderAmount[Item(a).order])
      THEN {"done"} \cup (IF Busy(a) /\ Method(a) # "alipay" THEN {"processing"} ELSE {})
      ELSE {}

SendRefund(a) ==
  /\ At(a, "unsent")
  /\ \E state \in AfterRequest(a) :
       /\ channel' = [channel EXCEPT ![Position(a)] = state]
       /\ \E result \in Refunded(Method(a), state, Busy(a)) :
            desk' = [desk EXCEPT ![a].at = result]
  /\ UNCHANGED <<status, items, walletVars, draft>>

(* After an error the channel is asked again; unless it knows the refund,  *)
(* the error is raised.                                                    *)
AskAgain(a) ==
  /\ At(a, "unclear")
  /\ \E result \in QueryResults(a) :
       desk' = [desk EXCEPT ![a].at = IF result = "unsent" THEN "failing" ELSE result]
  /\ UNCHANGED <<status, items, walletVars, channel, draft>>

(* What a commit writes of the request's status: a change, or nothing. *)
Flushed(a, now) ==
  IF now # desk[a].base THEN [status EXCEPT ![desk[a].refund] = now] ELSE status

(* The item is under way: it and the request are marked and committed. *)
MarkSlow(a) ==
  LET q == desk[a].refund IN
  /\ At(a, "slow")
  /\ items' = [items EXCEPT ![q][desk[a].next].status = "processing"]
  /\ status' = Flushed(a, "processing")
  /\ desk' = [desk EXCEPT ![a].at = "item", ![a].next = @ + 1,
                          ![a].base = "processing", ![a].now = "processing"]
  /\ UNCHANGED <<walletVars, channel, draft>>

(* Mutant: a debit is made whatever it leaves. *)
AnyBalance(left) == TRUE
Covered(left) == left >= 0

(* Mutant: the unique constraint on ledger references is missing. *)
AlwaysNew(a) == TRUE
NewDebit(a) == ~WL!Posted("refund", Position(a))

(* apply_balance_change: the wallet row is locked, but the session's copy  *)
(* of it is what the amount is taken from.  A taken reference rolls back,  *)
(* which expires every copy, and is treated as a debit already made.       *)
Debit(a) ==
  LET left == desk[a].purse - Item(a).amount IN
  /\ At(a, "paid")
  /\ \/ /\ ~Covered(left)
        /\ desk' = [desk EXCEPT ![a].at = "failing"]
        /\ UNCHANGED <<status, walletVars>>
     \/ /\ Covered(left) /\ NewDebit(a)
        /\ balance' = left
        /\ ledger' = Append(ledger, [type |-> "refund", ref |-> Position(a),
                                     amount |-> -Item(a).amount, after |-> left])
        /\ status' = Flushed(a, desk[a].now)
        /\ desk' = [desk EXCEPT ![a].at = "debited", ![a].purse = left, ![a].base = desk[a].now]
     \/ /\ Covered(left) /\ ~NewDebit(a)
        /\ desk' = [desk EXCEPT ![a].at = "debited", ![a].purse = balance,
                                ![a].base = "expired", ![a].now = "expired",
                                ![a].seen = [i \in DOMAIN @ |-> "expired"]]
        /\ UNCHANGED <<status, walletVars>>
  /\ UNCHANGED <<items, channel, draft>>

(* The item is marked in a commit of its own, and the request refreshed. *)
RecordItem(a) ==
  LET q == desk[a].refund IN
  /\ At(a, "debited")
  /\ items' = [items EXCEPT ![q][desk[a].next].status = "refunded"]
  /\ status' = Flushed(a, "processing")
  /\ desk' = [desk EXCEPT ![a].at = "item", ![a].next = @ + 1,
                          ![a].total = @ + Item(a).amount,
                          ![a].base = status'[q], ![a].now = status'[q]]
  /\ UNCHANGED <<walletVars, channel, draft>>

(* Commit the request's status and end. *)
Conclude(a, now) ==
  /\ status' = Flushed(a, now)
  /\ desk' = [desk EXCEPT ![a] = Idle]
  /\ UNCHANGED <<items, walletVars, channel, draft>>

(* An HTTPException: the request is open again unless items were refunded. *)
FailApproval(a) ==
  At(a, "failing") /\ Conclude(a, IF desk[a].total > 0 THEN "processing" ELSE "pending")

(* Mutant: the request is closed once anything was paid back. *)
AnythingRefunded(a) == desk[a].total > 0
Complete(a) == desk[a].total >= Claimed(desk[a].refund, ItemStatuses)

FinishApproval(a) ==
  /\ At(a, "item") /\ ~HasItem(a)
  /\ Conclude(a, IF Complete(a) THEN "refunded" ELSE "processing")

(* The process dies: what was not committed is lost. *)
LoseDesk(a) ==
  /\ desk[a] # Idle
  /\ desk' = [desk EXCEPT ![a] = Idle]
  /\ UNCHANGED <<status, items, walletVars, channel, draft>>

-----------------------------------------------------------------------------
(* reject_refund reads the status and then writes it. *)
LoadRejection(a, q) ==
  /\ MayReject /\ desk[a] = Idle
  /\ status[q] = "pending"
  /\ desk' = [desk EXCEPT ![a] =
       [at |-> "rejecting", refund |-> q, base |-> "pending", now |-> "rejected",
        seen |-> <<>>, purse |-> 0, next |-> 1, total |-> 0]]
  /\ UNCHANGED <<status, items, walletVars, channel, draft>>

Reject(a) == At(a, "rejecting") /\ Conclude(a, "rejected")

(* A slow refund arrives at the user, or is closed. *)
ChannelCompletes(x) ==
  /\ channel[x] = "processing"
  /\ channel' = [channel EXCEPT ![x] = "done"]
  /\ UNCHANGED <<status, items, walletVars, draft, desk>>

ChannelCloses(x) ==
  /\ channel[x] = "processing" /\ ItemAt(x).order \in Closes
  /\ channel' = [channel EXCEPT ![x] = "closed"]
  /\ UNCHANGED <<status, items, walletVars, draft, desk>>

(* A recharge or a charge (see RechargeOrders and UsageBilling). *)
OtherPosting(m) ==
  LET after == balance + PostingAmount[m] IN
  /\ ~\E type \in WL!RowTypes : WL!Posted(type, m)
  /\ after >= 0
  /\ balance' = after
  /\ ledger' = Append(ledger,
       [type |-> IF PostingAmount[m] < 0 THEN "consume" ELSE "recharge",
        ref |-> m, amount |-> PostingAmount[m], after |-> after])
  /\ UNCHANGED <<status, items, channel, draft, desk>>

-----------------------------------------------------------------------------
Create(s) ==
  \/ Summarise(s) \/ Allocate(s) \/ LoseDraft(s)
  \/ \E q \in Refunds : CommitRequest(s, q)

ApprovalStep(a) ==
  \/ SkipItem(a) \/ AskChannel(a) \/ SendRefund(a) \/ AskAgain(a) \/ MarkSlow(a)
  \/ Debit(a) \/ RecordItem(a) \/ FailApproval(a) \/ FinishApproval(a)

Next ==
  \/ \E s \in Creators : Create(s)
  \/ \E a \in Admins : ApprovalStep(a) \/ LoseDesk(a) \/ Reject(a)
  \/ \E a \in Admins, q \in Refunds : LoadApproval(a, q) \/ LoadRejection(a, q)
  \/ \E x \in ItemIds : ChannelCompletes(x) \/ ChannelCloses(x)
  \/ \E m \in Postings : OtherPosting(m)

Spec == Init /\ [][Next]_vars

(* Some administrator keeps trying ("部分退款已完成，请继续处理"), not      *)
(* every attempt dies, and a channel that keeps being asked answers at     *)
(* times; the others may do, or leave undone, what they like.              *)
ChannelKnows(a) ==
  AskChannel(a) /\ channel[Position(a)] = "done" /\ desk'[a].at = "paid"
FairSpec ==
  /\ Spec
  /\ \A x \in ItemIds : WF_vars(ChannelCompletes(x))
  /\ \A a \in Persistent :
       /\ WF_vars(ApprovalStep(a) \/ Reject(a))
       /\ \A q \in Refunds : SF_vars(LoadApproval(a, q))
       /\ SF_vars(SkipItem(a)) /\ SF_vars(ChannelKnows(a))
       /\ SF_vars(MarkSlow(a)) /\ SF_vars(Debit(a)) /\ SF_vars(RecordItem(a))
       /\ SF_vars(FinishApproval(a))

-----------------------------------------------------------------------------
(* Properties.                                                             *)

DebitsFor(x) == {j \in DOMAIN ledger : ledger[j].type = "refund" /\ ledger[j].ref = x}

(* approve_refund against itself, crashes between its commits and lost     *)
(* answers of the channel: an item is debited at most once and for its     *)
(* amount, only after the channel refunded it, and it is marked refunded   *)
(* only when it was debited.                                               *)
ItemsDebitedOnce ==
  \A q \in Refunds : \A x \in ItemsOf(q) :
    /\ \A j, k \in DebitsFor(x) : j = k
    /\ \A j \in DebitsFor(x) :
         channel[x] = "done" /\ ledger[j].amount = -ItemAt(x).amount
    /\ ItemAt(x).status = "refunded" => DebitsFor(x) # {}

(* approve_refund where WeChat closes refunds unpaid after their first      *)
(* answer was lost, which query_refund takes for a success: the debit of an *)
(* item still is its only one and of its amount, and the channel has made   *)
(* the refund unless its order is one of those.                             *)
DebitedButForClosed ==
  \A q \in Refunds : \A x \in ItemsOf(q) :
    /\ \A j, k \in DebitsFor(x) : j = k
    /\ \A j \in DebitsFor(x) : ledger[j].amount = -ItemAt(x).amount
    /\ DebitsFor(x) # {} => channel[x] = "done" \/ ItemAt(x).order \in Closes
    /\ ItemAt(x).status = "refunded" => DebitsFor(x) # {}

(* A request is closed as refunded only when every part of it was.         *)
RefundedInFull ==
  \A q \in Refunds : status[q] = "refunded" =>
    \A x \in ItemsOf(q) : DebitsFor(x) # {}

(* _build_refund_allocations, one request after the other, whatever became *)
(* of the earlier ones: what open requests are to refund of an order, and  *)
(* what its channel has refunded or is refunding, is never more than it    *)
(* paid.                                                                   *)
RefundsOf(o) ==
  {x \in UNION {ItemsOf(q) : q \in Refunds} :
     /\ ItemAt(x).order = o
     /\ status[x[1]] # "rejected" \/ channel[x] \in {"processing", "done"}}
RefundedWithinOrders ==
  \A o \in Orders : AmountOf(RefundsOf(o)) <= OrderAmount[o]

(* approve_refund turns a request away that is closed, or that the balance *)
(* does not cover any more.                                                *)
TurnedAway(q) ==
  status[q] \notin {"pending", "processing"} \/ balance < Claimed(q, {"pending", "processing"})

(* What the channel paid back is taken off the wallet in the end, whatever *)
(* answers and processes were lost: the next approval finds the refund at  *)
(* the channel, unless approvals are turned away from some time on.        *)
PaidBackIsDebited ==
  \A x \in ItemIds : channel[x] = "done" ~> (DebitsFor(x) # {} \/ []TurnedAway(x[1]))

(* One account has one open request at a time                              *)
(* ("一个账号仅可存在一笔处理中退款申请").                                 *)
OneOpenRequest ==
  \A q, p \in Refunds :
    status[q] \in {"pending", "processing"} /\ status[p] \in {"pending", "processing"} => q = p

(* A rejected request paid nothing back ("不符合退款条件"). *)
RejectedPaysNothing ==
  \A q \in Refunds : status[q] = "rejected" => \A x \in ItemsOf(q) : channel[x] = "none"

(* _build_refund_allocations takes a part of an order where that is what is *)
(* left to refund; the item is one that the order's channel will pay.      *)
ItemsPayable ==
  \A q \in Refunds : \A x \in ItemsOf(q) :
    LET o == ItemAt(x).order IN Acceptable(OrderMethod[o], ItemAt(x).amount, OrderAmount[o])

(* A request that was interrupted is refused for lack of balance           *)
(* ("当前用户余额不足，无法原路退款") only when the balance does not cover  *)
(* what was not paid back yet.                                             *)
NotDebited(q) == {x \in ItemsOf(q) : DebitsFor(x) = {}}
RefusedForBalance ==
  (\A a \in Admins : desk[a] = Idle) =>
    \A q \in Refunds :
      /\ status[q] \in {"pending", "processing"}
      /\ balance < Claimed(q, {"pending", "processing"})
      => balance < AmountOf(NotDebited(q))

(* Refunds, recharges and charges do not overwrite each other's balance.   *)
ImplementsWalletLedger == WL!Spec
=============================================================================
