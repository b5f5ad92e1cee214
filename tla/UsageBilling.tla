---------------------------- MODULE UsageBilling ----------------------------
(***************************************************************************)
(* A metered API call, from the reservation taken before the upstream call *)
(* to the settlement after it, with everything that touches the same rows  *)
(* meanwhile: other calls on the same key or wallet, the cleanup loop, key *)
(* administration, recharges and balance adjustments.                      *)
(*                                                                         *)
(* A step is one database transaction, except where a transaction reads a  *)
(* row and acts on the copy later.  The request session is such a place:   *)
(* it holds the ApiKey and User objects loaded at authentication, and the  *)
(* ORM keeps their attributes when it later locks the same rows; the       *)
(* wallet is read before it is locked.  view[r] is that copy.              *)
(*                                                                         *)
(* The database is PostgreSQL at its default isolation, read committed.    *)
(* The branch for SQLite, which serves local runs and the tests, is left   *)
(* out.                                                                    *)
(***************************************************************************)
EXTENDS Integers, Sequences, Sums

CONSTANTS
  Users, Keys, Requests,
  UserOf,         \* [Keys -> Users]
  KeyOf,          \* [Requests -> Keys]
  Streaming,      \* the requests answered by a StreamingResponse
  Metered,        \* the requests whose answer always has a usage, or an estimate
  EstTokens, EstAmount, \* [Requests -> Nat], what estimate_reserved_amount returns
  Usages,         \* [tokens, amount] pairs a settlement may arrive at
  UpstreamIds,    \* ids the upstream may report, besides the request's own
  UpstreamErrors, \* classes of the message of a failed upstream call
  InitialKeys,    \* the keys that exist at the start
  LimitChoices,   \* limits an owner may set; 0 stands for None and for 0
  InitialBalance, \* [Users -> Nat]
  Orders, OrderUser, OrderAmount, \* recharge orders the channels may report paid
  Adjustments,    \* amounts an administrator may post
  Administration  \* which administrative operations take part

Limits == [tokens : Nat, requests : Nat, amount : Nat]
ErrorClasses == {"other", "quota", "arrears"}

ASSUME BillingAssumption ==
  /\ UserOf \in [Keys -> Users]
  /\ KeyOf \in [Requests -> Keys]
  /\ Streaming \subseteq Requests /\ Metered \subseteq Requests
  /\ EstTokens \in [Requests -> Nat] /\ EstAmount \in [Requests -> Nat]
  /\ Usages \subseteq [tokens : Nat, amount : Nat]
  /\ UpstreamErrors \subseteq ErrorClasses
  /\ InitialKeys \subseteq Keys
  /\ LimitChoices \subseteq Limits
  /\ InitialBalance \in [Users -> Nat]
  /\ OrderUser \in [Orders -> Users] /\ OrderAmount \in [Orders -> Nat]
  /\ Adjustments \subseteq Int

References == Requests \cup UpstreamIds \cup Orders \cup Users

KeyStatuses == {"absent", "active", "disabled", "arrears", "quota_exceeded", "deleted"}
KeyRecords == [status : KeyStatuses, limits : Limits,
               usedTokens : Nat, usedRequests : Nat, usedAmount : Nat]
Wallets == [balance : Nat, reserved : Nat]
ReservationStatuses == {"none", "pending", "captured", "failed", "expired", "deleted"}
ControlPoints ==
  {"new", "loaded", "locked", "counted", "limited", "upstream", "answered", "failing",
   "unsettled", "refused", "served", "failed", "unbilled", "abandoned"}

VARIABLES
  userActive,  \* [Users -> BOOLEAN], users.status = "active"
  key,         \* [Keys -> KeyRecords], the rows of api_keys
  wallet,      \* [Users -> Wallets], the rows of wallet_accounts
  ledger,      \* [Users -> sequences of rows], wallet_ledger
  rsv,         \* [Requests -> ReservationStatuses], usage_reservations
  overdue,     \* the requests whose reservation is past expires_at
  usageLogs,   \* the success rows of usage_logs
  pc,          \* [Requests -> ControlPoints], where the handler of r is
  view,        \* [Requests -> [key, userActive, wallet]], the session's copies
  fault,       \* [Requests -> ErrorClasses], the message handed to on_error
  deleting     \* keys whose deletion has passed its pending check

vars == <<userActive, key, wallet, ledger, rsv, overdue, usageLogs, pc, view,
          fault, deleting>>
moneyVars == <<wallet, ledger, usageLogs>>
handlerVars == <<pc, view, fault>>

(* Every amount a row of this module may carry. *)
LedgerAmounts == {-usage.amount : usage \in Usages}
                   \cup {OrderAmount[o] : o \in Orders} \cup Adjustments

WL == INSTANCE WalletLedger
        WITH balance <- [u \in Users |-> wallet[u].balance],
             Amounts <- LedgerAmounts

NoKey == [status |-> "absent", limits |-> [tokens |-> 0, requests |-> 0, amount |-> 0],
          usedTokens |-> 0, usedRequests |-> 0, usedAmount |-> 0]
NoView == [key |-> NoKey, userActive |-> TRUE, wallet |-> [balance |-> 0, reserved |-> 0]]

TypeOK ==
  /\ userActive \in [Users -> BOOLEAN]
  /\ key \in [Keys -> KeyRecords]
  /\ wallet \in [Users -> Wallets]
  /\ ledger \in [Users -> Seq(WL!Rows)]
  /\ rsv \in [Requests -> ReservationStatuses]
  /\ overdue \subseteq Requests
  /\ usageLogs \subseteq [req : Requests, ref : References, tokens : Nat, amount : Nat]
  /\ pc \in [Requests -> ControlPoints]
  /\ view \in [Requests -> [key : KeyRecords, userActive : BOOLEAN, wallet : Wallets]]
  /\ fault \in [Requests -> ErrorClasses]
  /\ deleting \subseteq Keys

-----------------------------------------------------------------------------
Payer(r) == UserOf[KeyOf[r]]
Exists(k) == key[k].status \notin {"absent", "deleted"}
Available(w) == w.balance - w.reserved

(* Mutant: the reserved balance is not clamped at zero. *)
LessUnclamped(reserved, amount) == reserved - amount

(* max(Decimal("0.0000"), reserved_balance - amount) *)
Less(reserved, amount) == IF reserved - amount \in Nat THEN reserved - amount ELSE 0

(* Mutant: a captured reservation still counts as pending. *)
PendingOrCaptured(k) == {r \in Requests : KeyOf[r] = k /\ rsv[r] \in {"pending", "captured"}}
Pending(k) == {r \in Requests : KeyOf[r] = k /\ rsv[r] = "pending"}

(* A handler between its lock on the key row and its commit. *)
InAdmission(r) == pc[r] \in {"locked", "counted", "limited"}
UnlockedKey(k) == TRUE \* Mutant: the key row is read without FOR UPDATE.
KeyFree(k) == \A r \in Requests : InAdmission(r) => KeyOf[r] # k

(* Mutant: the call itself is not counted against the request limit. *)
OverLimitOffByOne(kr, tokens, amount) ==
  \/ kr.limits.tokens # 0 /\ kr.usedTokens + tokens > kr.limits.tokens
  \/ kr.limits.requests # 0 /\ kr.usedRequests > kr.limits.requests
  \/ kr.limits.amount # 0 /\ kr.usedAmount + amount > kr.limits.amount

(* Would a call of that size pass one of the limits?  A limit of None or   *)
(* zero is falsy in the code and means no limit.                           *)
OverLimit(kr, tokens, amount) ==
  \/ kr.limits.tokens # 0 /\ kr.usedTokens + tokens > kr.limits.tokens
  \/ kr.limits.requests # 0 /\ kr.usedRequests + 1 > kr.limits.requests
  \/ kr.limits.amount # 0 /\ kr.usedAmount + amount > kr.limits.amount

AtLimit(kr) ==
  \/ kr.limits.amount # 0 /\ kr.usedAmount >= kr.limits.amount
  \/ kr.limits.tokens # 0 /\ kr.usedTokens >= kr.limits.tokens
  \/ kr.limits.requests # 0 /\ kr.usedRequests >= kr.limits.requests

SetStatus(k, status) == key' = [key EXCEPT ![k].status = status]
Close(r, point) ==
  /\ pc' = [pc EXCEPT ![r] = point]
  /\ view' = [view EXCEPT ![r] = NoView]
Goto(r, point) == pc' = [pc EXCEPT ![r] = point]

Init ==
  /\ userActive = [u \in Users |-> TRUE]
  /\ \E limits \in LimitChoices :
       key = [k \in Keys |-> IF k \in InitialKeys
                               THEN [NoKey EXCEPT !.status = "active", !.limits = limits]
                               ELSE NoKey]
  /\ wallet = [u \in Users |-> [balance |-> InitialBalance[u], reserved |-> 0]]
  /\ ledger = [u \in Users |-> <<>>]
  /\ rsv = [r \in Requests |-> "none"]
  /\ overdue = {}
  /\ usageLogs = {}
  /\ pc = [r \in Requests |-> "new"]
  /\ view = [r \in Requests |-> NoView]
  /\ fault = [r \in Requests |-> "other"]
  /\ deleting = {}

-----------------------------------------------------------------------------
(* Admission: before_request_async.                                        *)

(* Authentication loads the key and the user into the request's session.   *)
Authenticate(r) ==
  LET k == KeyOf[r] IN
  /\ pc[r] = "new"
  /\ IF Exists(k)
       THEN /\ Goto(r, "loaded")
            /\ view' = [view EXCEPT ![r] = [key |-> key[k], userActive |-> userActive[UserOf[k]],
                                            wallet |-> NoView.wallet]]
       ELSE Close(r, "refused")
  /\ UNCHANGED <<userActive, key, moneyVars, rsv, overdue, fault, deleting>>

(* What the session sees after its locking reads: SELECT FOR UPDATE leaves *)
(* the attributes of the key and the user loaded at authentication alone;  *)
(* the wallet is read for the first time.                                  *)
SessionView(r) == [view[r] EXCEPT !.wallet = wallet[Payer(r)]]

(* An "arrears" key of a wallet with money is active again.                *)
Revived(v) == v.key.status = "arrears" /\ Available(v.wallet) > 0
CallableAnyway(v) == v.userActive \* Mutant: the status of the key is not looked at.
Callable(v) == v.userActive /\ (v.key.status = "active" \/ Revived(v))

(* Lock the key row, read the wallet, and pass or fail the status checks;  *)
(* an empty wallet is recorded on the key before the call is refused.      *)
LockAndCheck(r) ==
  LET v == SessionView(r) IN
  /\ pc[r] = "loaded"
  /\ KeyFree(KeyOf[r])
  /\ \/ /\ Exists(KeyOf[r]) /\ Callable(v) /\ Available(v.wallet) > 0
        /\ Goto(r, "locked")
        /\ view' = [view EXCEPT ![r] = v]
        /\ UNCHANGED key
     \/ /\ Exists(KeyOf[r]) /\ Callable(v) /\ Available(v.wallet) <= 0
        /\ Close(r, "refused")
        /\ SetStatus(KeyOf[r], "arrears")
     \/ /\ ~(Exists(KeyOf[r]) /\ Callable(v))
        /\ Close(r, "refused")
        /\ UNCHANGED key
  /\ UNCHANGED <<userActive, moneyVars, rsv, overdue, fault, deleting>>

ProjectedTokens(r) ==
  EstTokens[r] + Sum(EstTokens, Pending(KeyOf[r]))
ProjectedAmount(r) ==
  EstAmount[r] + Sum(EstAmount, Pending(KeyOf[r]))

(* Mutant: only the settled calls count against the request limit. *)
RequestLimitIgnoresPending(r) ==
  LET kr == view[r].key IN
  /\ kr.limits.requests # 0
  /\ kr.usedRequests + 1 > kr.limits.requests

RequestLimitReached(r) ==
  LET kr == view[r].key IN
  /\ kr.limits.requests # 0
  /\ kr.usedRequests + Cardinality(Pending(KeyOf[r])) + 1 > kr.limits.requests

(* The pending reservations are counted here and the outcome acted upon    *)
(* later: the lock on the key keeps other admissions and settlements of    *)
(* the key out meanwhile, but not the cleanup loop.  Over another limit    *)
(* the call raises at once and the session rolls back.                     *)
CountPending(r) ==
  LET overOther == OverLimit(view[r].key, ProjectedTokens(r), ProjectedAmount(r)) IN
  /\ pc[r] = "locked"
  /\ \/ RequestLimitReached(r) /\ Goto(r, "limited") /\ UNCHANGED view
     \/ ~RequestLimitReached(r) /\ overOther /\ Close(r, "refused")
     \/ ~RequestLimitReached(r) /\ ~overOther /\ Goto(r, "counted") /\ UNCHANGED view
  /\ UNCHANGED <<userActive, key, moneyVars, rsv, overdue, fault, deleting>>

(* Of these refusals only that for the request limit commits a status.     *)
CloseForLimit(r) ==
  /\ pc[r] = "limited"
  /\ SetStatus(KeyOf[r], "quota_exceeded")
  /\ Close(r, "refused")
  /\ UNCHANGED <<userActive, moneyVars, rsv, overdue, fault, deleting>>

Affordable(r) == Available(view[r].wallet) >= EstAmount[r]

(* The "arrears" that create_usage_reservation_async flushes on the key is *)
(* rolled back with the session.                                           *)
RefuseReservation(r) ==
  /\ pc[r] = "counted"
  /\ ~Affordable(r)
  /\ Close(r, "refused")
  /\ UNCHANGED <<userActive, key, moneyVars, rsv, overdue, fault, deleting>>

(* Mutant: the whole account is written back, not the changed column. *)
WholeCopyWritten(w, copy, amount) == [copy EXCEPT !.reserved = @ + amount]

(* The amount written comes from the copy read before the wallet was       *)
(* locked; a column whose value the session did not change is not written. *)
WrittenBack(w, copy, amount) ==
  IF amount = 0 THEN w ELSE [w EXCEPT !.reserved = copy.reserved + amount]

(* create_usage_reservation_async and the commit of before_request_async.  *)
Reserve(r) ==
  LET v == view[r] IN
  /\ pc[r] = "counted"
  /\ Affordable(r)
  /\ wallet' = [wallet EXCEPT ![Payer(r)] = WrittenBack(@, v.wallet, EstAmount[r])]
  /\ IF Revived(v) THEN SetStatus(KeyOf[r], "active") ELSE UNCHANGED key
  /\ rsv' = [rsv EXCEPT ![r] = "pending"]
  /\ Close(r, "upstream")
  /\ UNCHANGED <<userActive, ledger, usageLogs, overdue, fault, deleting>>

-----------------------------------------------------------------------------
(* The upstream call and what follows it, each in a session of its own.    *)

(* forward_request or forward_stream fails, or answers with an error.      *)
UpstreamFails(r, class) ==
  /\ pc[r] = "upstream"
  /\ Goto(r, "failing")
  /\ fault' = [fault EXCEPT ![r] = class]
  /\ UNCHANGED <<userActive, key, moneyVars, rsv, overdue, view, deleting>>

(* The upstream has answered; a stream has been relayed to the client.     *)
UpstreamAnswers(r) ==
  /\ pc[r] = "upstream"
  /\ Goto(r, "answered")
  /\ UNCHANGED <<userActive, key, moneyVars, rsv, overdue, view, fault, deleting>>

(* Mutant: capture does not look at the status of the reservation. *)
SettleableAnyway(r, usage, ref) ==
  /\ Exists(KeyOf[r])
  /\ ~OverLimit(key[KeyOf[r]], usage.tokens, usage.amount)
  /\ wallet[Payer(r)].balance >= usage.amount
  /\ ~WL!Posted("consume", ref)

(* Mutant: the unique constraint on ledger references is missing. *)
SettleableTwice(r, usage, ref) ==
  /\ Exists(KeyOf[r])
  /\ ~OverLimit(key[KeyOf[r]], usage.tokens, usage.amount)
  /\ rsv[r] = "pending"
  /\ wallet[Payer(r)].balance >= usage.amount

(* What _finalize_success_async and the capture require of the locked rows. *)
Settleable(r, usage, ref) ==
  /\ Exists(KeyOf[r])
  /\ ~OverLimit(key[KeyOf[r]], usage.tokens, usage.amount)
  /\ rsv[r] = "pending"
  /\ wallet[Payer(r)].balance >= usage.amount
  /\ ~WL!Posted("consume", ref)

(* The class of the exception _finalize_success_async ends with.           *)
SettlementFault(r, usage) ==
  CASE ~Exists(KeyOf[r]) -> "other"
    [] OverLimit(key[KeyOf[r]], usage.tokens, usage.amount) -> "quota"
    [] rsv[r] # "pending" -> "other"
    [] wallet[Payer(r)].balance < usage.amount -> "arrears"
    [] OTHER -> "other"

(* Mutant: the amount is charged to the wallet but not counted on the key. *)
ChargedUncounted(kr, usage) ==
  [kr EXCEPT !.usedTokens = @ + usage.tokens, !.usedRequests = @ + 1]

(* The key after a charge; it closes when a limit is reached. *)
Charged(kr, usage) ==
  LET used == [kr EXCEPT !.usedTokens = @ + usage.tokens,
                         !.usedRequests = @ + 1,
                         !.usedAmount = @ + usage.amount]
  IN  IF AtLimit(used) THEN [used EXCEPT !.status = "quota_exceeded"] ELSE used

(* _finalize_success_async with capture_usage_reservation_async: counters, *)
(* balance, reservation, ledger row and usage row in one commit.           *)
Settle(r, usage, ref) ==
  LET u == Payer(r)
      left == wallet[u].balance - usage.amount
  IN
  /\ pc[r] = "answered"
  /\ KeyFree(KeyOf[r])
  /\ Settleable(r, usage, ref)
  /\ key' = [key EXCEPT ![KeyOf[r]] = Charged(@, usage)]
  /\ wallet' = [wallet EXCEPT ![u] = [balance |-> left,
                                      reserved |-> Less(@.reserved, EstAmount[r])]]
  /\ ledger' = [ledger EXCEPT ![u] =
                  Append(@, [type |-> "consume", ref |-> ref,
                             amount |-> -usage.amount, after |-> left])]
  /\ rsv' = [rsv EXCEPT ![r] = "captured"]
  /\ usageLogs' = usageLogs \cup
       {[req |-> r, ref |-> ref, tokens |-> usage.tokens, amount |-> usage.amount]}
  /\ Goto(r, "served")
  /\ UNCHANGED <<userActive, overdue, view, fault, deleting>>

(* Whether the client already has the answer when the settlement fails.    *)
FaultPoint(r) == IF r \in Streaming THEN "unsettled" ELSE "failing"

(* The settlement raises and rolls back; its message goes to on_error.     *)
SettlementFails(r, usage, ref) ==
  /\ pc[r] = "answered"
  /\ KeyFree(KeyOf[r])
  /\ ~Settleable(r, usage, ref)
  /\ Goto(r, FaultPoint(r))
  /\ fault' = [fault EXCEPT ![r] = SettlementFault(r, usage)]
  /\ UNCHANGED <<userActive, key, moneyVars, rsv, overdue, view, deleting>>

(* The answer carries no usage and the handler has no estimate for it.     *)
UsageMissing(r) ==
  /\ pc[r] = "answered" /\ r \notin Metered
  /\ Goto(r, FaultPoint(r))
  /\ fault' = [fault EXCEPT ![r] = "other"]
  /\ UNCHANGED <<userActive, key, moneyVars, rsv, overdue, view, deleting>>

(* on_error_async with release_usage_reservation_async.  The status it     *)
(* writes replaces whatever status the key has.                            *)
OnError(r) ==
  LET k == KeyOf[r] IN
  /\ pc[r] \in {"failing", "unsettled"}
  /\ KeyFree(k)
  /\ key' = CASE Exists(k) /\ fault[r] = "quota" -> [key EXCEPT ![k].status = "quota_exceeded"]
              [] Exists(k) /\ fault[r] = "arrears" -> [key EXCEPT ![k].status = "arrears"]
              [] OTHER -> key
  /\ IF rsv[r] = "pending"
       THEN /\ rsv' = [rsv EXCEPT ![r] = "failed"]
            /\ wallet' = [wallet EXCEPT ![Payer(r)].reserved = Less(@, EstAmount[r])]
       ELSE UNCHANGED <<rsv, wallet>>
  /\ Goto(r, IF pc[r] = "unsettled" THEN "unbilled" ELSE "failed")
  /\ UNCHANGED <<userActive, ledger, usageLogs, overdue, view, fault, deleting>>

(* The process dies, or the client of a stream goes away and the           *)
(* background task never runs.  What was not committed is rolled back.     *)
Abandon(r) ==
  /\ \/ InAdmission(r)
     \/ pc[r] \in {"loaded", "upstream", "answered", "failing", "unsettled"}
  /\ Close(r, "abandoned")
  /\ UNCHANGED <<userActive, key, moneyVars, rsv, overdue, fault, deleting>>

-----------------------------------------------------------------------------
(* The cleanup loop.                                                       *)

PassDeadline(r) ==
  /\ rsv[r] = "pending" /\ r \notin overdue
  /\ overdue' = overdue \cup {r}
  /\ UNCHANGED <<userActive, key, moneyVars, rsv, handlerVars, deleting>>

(* Mutant: only the reservations of streams are collected. *)
ExpiredStreams == {r \in overdue \cap Streaming : rsv[r] = "pending"}
Expired == {r \in overdue : rsv[r] = "pending"}
ExpiredAmount(u) == Sum(EstAmount, {r \in Expired : Payer(r) = u})

(* expire_usage_reservations: every overdue reservation in one transaction. *)
ExpireReservations ==
  /\ Expired # {}
  /\ rsv' = [r \in Requests |-> IF r \in Expired THEN "expired" ELSE rsv[r]]
  /\ wallet' = [u \in Users |->
                  [wallet[u] EXCEPT !.reserved = Less(@, ExpiredAmount(u))]]
  /\ UNCHANGED <<userActive, key, ledger, usageLogs, overdue, handlerVars, deleting>>

-----------------------------------------------------------------------------
(* Key, user and wallet administration.                                    *)

CreateKey(k) ==
  /\ "create" \in Administration
  /\ key[k].status = "absent"
  /\ \E limits \in LimitChoices :
       key' = [key EXCEPT ![k] = [NoKey EXCEPT !.status = "active", !.limits = limits]]
  /\ UNCHANGED <<userActive, moneyVars, rsv, overdue, handlerVars, deleting>>

SwitchKey(k, status) ==
  /\ "switch" \in Administration
  /\ Exists(k) /\ KeyFree(k)
  /\ SetStatus(k, status)
  /\ UNCHANGED <<userActive, moneyVars, rsv, overdue, handlerVars, deleting>>

UpdateLimits(k, limits) ==
  /\ "limits" \in Administration
  /\ Exists(k) /\ KeyFree(k)
  /\ key' = [key EXCEPT ![k].limits = limits]
  /\ UNCHANGED <<userActive, moneyVars, rsv, overdue, handlerVars, deleting>>

SwitchUser(u, active) ==
  /\ "user" \in Administration
  /\ userActive' = [userActive EXCEPT ![u] = active]
  /\ UNCHANGED <<key, moneyVars, rsv, overdue, handlerVars, deleting>>

(* delete_api_key looks for a pending reservation without locking ...      *)
DeleteCheck(k) ==
  /\ "delete" \in Administration
  /\ Exists(k) /\ k \notin deleting
  /\ Pending(k) = {}
  /\ deleting' = deleting \cup {k}
  /\ UNCHANGED <<userActive, key, moneyVars, rsv, overdue, handlerVars>>

(* ... and then deletes every reservation of the key, and the key.         *)
DeleteCommit(k) ==
  /\ k \in deleting
  /\ KeyFree(k)
  /\ SetStatus(k, "deleted")
  /\ rsv' = [r \in Requests |-> IF KeyOf[r] = k /\ rsv[r] # "none" THEN "deleted" ELSE rsv[r]]
  /\ deleting' = deleting \ {k}
  /\ UNCHANGED <<userActive, moneyVars, overdue, handlerVars>>

(* A channel notification: mark_order_paid_async, once per order.          *)
Recharge(o) ==
  LET u == OrderUser[o] IN
  /\ ~WL!Posted("recharge", o)
  /\ wallet' = [wallet EXCEPT ![u].balance = @ + OrderAmount[o]]
  /\ ledger' = [ledger EXCEPT ![u] =
                  Append(@, [type |-> "recharge", ref |-> o, amount |-> OrderAmount[o],
                             after |-> wallet[u].balance + OrderAmount[o]])]
  /\ UNCHANGED <<userActive, key, usageLogs, rsv, overdue, handlerVars, deleting>>

(* apply_balance_change: the reference is the user, so a second adjustment *)
(* violates the unique constraint and is rolled back without an error.     *)
AdjustBalance(u, amount) ==
  LET after == wallet[u].balance + amount IN
  /\ after >= 0
  /\ ~WL!Posted("adjust", u)
  /\ wallet' = [wallet EXCEPT ![u].balance = after]
  /\ ledger' = [ledger EXCEPT ![u] =
                  Append(@, [type |-> "adjust", ref |-> u, amount |-> amount, after |-> after])]
  /\ UNCHANGED <<userActive, key, usageLogs, rsv, overdue, handlerVars, deleting>>

-----------------------------------------------------------------------------
Handler(r) ==
  \/ Authenticate(r) \/ LockAndCheck(r) \/ CountPending(r) \/ CloseForLimit(r)
  \/ RefuseReservation(r) \/ Reserve(r)
  \/ UpstreamAnswers(r) \/ UsageMissing(r) \/ OnError(r) \/ Abandon(r)
  \/ \E class \in UpstreamErrors : UpstreamFails(r, class)
  \/ \E usage \in Usages, ref \in UpstreamIds \cup {r} :
       Settle(r, usage, ref) \/ SettlementFails(r, usage, ref)

Cleanup == ExpireReservations \/ \E r \in Requests : PassDeadline(r)

Admin ==
  \/ \E k \in Keys : CreateKey(k) \/ DeleteCheck(k) \/ DeleteCommit(k)
  \/ \E k \in Keys, status \in {"active", "disabled"} : SwitchKey(k, status)
  \/ \E k \in Keys, limits \in LimitChoices : UpdateLimits(k, limits)
  \/ \E u \in Users, active \in BOOLEAN : SwitchUser(u, active)
  \/ \E o \in Orders : Recharge(o)
  \/ \E u \in Users, amount \in Adjustments : AdjustBalance(u, amount)

Next == (\E r \in Requests : Handler(r)) \/ Cleanup \/ Admin

Spec == Init /\ [][Next]_vars

(* Time passes, the cleanup loop runs every minute, and an admission that  *)
(* holds its lock commits, refuses or dies.                                *)
Fairness ==
  /\ WF_vars(ExpireReservations)
  /\ \A r \in Requests : WF_vars(PassDeadline(r))
  /\ \A r \in Requests : WF_vars(\/ CountPending(r) \/ CloseForLimit(r)
                              \/ RefuseReservation(r) \/ Reserve(r))

FairSpec == Spec /\ Fairness

-----------------------------------------------------------------------------
(* Properties.                                                             *)

RequestsOf(u) == {r \in Requests : Payer(r) = u}
ReservedFor(u) == Sum(EstAmount, {r \in RequestsOf(u) : rsv[r] = "pending"})
LogsOfKey(k) == {l \in usageLogs : KeyOf[l.req] = k}
ConsumeRows(u) == {i \in DOMAIN ledger[u] : ledger[u][i].type = "consume"}

(* capture_usage_reservation_async against expiry, release and redelivered *)
(* upstream ids: a request is charged at most once, exactly when its       *)
(* reservation was captured, and the ledger and the usage log tell the     *)
(* same story of who paid how much.                                        *)
ChargedOnceWhenCaptured ==
  /\ \A r \in Requests : rsv[r] = "captured" => \E l \in usageLogs : l.req = r
  /\ \A l \in usageLogs : rsv[l.req] \in {"captured", "deleted"}
  /\ \A l, m \in usageLogs : (l.req = m.req \/ l.ref = m.ref) => l = m
  /\ \A l \in usageLogs : \E i \in ConsumeRows(Payer(l.req)) :
       /\ ledger[Payer(l.req)][i].ref = l.ref
       /\ ledger[Payer(l.req)][i].amount = -l.amount
  /\ \A u \in Users : \A i \in ConsumeRows(u) :
       \E l \in usageLogs : Payer(l.req) = u /\ l.ref = ledger[u][i].ref

(* The running counters of api_keys against the rows they summarise:       *)
(* used_requests, used_tokens and used_amount are exactly the successful   *)
(* calls of the key, however calls and failures interleave.                *)
CountersMatchUsageLogs ==
  \A k \in Keys : Exists(k) =>
    /\ key[k].usedRequests = Cardinality(LogsOfKey(k))
    /\ key[k].usedTokens = Sum([l \in usageLogs |-> l.tokens], LogsOfKey(k))
    /\ key[k].usedAmount = Sum([l \in usageLogs |-> l.amount], LogsOfKey(k))

(* A reservation that was captured, released or expired is never taken up  *)
(* again by another of the three: capture, on_error and the cleanup loop   *)
(* race for it, and the money it held is given back once.                  *)
ReservationEndsOnce ==
  [][\A r \in Requests :
       rsv[r] \in {"captured", "failed", "expired"} => rsv'[r] \in {rsv[r], "deleted"}]_vars

(* However stale the admission was, a settlement never leaves a key above  *)
(* a limit it has at that moment: _finalize_success_async decides again on *)
(* the locked row.                                                         *)
ChargedWithinLimits ==
  [][\A k \in Keys : key'[k].usedRequests > key[k].usedRequests =>
       LET kr == key'[k] IN
       /\ kr.limits.requests # 0 => kr.usedRequests <= kr.limits.requests
       /\ kr.limits.tokens # 0 => kr.usedTokens <= kr.limits.tokens
       /\ kr.limits.amount # 0 => kr.usedAmount <= kr.limits.amount]_vars

(* Every balance change of this module is one posting of the wallet's      *)
(* abstract specification: no lost update of a balance, no reused          *)
(* reference, no row without its change.                                   *)
ImplementsWalletLedger == WL!Spec

(* expire_usage_reservations with execute_reservation_cleanup: whatever    *)
(* dies between reservation and settlement, the reservation ends.          *)
PendingEnds == \A r \in Requests : rsv[r] = "pending" ~> rsv[r] # "pending"

(* create_usage_reservation_async against releases and captures: while the *)
(* wallet has one key, no reservation was left to the cleanup loop and     *)
(* none was deleted, the lock on the key protects the copy of the wallet,  *)
(* and wallet_accounts.reserved_balance is the sum of the pending          *)
(* reservations.                                                           *)
OneKeyWallet(u) == \A k, l \in Keys : UserOf[k] = u /\ UserOf[l] = u => k = l
ReservedBacksPending ==
  \A u \in Users :
    /\ OneKeyWallet(u)
    /\ \A r \in RequestsOf(u) : r \notin overdue /\ rsv[r] # "deleted"
    => wallet[u].reserved = ReservedFor(u)

(* before_request_async counts the pending reservations after it locked    *)
(* the key, so concurrent calls cannot all pass: with limits that stay as  *)
(* they are, never more calls are in progress than the limit allows.       *)
PendingWithinRequestLimit ==
  \A k \in Keys : (Exists(k) /\ key[k].limits.requests # 0) =>
    Cardinality(Pending(k)) <= key[k].limits.requests

(* Served and pending calls together stay within the request limit, which  *)
(* test_async_api_key_limits_block_concurrent_reservations is about.       *)
AdmittedWithinRequestLimit ==
  \A k \in Keys : (Exists(k) /\ key[k].limits.requests # 0) =>
    key[k].usedRequests + Cardinality(Pending(k)) <= key[k].limits.requests

(* A key an administrator disabled is callable again only after an enable. *)
DisabledUntilEnabled ==
  [][\A k \in Keys : key[k].status = "disabled" =>
       \/ key'[k].status \in {"disabled", "deleted"}
       \/ SwitchKey(k, "active")]_vars

(* before_request_async, _finalize_success_async and on_error_async        *)
(* against an administrator: a disabled key becomes callable only by an    *)
(* enable, or because an admission loaded it before it was disabled and    *)
(* writes over that; what ends a call may close the key for its quota or   *)
(* its arrears, and for those only.                                        *)
AdmittedEarlier(r) ==
  (pc[r] = "loaded" \/ InAdmission(r)) /\ view[r].key.status # "disabled"
ClosedBySettlement(r, k) ==
  pc[r] = "answered" /\ key'[k].status = "quota_exceeded" /\ AtLimit(key'[k])
ClosedByFailure(r, k) ==
  /\ pc[r] \in {"failing", "unsettled"}
  /\ \/ key'[k].status = "quota_exceeded" /\ fault[r] = "quota"
     \/ key'[k].status = "arrears" /\ fault[r] = "arrears"
ReopenedByEarlierCalls ==
  [][\A k \in Keys : key[k].status = "disabled" =>
       \/ key'[k].status \in {"disabled", "deleted"}
       \/ SwitchKey(k, "active")
       \/ \E r \in Requests :
            /\ KeyOf[r] = k /\ pc'[r] # pc[r]
            /\ AdmittedEarlier(r) \/ ClosedBySettlement(r, k) \/ ClosedByFailure(r, k)]_vars

(* before_request_async closes a key for its request limit on a counter    *)
(* that may be old and a count of pending reservations that the cleanup    *)
(* loop may change at once: no call is counted on both sides, so it does   *)
(* that only when as many calls were admitted as the limit it read allows. *)
AdmittedOn(k) == {r \in Requests : KeyOf[r] = k /\ rsv[r] # "none"}
LimitUsedUp ==
  \A r \in Requests : pc[r] = "limited" =>
    Cardinality(AdmittedOn(KeyOf[r])) >= view[r].key.limits.requests

(* A call that was relayed to the client is charged ("按 token 实时扣费"). *)
ServedIsCharged == \A r \in Requests : pc[r] # "unbilled"

(* create_usage_reservation refuses what the available balance does not    *)
(* cover, so pending reservations never exceed an untouched balance.       *)
PendingWithinBalance ==
  \A u \in Users : ledger[u] = <<>> => ReservedFor(u) <= wallet[u].balance

(* A key with a call in progress is not deleted.                           *)
DeletedKeyHasNoCalls ==
  \A r \in Requests :
    rsv[r] = "deleted" => pc[r] \notin {"upstream", "answered"}

(* A key is marked quota_exceeded only when it has used up a limit.        *)
QuotaStatusJustified ==
  \A k \in Keys : key[k].status = "quota_exceeded" =>
    \/ AtLimit(key[k])
    \/ Pending(k) # {}
=============================================================================
