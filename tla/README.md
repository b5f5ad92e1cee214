# TokenMall: TLA+ models, model checking and proofs

TokenMall sells access to language models: users recharge a wallet, create API
keys and call `/v1/chat/completions` and the Bailian native routes through a
proxy, which reserves money before the upstream call and charges the wallet
after it. This directory holds TLA+ models of that program, the TLC
configurations that check them on small instances, and TLAPS proofs of the
theorems that should hold for every instance. Paths below are relative to
`src/apps/api/app/` unless they start with `src/`.

## 1. Inventory

| Part | State it keeps | Operations | Interacts with |
|---|---|---|---|
| Metered call: `services/proxy.py`, `services/wallet.py`, `api/proxy.py`, `api/bailian_native.py` | `usage_reservations`, `usage_logs`, counters and status of `api_keys`, `wallet_accounts`, `wallet_ledger` | authenticate, admit and reserve, forward, settle, release on error | shares rows with every part below; each step is a session of its own |
| Cleanup loop: `services/reservation_cleanup.py`, `main.py` | none of its own | expire overdue reservations every minute | races with settlement and release |
| API keys: `services/api_keys.py`, `api/api_keys.py`, `api/admin.py` | `api_keys` | create, update limits, enable, disable, delete | calls in progress on the key |
| Wallet and ledger: `services/wallet.py` | `wallet_accounts`, `wallet_ledger` | lock, post a balance change, reserve, release, capture | everything that moves money |
| Recharge orders: `api/payments.py`, `services/wallet.py` | `payment_orders` | create, poll, notify (three channels), mock payment, manual payment | channel, wallet |
| Refunds: `api/payments.py`, `api/admin.py` | `refund_requests`, `refund_items` | request, approve item by item, reject | channel, wallet, orders |
| Codes: `services/auth.py` | `verification_codes` | send, check, expire and use a code | accounts |
| Accounts: `services/auth.py` | `users` | register, log in, bind e-mail, merge two users | wallet, keys, orders (a merge moves them all) |
| Administrators: `api/admin.py` | `users.role`, `users.status` | enable, disable, adjust a balance | admission of calls, wallet, merges |
| Model catalogue: `services/official_model_catalog.py`, `db/init_db.py`, `api/admin.py`, `api/models.py` | `model_catalog` | seed, create, update, rename, switch, delete, list | calls under way keep the row they were routed with |
| Routing: `services/routing.py` | none | choose the upstream or refuse | catalogue |
| Pricing: `services/pricing.py`, `services/billing_usage.py`, `services/proxy.py` | none | estimate a request, price a usage, show a quantity | reservation, settlement, usage lists |
| Usage extraction: `services/proxy.py`, `api/bailian_native.py` | the pending bytes of a stream | read id, usage and text out of the chunks | settlement |
| Payment channels: `services/payments` | none; the gateways are external | open, query, refund, query a refund | orders, refunds |
| Dashboard, metrics, migrations, web client | external or read-only | | |

What is hard here is not any one handler but what happens between handlers.
Every money movement is a database transaction, but:

* a call spans three transactions (admission, settlement or release, each in
  its own session) with a remote call between them, and may die at any point;
* sessions are opened with `expire_on_commit=False` and `autoflush=False`
  (`db/session.py:57`). An object that a session has loaded keeps its
  attributes when the session later locks the same row with
  `SELECT ... FOR UPDATE`: the row is locked, the copy stays as old as its
  first read, and a flush writes only the columns whose value the session
  changed. Admission loads the key and the user at authentication and the
  wallet before it locks it, so on PostgreSQL it decides on stale copies; a
  refund's approval loads the wallet before it talks to the channel and debits
  that copy afterwards;
* the cleanup loop, late answers, notifications that repeat themselves and
  administrators all write the same rows.

`PROJECT.json` lists, for each hazard met in the code, its line and the
properties that would notice it going wrong.

### What makes each part correct

* Wallet: a balance changes only together with one ledger row that records the
  balance left; a reference is posted once; a balance is never negative.
* Metered call: a request is charged at most once, exactly when its
  reservation is captured; a reservation ends once; a settlement respects the
  limits the key has at that moment; the counters are the sum of the calls;
  money reserved by a call that died is released.
* Keys: only an admission that loaded a key before it was disabled can make it
  callable again; a key in use is not deleted; admission closes a key for its
  request limit only when that many calls were admitted.
* Orders: an order is credited exactly once, however often it is reported.
* Refunds: an item is debited at most once and only if the channel paid it;
  what the channel paid is debited in the end; a rejected request was not paid;
  an order is never refunded beyond its amount.
* Accounts: a code that was accepted, locked, expired or replaced is not
  accepted again; an administrator remains; a merge loses no money and no phone.
* Pricing: a call that keeps to its estimate costs no more than was reserved; a
  stream yields the same usage however it is cut into chunks; the model charged
  is the model asked for; a charge is shown with the quantity it was made for.

## 2. Modules

| Module | Role |
|---|---|
| `WalletLedger` | abstract specification of a wallet: one action, `Post` |
| `UsageBilling` | the metered call with everything that touches its rows |
| `RechargeOrders` | a recharge from the order to the credit |
| `Refunds` | refund requests, their approval and rejection |
| `PaymentChannels` | what the three adapters make of what a gateway knows; used by the two above |
| `VerificationCodes` | the codes of an address, in the hands of requests that lock nothing |
| `Accounts` | on top of it: accounts, merges, administrators, postings to their wallets |
| `Pricing`, `StreamUsage`, `Routing` | pure functions: costs and reservations, the reader of event streams, the choice of the upstream |
| `ModelCatalogue` | the table of models and its administration, on `Pricing` |
| `MeteredCall` | what a call is charged, from the route to the usage list, on the four above |
| `Sums` | the sum of a function over a set, the `SUM` of a query |
| `SumTheorems`, `StreamUsageProofs` | lemmas: sums over finite sets; reading a stream in chunks |
| `WalletLedgerProofs`, `UsageBillingProofs`, `RechargeOrdersProofs`, `RefundsProofs`, `MeteredCallProofs`, `AccountsProofs` | theorems |
| `MCWalletLedger`, `MCUsageBilling`, `MCRechargeOrders`, `MCRefunds`, `MCMeteredCall`, `MCAccounts` | small instances for TLC |

`UsageBilling`, `RechargeOrders` and `Refunds` each instantiate `WalletLedger`
as `WL`, use its `Posted` for the unique constraint on ledger references, and
state `ImplementsWalletLedger == WL!Spec`: every change of a balance is one
posting. The specification is where the three parts meet; it says nothing of
`reserved_balance`, which is `UsageBilling`'s own. The first two implement it
(checked and proved); an approval of a refund does not (`bad_refund_balance`).

`UsageBilling` and `MeteredCall` look at the same call from two sides.
`UsageBilling` has the interleavings and the money, and takes the size and the
cost of a call as inputs; `MeteredCall` has where these come from, and leaves
the wallet out. They meet in two numbers, the reserved amount and the charge.
`Accounts` counts rows instead of listing them: `book[u]` is how many rows name
a user, the sum of its ledger and its pending reservations, all a merge can
lose.

### How state and actions correspond to the code

An action is one database transaction, together with the conditions that lead
to it. Where a transaction reads a row and acts on the copy later, the read is
an action of its own and the copy is state:

| Model | Code |
|---|---|
| `UsageBilling!view[r]` | the `ApiKey`, `User` and `WalletAccount` objects in the request's session |
| `UsageBilling!pc[r]` | where the handler of the request is; at `"counted"` and `"limited"` it has counted the pending reservations and not acted on the count yet; `"unbilled"` is an answer delivered whose settlement failed |
| `UsageBilling!rsv[r]`, `overdue` | `usage_reservations.status`, and whether `expires_at` has passed |
| `UsageBilling!key[k]`, `usageLogs`, `wallet`, `ledger` | `api_keys`, successful `usage_logs`, `wallet_accounts`, `wallet_ledger` |
| `UsageBilling!deleting` | keys whose deletion has passed its pending check |
| `RechargeOrders!session[s]` | the `PaymentOrder` object a poll or a mock payment has loaded |
| `RechargeOrders!paidAtChannel`, `unacknowledged`, `acknowledged` | the channel: what was paid, what it still reports, what it was answered `success` |
| `Refunds!draft[s]` | what `create_refund` has read before its commit |
| `Refunds!desk[a]` | what `approve_refund` holds: `base` and `now` are the loaded and the current value of `refund.status`, `seen` the loaded items, `purse` the loaded balance, `total` is `refunded_total` |
| `Refunds!channel[x]` | the refund at the channel, by its `refund_no` |
| `VerificationCodes!code[slot]` | the row of `verification_codes` of an address and a purpose; a code is the number of its sending, time is in `cooling`, `expired`, `window` |
| `VerificationCodes!session[s]` | the row a request has read, and what it decided |
| `Accounts!user`, `wallet`, `book` | `users`, `wallet_accounts`, and the rows of the other tables by user |
| `Accounts!session[s]` at `"merging"` | what a merge has read of both accounts when it moves the rows |
| `Accounts!disabling[a]` | the user an administrator's request is about to disable after its count |
| `Accounts!overwritten` | history only: which facts a commit wrote over without having seen them |
| `ModelCatalogue!catalogue` | `model_catalog` by `model_code` |
| `MeteredCall!call[c]` | what the handler of a call holds: the row, the reservation, the reader of the stream, the charge |

`"expired"` in `desk` is SQLAlchemy's state of an attribute after a rollback: it
is read anew when it is next used, and written whatever it was when it is
assigned. `Flushed` is the rule that a flush writes what the session changed.
A commit and the refresh that follows it are one step.

A crash is an action that forgets a handler's local state at any point
(`Abandon`, `EndSession`, `LoseDraft`, `LoseDesk`) or, after a commit, an
answer that is not sent (`Notify(o, FALSE)`); what was committed stays.
Failure of a channel is any answer its wrapper in `services/payments` can
return, at any time; UnionPay's differ from the others in that a failed query
raises and a refund under way is reported as unknown.

The data is small on purpose: amounts are integers (units of 0.0001 yuan in
`UsageBilling`, where a cost is an input; a `Cent` of two units in `Refunds`,
because the code floors to cents), an upstream id is a model value, `0` is no
limit as in the code, time is the single fact that a reservation is overdue.
`Pricing` counts in millionths of a yuan, the last digit the code keeps, and
has both of its roundings, half up for a cost and half to even for a
reservation. A stream in `StreamUsage` is a sequence of lines whose bytes are
named by their part, so that a chunk may end inside a character and inside a
line.

## 3. Runs

Each `.cfg` names its instance. A run that must pass:

| Run | Instance | Shows |
|---|---|---|
| `wallet_ledger` | 2 users, 1 reference | the chain of balances and the unique references hold whatever is posted |
| `billing_pg` | 2 calls on 2 keys of one wallet, 1 streaming, 1 reusable upstream id, 1 order, an adjustment, deletion of keys | a call is charged once, exactly when its reservation is captured; counters are the sum of the calls; a reservation ends once; the balance is never overwritten |
| `billing_limits` | 2 calls on 1 key, whose limits and status and whose owner change at any time | a settlement respects the limits of its moment; counters stay the sum of the calls; a disabled key becomes callable only by an administrator or by an admission that loaded it before, and what ends a call can only close it for its quota or its arrears; admission closes a key for its request limit only when that many calls were admitted, although its counter is old and the cleanup loop ends reservations after they were counted |
| `billing_one_key` | 3 calls on the only key of a wallet, request limit 2 or none, fair | the lock on the key keeps `reserved_balance` equal to the pending reservations, and the calls in progress within the limit; every pending reservation ends |
| `recharge_orders` | 2 orders, 1 session, 1 charge on one wallet, the channel of one order may give up, fair | a paid order is credited once; an acknowledged payment is credited; a payment is credited by notification alone, or by polling alone |
| `refund_requests` | 2 requests in sequence over two orders (one UnionPay), 2 administrators who approve, slow channels of which WeChat may close a refund unpaid, no rejections | an item is debited once and for its amount, after the channel refunded it or, with WeChat, closed it; a closed request was paid in full; what is to be refunded of an order and what its channel has refunded stay within what it paid |
| `refund_retried` | 1 request of two items, 1 administrator who keeps approving, 1 who approves, rejects or stops, 1 charge, no slow channel, fair | an item is debited once, only after the channel refunded it, with rejections beside; what the channel paid back is debited in the end, unless approvals are turned away from some time on |
| `metering` | 1 call of any of 10 requests over the seeded catalogue, streams of up to 3 lines cut anywhere with a buffer of 5 bytes, 1 administrative operation of any kind | the reservation covers a call that keeps to its estimate, whatever happens to its model meanwhile; a stream read in chunks yields what whole lines yield; the upstream is asked for the model that is charged, up to blanks the client put around its name; a charge keeps its quantity |
| `accounts` | 3 users of whom two are administrators and one is new, 2 requests with codes of three slots, any 2 postings, registrations or administrative steps | outside the recorded races a merge keeps the sums of the wallets, and a phone that opens an account goes on opening one |
| `codes` | 3 codes of one address, one after the other, 2 requests that send, guess and use them | a code that was used, locked, expired or replaced is not accepted, although requests write to the row from copies older than the code in it |

Runs that refute what a text, a test or a check of the repository says (one
property each; `findings` in `PROJECT.json` quotes the text):

| Run | What happens |
|---|---|
| `bad_delete` | a key is deleted under a call admitted after the pending check |
| `bad_wechat_poll` | the poll asks WeChat for the order's own number as if it were the channel's: a payment whose notification is lost is never found |

Three of the passing runs promise less than one might expect. What they leave
out breaks the stronger promise, as the configurations in the next table show.

* `refund_requests` has one creating session and no rejections. Two sessions
  allocate the same order (`bad_allocation`). A request whose item the channel
  paid while the answer was lost can be rejected (`bad_rejection`); it does not
  count against its order any more, which is then allocated and refunded once
  more. And an approval that works on copies from before a rejection brings the
  rejected request back to life (`api/admin.py:437`).
* `refund_retried` promises a debit only while approvals are not turned away.
  They are when the request was closed: rejected after the channel had paid.
  And they are when the balance does not cover what is still marked unpaid
  (`api/admin.py:350`): one ordinary charge, posted after the channel paid and
  its answer was lost, is enough, and then the refund stays on the wallet until
  the user recharges. No run could promise more of this code; the run has the
  charge and the rejections, so that both happen in it.
* `ReservationCovers` is about calls that keep to what was *estimated* of them,
  which is less than what a request allows: a chat without `max_tokens` is
  estimated at 1024 tokens, and a video that names no resolution or sound at
  the first item of its price list, while it is charged at defaults of its own
  (`api/bailian_native.py:79`). Such a chat and such a video are among the
  requests of `metering`, and `bad_video_default` shows what becomes of the
  video; a chat that exceeds its estimate is charged more than was reserved
  (the settlement tries, and may fail).

More configurations of the same kind, to be run by hand
(`tlc -config bad_overcommit.cfg MCUsageBilling`); TLC finds each violated:

| Configuration | Module, property | What happens, against which text |
|---|---|---|
| `bad_request_limit` | `MCUsageBilling`, `AdmittedWithinRequestLimit` | a key limited to one request admits a second: the counter is read from a copy older than the lock (`services/proxy.py:565`); `assert len(successes) == 1` (`src/apps/api/tests/test_concurrency_integration.py:160`, on SQLite) |
| `bad_overcommit` | `MCUsageBilling`, `PendingWithinBalance` | two admissions on two keys reserve more than the balance, each checking `可用余额不足以覆盖本次请求` (`services/wallet.py:244`) on its copy |
| `bad_disabled_key` | `MCUsageBilling`, `DisabledUntilEnabled` | a failing call writes its error status over an administrator's `disabled` (`services/proxy.py:792`) |
| `bad_quota_status` | `MCUsageBilling`, `QuotaStatusJustified` | a key refused because of a pending call stays `quota_exceeded` when that call fails (`services/proxy.py:566`) |
| `bad_unbilled` | `MCUsageBilling`, `ServedIsCharged` | an answer that takes longer than its reservation lives is delivered and not charged; `按 token 实时扣费` (`src/README.md:13`) |
| `bad_refund_balance` | `MCRefunds`, `ImplementsWalletLedger` | a charge committed while an approval waits for the channel is overwritten by the debit (`api/admin.py:349`); the column is `balance_after` (`models/wallet.py:37`) |
| `bad_slow_refund` | `MCRefunds`, `PaidBackIsDebited` | an item once `processing` is never queried again (`api/admin.py:360`): the channel pays, the wallet is not debited; `退款处理中，请稍后查询渠道结果` (`api/admin.py:363`) |
| `bad_interrupted_refund` | `MCRefunds`, `RefusedForBalance` | an approval that dies after a debit cannot be continued although the balance covers the rest: `当前用户余额不足，无法原路退款` (`api/admin.py:351`) |
| `bad_rejection` | `MCRefunds`, `RejectedPaysNothing` | a request the channel has paid an item of is rejected, noted as `不符合退款条件` (`api/admin.py:471`) |
| `bad_open_requests` | `MCRefunds`, `OneOpenRequest` | a second request is accepted while the first is `processing`; `一个账号仅可存在一笔处理中退款申请` (`src/apps/web/src/app/(dashboard)/billing/page.tsx:235`) |
| `bad_allocation` | `MCRefunds`, `RefundedWithinOrders` | two requests created at once allocate the same order, past `当前已有一笔处理中退款申请` (`api/payments.py:272`) |
| `bad_closed_refund` | `MCRefunds`, `ItemsDebitedOnce` | WeChat closes a refund unpaid after its first answer was lost; any status but processing is taken for success (`services/payments/wechat.py:126`), and the item is debited |
| `bad_partial_refund` | `MCRefunds`, `ItemsPayable` | a request takes a part of an order paid by WeChat, whose refund names the part as the order's total (`services/payments/wechat.py:112`) |
| `bad_shown_price` | `MCMeteredCall`, `ShownIsCharged` | an update of the token prices leaves the shown items as they were, and an empty list of items makes unit-priced calls free (`api/admin.py:693-698`) |
| `bad_video_default` | `MCMeteredCall`, `VideoCovered` | a video request that names neither resolution nor sound is estimated at the first item of the price list (720P, silent, 0.15 a second: five seconds reserve 0.825) and charged as 1080P with sound (0.50 a second: 2.5, `api/bailian_native.py:79`); a balance of 1 passes `可用余额不足以覆盖本次请求` (`services/wallet.py:244`) and cannot pay for it |
| `bad_last_admin` | `MCAccounts`, `SomeAdmin` | two administrators disable each other, or the other is merged away: `至少保留一个可用管理员账号` (`api/admin.py:212`) |
| `bad_merge_posting` | `MCAccounts`, `WalletsAddUp` | a posting to the target between a merge's reading and its writing is overwritten (`services/auth.py:226`) |
| `bad_crossing_merges` | `MCAccounts`, `PhoneAlwaysStays` | merges that share an account cross, and a phone is left without an account (`services/auth.py:273`) |
| `bad_merge_disabled` | `MCAccounts`, `MergesIntoActive` | an account that was disabled after the code was sent takes the merged user in; the sending checks it, the merge does not (`services/auth.py:387`) |

### Bounds

Every hazard listed needs two or three actors: two calls (or a call and a
cleanup, an administrator, a deletion), two reporters of one payment, two
administrators on one request. The instances have one more actor than that
where TLC can afford it. Two keys of one wallet are the smallest instance where
the key's lock does not protect the wallet's copy, and one key of a wallet the
one where it does. A usage larger than the estimate and one smaller (
`SmallAndLarge`), a balance the reservations can exhaust, an upstream id that
two calls can both report, a recharge and an adjustment make every branch of
the settlement reachable. Two orders of different size make a request of two
items, so that an approval can stop between them; a charge of half a cent makes
the refundable amount smaller than the balance. Counters are bounded by the
sets of requests, orders, charges and items: each posts at most once. Symmetry
is used for the administrators of `refund_requests` and the sessions of
`accounts` and `codes`, which check no liveness.

In `metering` one call is enough, as calls share nothing but the catalogue: an
edit between any two of its steps is the interleaving. The requests are one of
each way to be billed and each endpoint, plain and streamed, with a video that
leaves its resolution and sound to the defaults, a chat without `max_tokens`,
and names with blanks around them; the bodies have a usage within the estimate,
one beyond it and none; a buffer of 5 bytes is
smaller than a line with two characters and larger than one without, so that
lines are read, cut, and lost. In `accounts` a merge into an account needs two
accounts and a code, crossing merges a third account and a second request, the
last administrator two administrators; two events are enough to overtake a
merge on either side. There each behaviour has one code; `codes` has three of
one address and no events, so that a request judges or sends on a copy that is
one or two codes old.

Runs of calls and refunds set `CHECK_DEADLOCK FALSE`: when every call has
ended, or every request is closed, nothing has to happen any more; so does
`codes`, where after the merge nobody has a use for the one address. The runs
of orders and `accounts` do check for deadlock: an administrator can always mark an
order paid, and a code can always be tried or expire.

### Fairness

* `UsageBilling!FairSpec`: time passes, the cleanup loop runs every minute
  (`execute_reservation_cleanup` sleeps and repeats and catches what a turn
  raises), and an admission that holds the locks commits, refuses or dies. The
  handlers themselves need no fairness: they may die anywhere.
* `RechargeOrders!FairSpec`: a channel that does not give up repeats a report
  until it is answered, and one of the answers arrives. For the others the page
  polls an order every few seconds while it is pending, and of infinitely many
  polls some get through; this is strong fairness, as single polls may fail at
  any point. A query that was begun returns (weak fairness of `Query`), and of
  infinitely many queries that may tell of the payment one does
  (`QuerySucceeds`); for WeChat's own number none may, which is the finding.
* `Refunds!FairSpec`: one administrator (`Persistent`) keeps approving an open
  request, as `部分退款已完成，请继续处理` tells, finishes what he began, and of
  infinitely many attempts some do not die and some queries are answered.
  Nothing is assumed of the others, who may die between any two steps. With
  slow channels `PaidBackIsDebited` does not hold under it, which is a finding
  and not a lack of fairness.

## 4. Theorems

TLAPS proves, for any sets of users, keys, requests, orders and any amounts
within the named assumptions (`BillingAssumption`, `RechargeAssumption`,
`WalletAssumption`, `CodesAssumption`, `AccountsAssumption`, `RefundAssumption`,
`CatalogueAssumption`, `MeteredAssumption`, which give the constants their
types; TLC evaluates them in the runs). What they ask for beyond types:
an active administrator at the beginning, and `verify_email` codes for e-mail
addresses only (`AccountsAssumption`); orders paid in whole cents and at
different times (`RefundAssumption`); no negative price in what an
administrator enters, which the request schemas would let pass
(`CatalogueAssumption`); an upstream that reports no negative count and leaves
out at most the line feed of its last line (`MeteredAssumption`). With the
theorems below every invariant and every action property of the passing runs
is proved.

* `WalletLedgerProofs`: `TypeCorrect`, `ChainCorrect`, `ReferenceCorrect`. The
  first is inductive as it stands; the chain needs it, and the references need
  that `Post` looks at the ledgers of all users.
* `UsageBillingProofs`: `TypeCorrect` (one lemma per handler);
  `WalletRefinement`: a handler that moves money is a `Post`, every other step
  leaves `balance` and `ledger` alone, because a stale wallet copy is written
  only in the column that changed; `ReservationEndsOnceHolds` needs the
  invariant `NoEarlyReservation`: a request has no reservation before its
  admission, so `Reserve` does not revive an ended one;
  `ChargedWithinLimitsHolds`: only a settlement raises the counters
  (`OnlySettlementCounts`), and it decides on the row it has locked;
  `ChargedOnceHolds`: usage rows, captured reservations and consume rows
  correspond, by the unique reference and the pending status a settlement
  finds. On these rest:
  * `RequestLimitHolds`, for finitely many requests and as long as no
    administrator changes limits, which is what `billing_one_key` checks for
    three. A reservation is admitted by a copy of the key that may be old, so
    the invariant needs `CopyHasLimits`: counters and status of the copy may be
    old, but not its limits. The pending calls are counted under the lock, and
    at most one is added to a number below the limit. With changing limits the
    property does not hold: a limit may be lowered below what is in progress.
  * `CountersMatch`: the counters are the number and the sums of the usage rows.
    The invariant `CountersInv` adds that the rows are finite in number and
    that a key that was never created has none, so that creating it with zero
    counters is right; a settlement adds one row, new by `ChargedOnceHolds`, to
    one key (`SettlementKeepsCounters`).
  * `ReopenedByEarlierCallsHolds`, an action property, from `CopyIsOlder`: the
    counters of the copy of a key are never ahead of the row, and what was
    admitted was callable. A settlement or a failed call has no such copy any
    more: that it leaves a disabled key closed follows from what each writes.
  * `LimitUsedUpHolds`, for finitely many requests: a key is closed for its
    request limit only when as many calls as that were admitted. The counter
    the decision rests on is from before the lock, the count of the pending
    reservations from after it, and the write later still. `CountedOnce` is the
    argument: by `CopyIsOlder` the old counter is at most the number of usage
    rows, each usage row is of a call that has ended (`RowsEndedCalls`), so no
    call is in both numbers; and a reservation the cleanup loop ends after the
    count stays one that was admitted.
  * `ReservedBacks`, for finitely many requests: the reserved balance is the sum
    of the pending reservations, for a wallet with one key and no reservation
    overdue or deleted. The invariant is `AloneInAdmission` (the key's lock lets
    one admission in) with `BackedWallet`: the copy of the wallet an admission
    holds is then as new as the row. With two keys it is false, which is
    `bad_overcommit`'s history.
* `RechargeOrdersProofs`: `TypeCorrect`, `WalletRefinement`, and `CreditedOnce`
  from the invariant `CreditedInPlace`: a recharge row of an order is in the
  ledger of the order's own user, so that the search over all users by the
  unique constraint finds exactly the order's credit. `AcknowledgedIsPaidHolds`
  adds that a paid order stays paid and that a credit by a notification leaves
  the order paid, even when the reference was taken.
* `RefundsProofs`, for a user of finitely many orders and requests
  (`FiniteUser`):
  * `TypeHolds` with the invariant `RefundShape`: a request has no more
    items than there are orders, each of a positive amount within its order's
    (`WellFormed`), and what a desk holds of a request fits it. The amounts need the allocation: what is covered
    before an order in the sorted candidates is a sum, and the parts of the
    candidates are what is left of the amount asked for.
  * `DebitedOnceHolds`, `RefundedInFullHolds`, `DebitedButForClosedHolds` from
    `DebitInv`: one ledger row per item, a debit only after the channel's
    answer (`ChannelInv`), a mark only after the debit (`MarksInv`), and of
    every desk, that its `total` is the sum of a set of items before the
    current one, all debited (`PaidDesk`). So a `total` that covers the
    request means that every item is in that set, although the desk counts
    items that others have marked, and its copies are old.
    `DebitedOnceHolds` has the hypothesis `Closes = {}` of `refund_retried`:
    WeChat closing a refund unpaid breaks the property (`bad_closed_refund`).
    `DebitedButForClosedHolds` says what remains with it.
  * `RefundedWithinOrdersHolds` from `AllocInv`, under `OneAtATime`: one
    session creates requests, and none is rejected; how many administrators
    approve, die and repeat does not matter. Both are needed, see section 3.
    The draft that waits for its commit fits what is left of each order
    (`DraftFits`), as what counts only shrinks meanwhile; and without
    rejections what counts is all there is (`RefundsAreAllocated`).
* `MeteredCallProofs`: all five from one invariant `Inv`, of the catalogue
  (`CatalogueInv`) and of what each call holds (`Held`).
  * `TypeHolds`: rows keep their types under every administrative operation,
    amounts are not negative, and the buffer of the stream is never left over
    its limit (`PendingIsBounded`).
  * `UpstreamNamedHolds`: a model whose upstream knows it by another name can
    only chat (`OthersChat`), which the rule of `create_model` and
    `update_model` keeps and renaming restores; the routes of the native
    endpoints ask for capabilities no such model has. The row is looked
    up by the name without the blanks around it (`services/routing.py:145`)
    while the native endpoints pass the body on as it came, so the theorem
    leaves room for blanks there, and only there.
  * `ReservationCoversHolds`: `CostInOrder`, a cost does not fall when a
    quantity grows, under both roundings and in all four billing modes;
    `KeptCostsNoMore`, the cost of what a call that kept to its estimate used is
    no more than the estimate's; `TenthMore`, the tenth added is not lost in
    rounding.
    The invariant says that the reservation and the charge are made from the
    same copy of the model.
  * `QuantityOutlivesModelHolds`: the recorded quantity is that of the model
    the call was routed to, and is looked at before today's model is.
  * `StreamReadAsWholeHolds`, for every stream, every way to cut it, every size
    of the buffer: on `StreamUsageProofs`, whose `StreamInv` is kept by every
    chunk (`StreamGoesOn`). It says which bytes the buffer holds: those since
    the last line feed or since the last overflow, but for halved characters;
    that a piece between two line feeds parses exactly when it is a whole line
    that was not in a dropped buffer (`PieceReads`); and that the text read is
    the number of characters of those lines whose two bytes came in one chunk.
* `AccountsProofs`: `TypeCorrect`, `ClosedCodeRefusedHolds`,
  `WalletMatchesLedgerHolds` and `PhoneStaysHolds`, all from one inductive
  invariant of two parts. `CodesInv` says that no row holds
  a closed code, no two rows hold the same code, and a request that judges one
  read it open; it is needed because a stale write may put an attempt, but
  never a code, into a newer row. `AccountsInv` says that
  a source is in one merge at a time (its rows are locked), that its rows only
  grow while it is merged, that as long as none came the merge has read all of
  them, and that the wallet it has read is their sum unless `overwritten`
  records otherwise. With it a commit that the database lets through, which
  deletes a source no row names, is seen to move exactly the source's sums.

### Induction over data

The counters, the reserved balance, the allocation and the text of a stream are
sums, and a stream is the concatenation of its lines. What these compute needs
an induction, and the library's induction theorems take an operator as a
parameter, which the provers cannot instantiate. `SumTheorems` and
`StreamUsageProofs` go around it by a smallest counterexample: the sets, or the
numbers of lines, for which a statement fails are collected in a set, a
non-empty set of finite sets has a smallest member (`SmallestSet`, from the
library's fact that the strict subsets of finite sets are well-founded, which
has no such parameter), and the smallest one has one element, or one line, less
than itself to rest on. That the fold behind `Sum` has a solution at all is
proved the same way (`FoldExists`).

### Only model-checked

Liveness (`PendingEnds`, `PaymentCredited`, `PaidBackIsDebited`) needs
fairness and ENABLED, which are out of the prover's reach. The findings are
counterexamples on the instances of their runs.

## 5. Not modelled

* The SQLite branch of the admission (`services/proxy.py:525`), which serves
  local runs and the tests; it rolls back first, so its copies are fresh.
* Login with a password, the change of a name or a password, tokens of a
  session: each writes one row of one user and reads nothing it wrote earlier.
* Signatures, HTTP, forms and fields of the payment channels; delivery of mail
  and SMS, which may fail at any time and no more; the tokenizer, which is a
  function of the length of a text; parsing of JSON and of labels.
* The dashboard and the reports, which only read; metrics, which are
  process-local; static pages, migrations, the web client, and the earlier
  NestJS prototype under `src/apps/api/src`, which nothing runs.
* Several users in `Refunds` (every query is by user), orders paid while a
  request is created (they only add to what is refundable), and legacy
  `approved` requests, which no code creates any more.
* Calls and refunds over one wallet in one module. What they do to each other
  is what any posting does: `Refunds` has charges and recharges by others
  (`Postings`), `UsageBilling` has changes of the balance by others (an order,
  `Adjustments`). That a refund is offered of money reserved for calls
  (`api/payments.py:73`) needs both and is not stated.

## 6. Plan

Done, most important behaviour first:

1. `WalletLedger`, `UsageBilling` with their proofs: the money of a call.
2. `RechargeOrders` with its proofs: the money that comes in.
3. `Refunds`: the money that goes back; runs and findings.
4. `PaymentChannels`, under both of them.
5. `Pricing`, `StreamUsage`, `Routing`, `ModelCatalogue`, `MeteredCall`: what a
   call is charged, and why.
6. `VerificationCodes`, `Accounts` with their proofs: who owns the money.

7. `RefundsProofs`, `MeteredCallProofs`, `StreamUsageProofs`, `SumTheorems` and
   the counters of `UsageBillingProofs`: the invariants of the runs that were
   only checked before, for every instance.

Left:

8. `WalletOfAll`: calls, reservations and refunds on one wallet, for the refund
   of reserved money.
9. A step-by-step account of what an approval with a stale purse still keeps of
   `WalletLedger` (its references are unique, its rows are well formed; the
   chain of balances is what `bad_refund_balance` breaks).
