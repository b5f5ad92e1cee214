---------------------------- MODULE WalletLedger ----------------------------
(***************************************************************************)
(* What the wallet promises, whichever service moves the money: a balance  *)
(* changes only together with one new ledger row, the row records the      *)
(* balance it leaves behind, no two rows share a reference, and no row is  *)
(* ever rewritten.  UsageBilling and RechargeOrders are shown to implement *)
(* this specification.                                                     *)
(***************************************************************************)
EXTENDS Integers, Sequences

CONSTANTS
  Users,          \* owners of a wallet
  InitialBalance, \* [Users -> Nat], the balance before the first row
  References,     \* what a row may refer to: orders, upstream ids, users
  Amounts         \* the amounts a row may carry, negative for a debit

RowTypes == {"consume", "recharge", "adjust", "refund"}

(* A row of wallet_ledger; after is its balance_after column. *)
Rows == [type : RowTypes, ref : References, amount : Amounts, after : Nat]

ASSUME WalletAssumption ==
  /\ InitialBalance \in [Users -> Nat]
  /\ Amounts \subseteq Int

VARIABLES
  balance,        \* [Users -> Nat], wallet_accounts.balance
  ledger          \* [Users -> Seq(Rows)], the user's rows by ascending id

walletVars == <<balance, ledger>>

TypeOK ==
  /\ balance \in [Users -> Nat]
  /\ ledger \in [Users -> Seq(Rows)]

NeverPosted(type, ref) == FALSE \* Mutant: the unique constraint is missing.

(* uq_wallet_ledger_reference: is (type, ref) already taken, by any user?  *)
Posted(type, ref) ==
  \E u \in Users : \E i \in DOMAIN ledger[u] :
    ledger[u][i].type = type /\ ledger[u][i].ref = ref

Init ==
  /\ balance = InitialBalance
  /\ ledger = [u \in Users |-> <<>>]

(* Mutant: the amount is added to a balance that is not the row's. *)
PostToStaleBalance(u, type, ref, amount) ==
  /\ ~Posted(type, ref)
  /\ balance[u] + amount >= 0
  /\ balance' = [balance EXCEPT ![u] = InitialBalance[u] + amount]
  /\ ledger' = [ledger EXCEPT ![u] =
                  Append(@, [type |-> type, ref |-> ref, amount |-> amount,
                             after |-> balance[u] + amount])]

(* Mutant: a debit is not compared with the balance. *)
PostUncovered(u, type, ref, amount) ==
  /\ ~Posted(type, ref)
  /\ balance' = [balance EXCEPT ![u] = @ + amount]
  /\ ledger' = [ledger EXCEPT ![u] =
                  Append(@, [type |-> type, ref |-> ref, amount |-> amount,
                             after |-> balance[u] + amount])]

(* One balance change: both the account row and the ledger row, or nothing. *)
Post(u, type, ref, amount) ==
  /\ ~Posted(type, ref)
  /\ balance[u] + amount >= 0
  /\ balance' = [balance EXCEPT ![u] = @ + amount]
  /\ ledger' = [ledger EXCEPT ![u] =
                  Append(@, [type |-> type, ref |-> ref, amount |-> amount,
                             after |-> balance[u] + amount])]

Next ==
  \E u \in Users, type \in RowTypes, ref \in References, amount \in Amounts :
    Post(u, type, ref, amount)

Spec == Init /\ [][Next]_walletVars

-----------------------------------------------------------------------------
(* The balance a user had before row i was posted. *)
Before(u, i) == IF i = 1 THEN InitialBalance[u] ELSE ledger[u][i - 1].after

(* Every row continues the balance the row before it left, and the account *)
(* holds what the last row left: no update of a balance is lost and none   *)
(* bypasses the ledger.                                                    *)
LedgerChain ==
  \A u \in Users :
    /\ \A i \in DOMAIN ledger[u] :
         ledger[u][i].after = Before(u, i) + ledger[u][i].amount
    /\ balance[u] = Before(u, Len(ledger[u]) + 1)

(* Two rows never share a (type, reference): a reference is settled once.  *)
UniqueReference ==
  \A u, v \in Users : \A i \in DOMAIN ledger[u], j \in DOMAIN ledger[v] :
    (ledger[u][i].type = ledger[v][j].type /\ ledger[u][i].ref = ledger[v][j].ref)
       => (u = v /\ i = j)
=============================================================================
