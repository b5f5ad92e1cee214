------------------------------- MODULE Accounts -------------------------------
(***************************************************************************)
(* User accounts: how codes create them, bind an address to them and merge *)
(* two of them into one, while administrators disable accounts and calls   *)
(* and adjustments post to their wallets.                                  *)
(*                                                                         *)
(* A merge is a transaction of many statements: it moves the rows of the   *)
(* source and reads both wallets without a lock (BeginMerge), and writes   *)
(* what it worked out when the session is flushed (CommitMerge).           *)
(***************************************************************************)
EXTENDS VerificationCodes

CONSTANTS
  Users,    \* identifiers of accounts, those not created yet included
  Phones, Emails,
  None,     \* no phone, no e-mail, no pending disabling
  Accounts0,\* [Users -> account], the accounts at the beginning
  MaxEvents \* bound: postings, registrations and administrative operations

VARIABLES
  user,       \* [Users -> row of users]
  wallet,     \* [Users -> [balance, reserved]], wallet_accounts
  book,       \* [Users -> [rows, posted, open]]: how many rows of the other tables
              \* name the user, the sum of its ledger, its pending reservations
  adjusted,   \* users with a ledger row of the adjustment's reference
  disabling,  \* [Users -> the account an administrator is disabling, or None]
  events,     \* how many of them there were
  overwritten \* history: which facts a commit wrote over without having seen them

accountVars == <<user, wallet, book, adjusted, disabling, events, overwritten>>
walletVars == <<wallet, book, adjusted>>
vars == <<codesVars, accountVars>>

UserRows == [exists : BOOLEAN, phone : Phones \cup {None}, email : Emails \cup {None},
             verified : BOOLEAN, role : {"user", "admin", "gone"}, active : BOOLEAN]
NoAccount == [exists |-> FALSE, phone |-> None, email |-> None, verified |-> FALSE,
              role |-> "user", active |-> FALSE]
Gone == [NoAccount EXCEPT !.role = "gone"] \* identifiers are not used again
Empty == [balance |-> 0, reserved |-> 0]
NoRows == [rows |-> 0, posted |-> 0, open |-> 0]

ASSUME AccountsAssumption ==
  /\ None \notin Phones \cup Emails \cup Users
  /\ \A slot \in Slots :
       slot.target \in IF slot.purpose = "verify_email" THEN Emails ELSE Phones \cup Emails
  /\ MaxEvents \in Nat
  /\ Accounts0 \in [Users -> UserRows]
  /\ \E u \in Users : Accounts0[u].exists /\ Accounts0[u].role = "admin" /\ Accounts0[u].active

TypeOK ==
  /\ CodesTypeOK
  /\ user \in [Users -> UserRows]
  /\ wallet \in [Users -> [balance : Int, reserved : Int]]
  /\ book \in [Users -> [rows : Nat, posted : Int, open : Nat]]
  /\ adjusted \subseteq Users /\ disabling \in [Users -> Users \cup {None}]
  /\ overwritten \subseteq {"money", "phone"} /\ events \in 0 .. MaxEvents
  /\ \A s \in Sessions :
       session[s] = Idle \/ session[s].at \in {"sending", "judging", "verified", "merging"}

(* Every account begins with a recharge of 1. *)
Init ==
  /\ CodesInit
  /\ user = Accounts0
  /\ wallet = [u \in Users |-> IF user[u].exists THEN [Empty EXCEPT !.balance = 1] ELSE Empty]
  /\ book = [u \in Users |-> IF user[u].exists THEN [rows |-> 1, posted |-> 1, open |-> 0]
                                               ELSE NoRows]
  /\ adjusted = {} /\ disabling = [u \in Users |-> None] /\ overwritten = {} /\ events = 0

-----------------------------------------------------------------------------
Task(s) == session[s].task
Signed(u) == user[u].exists /\ user[u].active \* get_current_user
WithEmail(e) == {u \in Users : user[u].exists /\ user[u].email = e}
WithPhone(p) == {u \in Users : user[u].exists /\ user[u].phone = p}

(* send_phone_login_code, send_email_login_code *)
AskLoginCode(s, slot) ==
  /\ slot.purpose = "login"
  /\ slot.target \in Emails =>
       \E u \in WithEmail(slot.target) : user[u].active /\ user[u].verified
  /\ LoadToSend(s, slot)
  /\ UNCHANGED accountVars

(* send_register_email_verification_code, by the user u *)
AskBindCode(s, u, slot) ==
  /\ slot.purpose = "verify_email" /\ Signed(u)
  /\ \A other \in WithEmail(slot.target) \ {u} :
       user[other].active /\ user[other].phone \in {None, user[u].phone}
  /\ ~(user[u].email = slot.target /\ user[u].verified)
  /\ LoadToSend(s, slot)
  /\ UNCHANGED accountVars

(* login_user_by_phone_code, login_user_by_email_code *)
TryLogin(s, slot, right) ==
  /\ slot.purpose = "login"
  /\ slot.target \in Emails =>
       \E u \in WithEmail(slot.target) : user[u].active /\ user[u].verified
  /\ LoadToJudge(s, slot, right, [kind |-> "login"])
  /\ UNCHANGED accountVars

(* verify_user_email; the session keeps the row of the user it has read. *)
TryBind(s, u, slot, right) ==
  /\ slot.purpose = "verify_email" /\ Signed(u)
  /\ LoadToJudge(s, slot, right,
       [kind |-> "bind", user |-> u, phone |-> user[u].phone, email |-> user[u].email])
  /\ UNCHANGED accountVars

Event == events < MaxEvents /\ events' = events + 1

NewUser(u, phone, email) ==
  /\ user[u] = NoAccount
  /\ user' = [user EXCEPT ![u] = [exists |-> TRUE, phone |-> phone, email |-> email,
                                  verified |-> FALSE, role |-> "user", active |-> TRUE]]
  /\ wallet' = [wallet EXCEPT ![u] = Empty]
  /\ book' = [book EXCEPT ![u] = NoRows]
  /\ UNCHANGED <<adjusted, disabling, overwritten>>

(* The first login with a phone creates the account. *)
FinishLogin(s) ==
  LET target == session[s].slot.target IN
  /\ At(s, "verified") /\ Task(s).kind = "login"
  /\ Leave(s) /\ UNCHANGED codeVars
  /\ IF target \in Phones /\ WithPhone(target) = {}
       THEN \E u \in Users : NewUser(u, target, None) /\ UNCHANGED events
       ELSE UNCHANGED accountVars

(* register_user *)
Register(u, phone, email) ==
  /\ WithEmail(email) = {} /\ WithPhone(phone) = {}
  /\ NewUser(u, phone, email) /\ Event
  /\ UNCHANGED codesVars

-----------------------------------------------------------------------------
(* Binding an address nobody has, and merging into the account that has it.*)

BindEmail(s) ==
  LET u == Task(s).user
      email == session[s].slot.target
  IN  /\ At(s, "verified") /\ Task(s).kind = "bind" /\ user[u].exists
      /\ WithEmail(email) \subseteq {u}
      /\ user' = [user EXCEPT ![u].email = IF Task(s).email = email THEN @ ELSE email,
                              ![u].verified = TRUE]
      /\ Leave(s)
      /\ UNCHANGED <<codeVars, walletVars, disabling, events, overwritten>>

(* The rows of the source are moved, and from here on locked; a row of it  *)
(* that another transaction adds is not among them.                        *)
BeginMerge(s) ==
  LET source == Task(s).user IN
  /\ At(s, "verified") /\ Task(s).kind = "bind" /\ user[source].exists
  /\ \A other \in Sessions : At(other, "merging") => Task(other).user # source
  /\ \E target \in WithEmail(session[s].slot.target) \ {source} :
       /\ (user[target].phone # None /\ Task(s).phone # None)
            => user[target].phone = Task(s).phone
       /\ session' = [session EXCEPT ![s] =
            [at |-> "merging", slot |-> @.slot, task |-> @.task, target |-> target,
             moved |-> book[source], sourceWallet |-> wallet[source],
             targetWallet |-> wallet[target], targetPhone |-> user[target].phone]]
  /\ UNCHANGED <<codeVars, accountVars>>

Locked(u) == \E s \in Sessions : At(s, "merging") /\ Task(s).user = u

Unchecked(s) == TRUE \* Mutant: rows that name the source do not stop the merge.
(* The database refuses to delete a source that rows still name. *)
NoRowLeft(s) == book[Task(s).user].rows = session[s].moved.rows

(* _merge_wallet_accounts: sums of what was read, written if they differ.  *)
Merged(s) ==
  LET from == session[s].sourceWallet
      into == session[s].targetWallet
      now == wallet[session[s].target]
  IN  [balance |-> IF from.balance = 0 THEN now.balance ELSE into.balance + from.balance,
       reserved |-> IF from.reserved = 0 THEN now.reserved ELSE into.reserved + from.reserved]

(* What the merge writes over although it changed since the merge read it. *)
Unseen(s) ==
  LET target == session[s].target IN
  (IF wallet[target] # session[s].targetWallet THEN {"money"} ELSE {})
  \cup (IF user[target].phone # session[s].targetPhone \/ user[Task(s).user].phone # Task(s).phone
          THEN {"phone"} ELSE {})

ForgetsPhone(s, now) == now \* Mutant: the source's phone goes with the source.
(* The target's phone: the source's, if the target had none when read.     *)
PhoneKept(s, now) ==
  IF Task(s).phone # None /\ session[s].targetPhone = None THEN Task(s).phone ELSE now

CommitMerge(s) ==
  LET source == Task(s).user
      target == session[s].target
      moved == session[s].moved
      email == session[s].slot.target
      phone == PhoneKept(s, user[target].phone)
      gone == {slot \in Slots : slot.target \in {email, Task(s).phone, Task(s).email}}
  IN  /\ At(s, "merging") /\ user[source].exists /\ user[target].exists /\ NoRowLeft(s)
      /\ phone # None => WithPhone(phone) \subseteq {source, target}
      /\ user' = [user EXCEPT ![source] = Gone, ![target].phone = phone,
                              ![target].verified = TRUE]
      /\ wallet' = [wallet EXCEPT ![source] = Empty, ![target] = Merged(s)]
      /\ book' = [book EXCEPT
                    ![source] = [rows |-> @.rows - moved.rows, posted |-> @.posted - moved.posted,
                                 open |-> @.open - moved.open],
                    ![target] = [rows |-> @.rows + moved.rows, posted |-> @.posted + moved.posted,
                                 open |-> @.open + moved.open]]
      /\ code' = [slot \in Slots |-> IF slot \in gone THEN NoRow ELSE code[slot]]
      /\ closed' = closed \cup ({code[slot].hash : slot \in gone} \ {0})
      /\ overwritten' = overwritten \cup Unseen(s)
      /\ Leave(s)
      /\ UNCHANGED <<sentCodes, adjusted, disabling, events>>

(* Refused for the target's phone, refused by the database, or interrupted *)
(* at any point: nothing of the merge stays, but the code is spent.        *)
TaskFails(s) ==
  /\ At(s, "verified") \/ At(s, "merging")
  /\ Leave(s) /\ UNCHANGED <<codeVars, accountVars>>

-----------------------------------------------------------------------------
(* Administrators.                                                         *)

ActiveAdmins == {u \in Users : user[u].exists /\ user[u].role = "admin" /\ user[u].active}

Enable(admin, u) ==
  /\ admin \in ActiveAdmins /\ user[u].exists
  /\ user' = [user EXCEPT ![u].active = TRUE]
  /\ Event
  /\ UNCHANGED <<codesVars, walletVars, disabling, overwritten>>

(* Not oneself, and not the only administrator. *)
MayDisable(admin, u) ==
  /\ u # admin
  /\ user[u].role = "admin" /\ user[u].active => Cardinality(ActiveAdmins) > 1

BeginDisable(admin, u) ==
  /\ admin \in ActiveAdmins /\ disabling[admin] = None /\ user[u].exists /\ user[u].active
  /\ MayDisable(admin, u)
  /\ disabling' = [disabling EXCEPT ![admin] = u]
  /\ Event
  /\ UNCHANGED <<codesVars, user, walletVars, overwritten>>

CommitDisable(admin) ==
  LET u == disabling[admin] IN
  /\ u # None
  /\ user' = [user EXCEPT ![u].active = FALSE]
  /\ disabling' = [disabling EXCEPT ![admin] = None]
  /\ UNCHANGED <<codesVars, walletVars, events, overwritten>>

(* adjust_user_balance: the reference is the user, so the second           *)
(* adjustment is rolled back, and reported as done.                        *)
Adjust(admin, u) ==
  /\ admin \in ActiveAdmins /\ user[u].exists /\ u \notin adjusted
  /\ wallet' = [wallet EXCEPT ![u].balance = @ + 1]
  /\ book' = [book EXCEPT ![u].rows = @ + 1, ![u].posted = @ + 1]
  /\ adjusted' = adjusted \cup {u}
  /\ Event
  /\ UNCHANGED <<codesVars, user, disabling, overwritten>>

-----------------------------------------------------------------------------
(* Calls: the posting of a reservation and of its settlement.              *)

Reserve(u) ==
  /\ Signed(u) /\ wallet[u].balance - wallet[u].reserved >= 1
  /\ wallet' = [wallet EXCEPT ![u].reserved = @ + 1]
  /\ book' = [book EXCEPT ![u].rows = @ + 1, ![u].open = @ + 1]
  /\ Event /\ UNCHANGED <<codesVars, user, adjusted, disabling, overwritten>>

(* Mutant: that the reservation is still open is not looked at again. *)
SettleAgain(u) ==
  /\ user[u].exists /\ ~Locked(u)
  /\ wallet' = [wallet EXCEPT ![u].reserved = @ - 1, ![u].balance = @ - 1]
  /\ book' = [book EXCEPT ![u].rows = @ + 1, ![u].posted = @ - 1, ![u].open = @ - 1]
  /\ Event /\ UNCHANGED <<codesVars, user, adjusted, disabling, overwritten>>

(* The row of the reservation is locked first. *)
Settle(u) ==
  /\ user[u].exists /\ book[u].open > 0 /\ ~Locked(u)
  /\ wallet' = [wallet EXCEPT ![u].reserved = @ - 1, ![u].balance = @ - 1]
  /\ book' = [book EXCEPT ![u].rows = @ + 1, ![u].posted = @ - 1, ![u].open = @ - 1]
  /\ Event /\ UNCHANGED <<codesVars, user, adjusted, disabling, overwritten>>

Next ==
  \/ Time /\ UNCHANGED accountVars
  \/ \E s \in Sessions :
       \/ CodeStep(s) /\ UNCHANGED accountVars
       \/ FinishLogin(s) \/ BindEmail(s) \/ BeginMerge(s) \/ CommitMerge(s) \/ TaskFails(s)
       \/ \E slot \in Slots :
            \/ AskLoginCode(s, slot)
            \/ \E right \in BOOLEAN : TryLogin(s, slot, right)
            \/ \E u \in Users :
                 \/ AskBindCode(s, u, slot)
                 \/ \E right \in BOOLEAN : TryBind(s, u, slot, right)
  \/ \E u \in Users :
       \/ \E phone \in Phones, email \in Emails : Register(u, phone, email)
       \/ CommitDisable(u) \/ Reserve(u) \/ Settle(u)
       \/ \E admin \in Users : Enable(admin, u) \/ BeginDisable(admin, u) \/ Adjust(admin, u)

Spec == Init /\ [][Next]_vars

-----------------------------------------------------------------------------
(* Properties.                                                             *)

(* _merge_user_into_target and the postings of wallet.py: a wallet holds   *)
(* what its ledger and its reservations add up to, through merges that     *)
(* calls of the source overtake, that fail half-way or that come two at a  *)
(* time; only a posting to the target between a merge's reading and its    *)
(* writing can upset it.                                                   *)
WalletsAddUp ==
  \A u \in Users : wallet[u].balance = book[u].posted /\ wallet[u].reserved = book[u].open
WalletMatchesLedger == "money" \in overwritten \/ WalletsAddUp

(* _merge_user_into_target: a phone that opens an account goes on opening  *)
(* one, unless merges that share an account cross.                         *)
Opens(p) == WithPhone(p) # {}
PhoneStays ==
  [][\A p \in Phones : Opens(p) => Opens(p)' \/ "phone" \in overwritten']_vars
PhoneAlwaysStays == [][\A p \in Phones : Opens(p) => Opens(p)']_vars

(* disable_user, _merge_user_into_target: an administrator who may sign in *)
(* is left ("至少保留一个可用管理员账号").                                 *)
SomeAdmin == ActiveAdmins # {}

(* send_register_email_verification_code looks at the account that has the *)
(* address; when the code comes back it may be disabled, and the user      *)
(* would be signed in to an account that is closed to him.                 *)
MergesIntoActive ==
  [][\A s \in Sessions : (At(s, "verified") /\ session'[s].at = "merging") =>
       user[session'[s].target].active]_vars
=============================================================================
