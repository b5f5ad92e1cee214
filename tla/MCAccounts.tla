------------------------------ MODULE MCAccounts ------------------------------
(* Two administrators, one with a phone and one with an e-mail address,    *)
(* and a phone that has no account yet.                                    *)
EXTENDS Accounts, TLC

CONSTANTS ann, bob, dan

Account(phone, email, role) ==
  [exists |-> TRUE, phone |-> phone, email |-> email, verified |-> email # None,
   role |-> role, active |-> TRUE]
MCAccounts0 ==
  [u \in Users |-> CASE u = ann -> Account("p1", None, "admin")
                     [] u = bob -> Account(None, "e1", "admin")
                     [] OTHER -> NoAccount]
Bind == [target |-> "e1", purpose |-> "verify_email"]
Login == [target |-> "p2", purpose |-> "login"]
Other == [target |-> "e2", purpose |-> "verify_email"]
MCSlots == {Bind, Other, Login}
OneSlot == {Bind}
Symmetry == Permutations(Sessions)
=============================================================================
