-------------------------- MODULE MCWalletLedger ---------------------------
(***************************************************************************)
(* A small wallet for TLC.  The unique constraint bounds it: with one      *)
(* reference there is at most one row of each type, over all users.        *)
(***************************************************************************)
EXTENDS WalletLedger

CONSTANTS u1, u2, x1

OneYuanEach == [u \in Users |-> 1]
DebitsAndCredits == {-2, -1, 2}
=============================================================================
