-------------------------- MODULE MCRechargeOrders --------------------------
(***************************************************************************)
(* Small instances of RechargeOrders for TLC: two orders and one charge on *)
(* one wallet, and a session whose copy of an order goes stale beside a    *)
(* notification and an administrator.                                      *)
(***************************************************************************)
EXTENDS RechargeOrders

CONSTANTS u1, o1, o2, c1, s1

EveryOrderOfOneUser == [o \in Orders |-> u1]
OneThenTwo == [o \in Orders |-> IF o = o1 THEN 1 ELSE 2]
FirstByWechat == [o \in Orders |-> IF o = o1 THEN "wechat" ELSE "alipay"]
EveryChargeOfOneUser == [c \in Charges |-> u1]
EmptyWallet == [u \in Users |-> 0]
=============================================================================
