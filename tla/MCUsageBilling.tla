--------------------------- MODULE MCUsageBilling ---------------------------
(***************************************************************************)
(* Small instances of UsageBilling for TLC.  One wallet is shared by two   *)
(* keys, the smallest instance in which two calls meet on the wallet       *)
(* without meeting on a key; a second request on the first key makes them  *)
(* meet there as well.                                                     *)
(***************************************************************************)
EXTENDS UsageBilling

CONSTANTS u1, k1, k2, r1, r2, r3, o1, d1

OneUser == {u1}
TwoKeys == {k1, k2}
OneKey == {k1}
TwoRequests == {r1, r2}
ThreeRequests == {r1, r2, r3}

EveryKeyOfOneUser == [k \in Keys |-> u1]
EveryRequestOnOneKey == [r \in Requests |-> k1]
RequestsOnTwoKeys == [r \in Requests |-> IF r = r2 THEN k2 ELSE k1]

OneTokenEach == [r \in Requests |-> 1]
OneYuanEach == [r \in Requests |-> 1]
TwoYuanEach == [r \in Requests |-> 2]
TwoThenOne == [r \in Requests |-> IF r = r1 THEN 2 ELSE 1]

(* A settlement below, at and above the estimates. *)
SmallAndLarge == {[tokens |-> 1, amount |-> 1], [tokens |-> 2, amount |-> 3]}
SmallOnly == {[tokens |-> 1, amount |-> 1]}

Unlimited == [tokens |-> 0, requests |-> 0, amount |-> 0]
OneRequest == [tokens |-> 0, requests |-> 1, amount |-> 0]
TwoRequestsAllowed == [OneRequest EXCEPT !.requests = 2]
TwoTokensThreeYuan == [tokens |-> 2, requests |-> 0, amount |-> 3]
OnlyUnlimited == {Unlimited}
OnlyOneRequest == {OneRequest}
TwoRequestsOrUnlimited == {TwoRequestsAllowed, Unlimited}
SomeLimits == {OneRequest, TwoRequestsAllowed, TwoTokensThreeYuan}

ThreeYuan == [u \in Users |-> 3]
OrderOfOneUser == [o \in Orders |-> u1]
OneYuanOrders == [o \in Orders |-> 1]
AdjustDown == {-1}
=============================================================================
