---------------------------- MODULE RefundsProofs ----------------------------
(***************************************************************************)
(* Theorems about refunds, for any number of orders, requests, sessions    *)
(* and administrators and any amounts.                                     *)
(***************************************************************************)
EXTENDS Refunds, SumTheorems

(* A user has finitely many paid orders and makes finitely many requests.  *)
FiniteUser == IsFiniteSet(Orders) /\ IsFiniteSet(Refunds)

-----------------------------------------------------------------------------
(* Sums of items.                                                          *)

LEMMA MaxOfZero ==
  ASSUME NEW x \in Int
  PROVE  Max({0, x}) = IF x > 0 THEN x ELSE 0
<1> DEFINE m == IF x > 0 THEN x ELSE 0
<1>1. m \in {0, x} /\ \A y \in {0, x} : m >= y
  OBVIOUS
<1>2. \A n \in {0, x} : (\A y \in {0, x} : n >= y) => n = m
  OBVIOUS
<1> QED BY <1>1, <1>2 DEF Max

LEMMA MinOfTwo ==
  ASSUME NEW x \in Int, NEW y \in Int
  PROVE  Min({x, y}) = IF x < y THEN x ELSE y
<1> DEFINE m == IF x < y THEN x ELSE y
<1>1. m \in {x, y} /\ \A z \in {x, y} : m <= z
  OBVIOUS
<1>2. \A n \in {x, y} : (\A z \in {x, y} : n <= z) => n = m
  OBVIOUS
<1> QED BY <1>1, <1>2 DEF Min

ItemsTyped == items \in [Refunds -> Seq(Items)]

LEMMA ItemsOfFinite ==
  ASSUME ItemsTyped, NEW q \in Refunds
  PROVE  /\ IsFiniteSet(ItemsOf(q))
         /\ \A x \in ItemsOf(q) : /\ x = <<q, x[2]>> /\ x[2] \in DOMAIN items[q]
                                  /\ ItemAt(x) \in Items /\ ItemAt(x).amount \in Nat
<1>1. items[q] \in Seq(Items) /\ DOMAIN items[q] = 1 .. Len(items[q]) /\ Len(items[q]) \in Nat
  BY DEF ItemsTyped
<1>2. \A x \in ItemsOf(q) : x = <<q, x[2]>> /\ x[2] \in DOMAIN items[q]
  BY DEF ItemsOf
<1>3. \A x \in ItemsOf(q) : ItemAt(x) \in Items /\ ItemAt(x).amount \in Nat
  <2>1. \A i \in DOMAIN items[q] : ItemAt(<<q, i>>) = items[q][i] /\ items[q][i] \in Items
    BY <1>1 DEF ItemAt
  <2>2. \A i \in DOMAIN items[q] : ItemAt(<<q, i>>) \in Items /\ ItemAt(<<q, i>>).amount \in Nat
    BY <2>1 DEF Items
  <2> QED BY <1>2, <2>2
<1>4. IsFiniteSet(1 .. Len(items[q]))
  BY <1>1, FS_Interval
<1>5. IsFiniteSet({q} \X (1 .. Len(items[q])))
  BY <1>4, FS_Singleton, FS_Product
<1>6. ItemsOf(q) \subseteq {q} \X (1 .. Len(items[q]))
  BY <1>1 DEF ItemsOf
<1> QED BY <1>2, <1>3, <1>5, <1>6, FS_Subset

ItemsOfAll(requests) == UNION {ItemsOf(q) : q \in requests}

LEMMA ItemsOfAllFinite ==
  ASSUME ItemsTyped, FiniteUser, NEW R \in SUBSET Refunds
  PROVE  /\ IsFiniteSet(ItemsOfAll(R))
         /\ \A x \in ItemsOfAll(R) : /\ x[1] \in R /\ x \in ItemsOf(x[1])
                                     /\ ItemAt(x) \in Items /\ ItemAt(x).amount \in Nat
<1>1. IsFiniteSet(R)
  BY FS_Subset DEF FiniteUser
<1> DEFINE f == [q \in R |-> ItemsOf(q)]
           T == {ItemsOf(q) : q \in R}
<1>2. f \in Surjection(R, T)
  BY DEF Surjection
<1>3. IsFiniteSet(T)
  <2> HIDE DEF f, T
  <2> QED BY <1>1, <1>2, FS_Surjection
<1>4. \A t \in T : IsFiniteSet(t)
  BY ItemsOfFinite
<1>5. IsFiniteSet(UNION T)
  <2> HIDE DEF T
  <2> QED BY <1>3, <1>4, FS_UNION
<1>6. ASSUME NEW x \in ItemsOfAll(R)
      PROVE  /\ x[1] \in R /\ x \in ItemsOf(x[1])
             /\ ItemAt(x) \in Items /\ ItemAt(x).amount \in Nat
  <2>1. PICK q \in R : x \in ItemsOf(q)
    BY <1>6 DEF ItemsOfAll
  <2>2. x[1] = q
    BY <2>1, ItemsOfFinite
  <2> QED BY <2>1, <2>2, ItemsOfFinite
<1> QED BY <1>5, <1>6 DEF ItemsOfAll

LEMMA AmountType ==
  ASSUME NEW S, IsFiniteSet(S), \A x \in S : ItemAt(x).amount \in Nat
  PROVE  AmountOf(S) \in Nat
BY SumNat DEF AmountOf

LEMMA AmountEmpty == AmountOf({}) = 0
BY SumEmpty DEF AmountOf

LEMMA AmountAdd ==
  ASSUME NEW S, IsFiniteSet(S), NEW x, x \notin S, \A y \in S \cup {x} : ItemAt(y).amount \in Nat
  PROVE  AmountOf(S \cup {x}) = ItemAt(x).amount + AmountOf(S)
<1> DEFINE f == [y \in S |-> ItemAt(y).amount]
           g == [y \in S \cup {x} |-> ItemAt(y).amount]
<1>1. /\ \A y \in S : g[y] = f[y]
      /\ \A y \in S \cup {x} : g[y] \in Int
      /\ g[x] = ItemAt(x).amount
  OBVIOUS
<1> HIDE DEF f, g
<1>2. Sum(g, S \cup {x}) = g[x] + Sum(f, S)
  BY <1>1, SumExtended
<1> QED BY <1>1, <1>2 DEF AmountOf, f, g

(* Part of the items amount to all of them only if they are all, as no     *)
(* item is of nothing.                                                     *)
LEMMA AmountOfAll ==
  ASSUME NEW S, IsFiniteSet(S), \A x \in S : ItemAt(x).amount \in Nat \ {0}, NEW T \in SUBSET S,
         AmountOf(T) >= AmountOf(S)
  PROVE  T = S
<1> DEFINE f == [y \in S |-> ItemAt(y).amount]
           g == [y \in T |-> ItemAt(y).amount]
<1>1. /\ \A y \in T : g[y] = f[y]
      /\ \A y \in S : f[y] \in Nat \ {0}
      /\ IsFiniteSet(T)
  BY FS_Subset
<1>2. AmountOf(S) = Sum(f, S) /\ AmountOf(T) = Sum(g, T)
  BY DEF AmountOf
<1> HIDE DEF f, g
<1>3. Sum(g, T) = Sum(f, T)
  BY <1>1, SumEqual
<1> QED BY <1>1, <1>2, <1>3, SumPartOfAll

LEMMA AllocatedType ==
  ASSUME ItemsTyped, FiniteUser, NEW R \in SUBSET Refunds, NEW o
  PROVE  AllocatedTo(o, R) \in Nat
<1> DEFINE S == {x \in ItemsOfAll(R) : ItemAt(x).order = o}
<1>1. IsFiniteSet(S) /\ \A x \in S : ItemAt(x).amount \in Nat
  BY ItemsOfAllFinite, FS_Subset
<1>2. AllocatedTo(o, R) = AmountOf(S)
  BY DEF AllocatedTo, ItemsOfAll
<1> HIDE DEF S
<1> QED BY <1>1, <1>2, AmountType

LEMMA CountedRequests == Counted \subseteq Refunds
BY DEF Counted

-----------------------------------------------------------------------------
(* What _build_refund_allocations returns.                                 *)

LEMMA AvailableType ==
  ASSUME RefundAssumption, ItemsTyped, FiniteUser, NEW o \in Orders
  PROVE  /\ Available(o) \in Nat /\ Available(o) <= OrderAmount[o] /\ OrderAmount[o] \in Nat
         /\ Available(o) > 0 => Available(o) + AllocatedTo(o, Counted) = OrderAmount[o]
<1>1. OrderAmount[o] \in Nat /\ AllocatedTo(o, Counted) \in Nat
  BY AllocatedType, CountedRequests DEF RefundAssumption
<1>2. Max({0, OrderAmount[o] - AllocatedTo(o, Counted)}) =
        IF OrderAmount[o] - AllocatedTo(o, Counted) > 0
          THEN OrderAmount[o] - AllocatedTo(o, Counted) ELSE 0
  BY <1>1, MaxOfZero
<1> QED BY <1>1, <1>2 DEF Available

(* The order of the candidates is total: no two orders were paid at once. *)
LEMMA PrecedesOrder ==
  ASSUME RefundAssumption, ItemsTyped, FiniteUser
  PROVE  /\ \A o \in Orders : ~Precedes(o, o)
         /\ \A o, p, r \in Orders : Precedes(o, p) /\ Precedes(p, r) => Precedes(o, r)
         /\ \A o, p \in Orders : Precedes(o, p) \/ Precedes(p, o) \/ o = p
<1>1. \A o \in Orders : Available(o) \in Nat /\ PaidAt[o] \in Nat
  BY AvailableType DEF RefundAssumption
<1>2. \A o, p \in Orders : PaidAt[o] = PaidAt[p] => o = p
  BY DEF RefundAssumption
<1> QED BY <1>1, <1>2 DEF Precedes

Rank(U, o) == Cardinality({p \in U : Precedes(p, o)})

LEMMA RankType ==
  ASSUME RefundAssumption, ItemsTyped, FiniteUser, NEW U \in SUBSET Orders
  PROVE  /\ IsFiniteSet(U) /\ Cardinality(U) \in Nat
         /\ \A o \in U : Rank(U, o) \in 0 .. Cardinality(U) - 1
         /\ \A o, p \in U : Rank(U, o) = Rank(U, p) => o = p
<1>1. IsFiniteSet(U) /\ Cardinality(U) \in Nat
  BY FS_Subset, FS_CardinalityType DEF FiniteUser
<1>2. ASSUME NEW o \in U PROVE Rank(U, o) \in 0 .. Cardinality(U) - 1
  <2> DEFINE B == {p \in U : Precedes(p, o)}
  <2>1. B \subseteq U \ {o}
    BY PrecedesOrder
  <2>2. IsFiniteSet(U \ {o}) /\ Cardinality(U \ {o}) = Cardinality(U) - 1
    BY <1>1, FS_RemoveElement
  <2> HIDE DEF B
  <2>3. IsFiniteSet(B) /\ Cardinality(B) <= Cardinality(U \ {o}) /\ Cardinality(B) \in Nat
    BY <2>1, <2>2, FS_Subset, FS_CardinalityType
  <2>4. Cardinality(B) \in 0 .. Cardinality(U) - 1
    BY <1>1, <2>2, <2>3
  <2> QED BY <2>4 DEF Rank, B
<1>3. ASSUME NEW o \in U, NEW p \in U, Precedes(o, p) PROVE Rank(U, o) # Rank(U, p)
  <2> DEFINE B == {r \in U : Precedes(r, o)}
             C == {r \in U : Precedes(r, p)}
  <2>1. B \subseteq C /\ o \in C /\ o \notin B /\ IsFiniteSet(C)
    BY <1>1, <1>3, PrecedesOrder, FS_Subset
  <2> HIDE DEF B, C
  <2>2. Cardinality(B) # Cardinality(C)
    BY <2>1, FS_Subset
  <2> QED BY <2>2 DEF Rank, B, C
<1>4. \A o, p \in U : Rank(U, o) = Rank(U, p) => o = p
  BY <1>3, PrecedesOrder
<1> QED BY <1>1, <1>2, <1>4

(* As many ranks as candidates: every position is taken. *)
LEMMA RankTaken ==
  ASSUME RefundAssumption, ItemsTyped, FiniteUser, NEW U \in SUBSET Orders,
         NEW i \in 1 .. Cardinality(U)
  PROVE  \E o \in U : Rank(U, o) = i - 1
<1> DEFINE n == Cardinality(U)
           f == [o \in U |-> Rank(U, o)]
           T == 0 .. n - 1
<1>1. IsFiniteSet(U) /\ n \in Nat /\ f \in [U -> T] /\ \A o, p \in U : f[o] = f[p] => o = p
  BY RankType
<1>2. f \in Injection(U, T)
  BY <1>1 DEF Injection, IsInjective
<1>3. IsFiniteSet(T) /\ Cardinality(T) = n
  <2>1. 0 \in Int /\ n - 1 \in Int /\ n \in Nat
    BY <1>1
  <2> HIDE DEF n
  <2>2. IsFiniteSet(0 .. n - 1) /\ Cardinality(0 .. n - 1) = IF 0 > n - 1 THEN 0 ELSE (n - 1) - 0 + 1
    BY <2>1, FS_Interval
  <2> QED BY <2>1, <2>2
<1>4. i - 1 \in T
  BY <1>1
<1> HIDE DEF f, T
<1>5. f \in Surjection(U, T)
  BY <1>2, <1>3, FS_Injection
<1>6. \E o \in U : f[o] = i - 1
  BY <1>4, <1>5 DEF Surjection
<1> QED BY <1>6 DEF f

LEMMA CoveredType ==
  ASSUME RefundAssumption, ItemsTyped, FiniteUser, NEW o \in Orders
  PROVE  CoveredBefore(o) \in Nat
<1> DEFINE S == {p \in Candidates : Precedes(p, o)}
           f == [p \in S |-> Available(p)]
<1>1. IsFiniteSet(S) /\ \A p \in S : f[p] \in Nat
  BY AvailableType, FS_Subset DEF Candidates, FiniteUser
<1>2. CoveredBefore(o) = Sum(f, S)
  BY DEF CoveredBefore, AvailableOf
<1> HIDE DEF S, f
<1> QED BY <1>1, <1>2, SumNat

WellFormed(seq) ==
  /\ seq \in Seq(Items) /\ Len(seq) <= Cardinality(Orders)
  /\ \A i \in 1 .. Len(seq) : seq[i].amount \in 1 .. OrderAmount[seq[i].order]

(* Every order is used once, for something of what is left of it. *)
LEMMA AllocationFits ==
  ASSUME RefundAssumption, ItemsTyped, FiniteUser, NEW amount \in Int
  PROVE  LET seq == Allocation(amount) IN
         /\ WellFormed(seq)
         /\ \A i \in 1 .. Len(seq) :
              seq[i].status = "pending" /\ seq[i].amount \in 1 .. Available(seq[i].order)
         /\ \A i, j \in 1 .. Len(seq) : seq[i].order = seq[j].order => i = j
<1> DEFINE U == {o \in Candidates : CoveredBefore(o) < amount}
           nth(i) == CHOOSE o \in U : Cardinality({p \in U : Precedes(p, o)}) = i - 1
           part(i) == Min({Available(nth(i)), amount - CoveredBefore(nth(i))})
           item(i) == [order |-> nth(i), status |-> "pending", amount |-> part(i)]
           n == Cardinality(U)
           seq == [i \in 1 .. n |-> item(i)]
<1>1. Allocation(amount) = seq
  BY Zenon DEF Allocation
<1>2. U \in SUBSET Orders /\ IsFiniteSet(U) /\ n \in Nat
  <2>1. U \in SUBSET Orders
    BY DEF Candidates
  <2> QED BY <2>1, RankType
<1>3. n <= Cardinality(Orders)
  BY <1>2, FS_Subset DEF FiniteUser
<1>4. ASSUME NEW i \in 1 .. n PROVE nth(i) \in U /\ Rank(U, nth(i)) = i - 1
  <2> HIDE DEF U
  <2>1. \E o \in U : Rank(U, o) = i - 1
    BY <1>2, RankTaken
  <2> QED BY <2>1 DEF Rank
<1>5. ASSUME NEW i \in 1 .. n
      PROVE  nth(i) \in Orders /\ part(i) \in 1 .. Available(nth(i))
  <2> DEFINE o == nth(i)
  <2>1. o \in Orders /\ Available(o) > 0 /\ CoveredBefore(o) < amount
    BY <1>4 DEF Candidates
  <2> HIDE DEF o
  <2>2. Available(o) \in Nat /\ CoveredBefore(o) \in Nat
    BY <2>1, AvailableType, CoveredType
  <2>3. Min({Available(o), amount - CoveredBefore(o)}) =
          IF Available(o) < amount - CoveredBefore(o) THEN Available(o) ELSE amount - CoveredBefore(o)
    BY <2>2, MinOfTwo
  <2>4. Min({Available(o), amount - CoveredBefore(o)}) \in 1 .. Available(o)
    BY <2>1, <2>2, <2>3
  <2> QED BY <2>1, <2>4 DEF o
<1>6. \A i, j \in 1 .. n : nth(i) = nth(j) => i = j
  <2> HIDE DEF nth
  <2>1. \A i \in 1 .. n : Rank(U, nth(i)) = i - 1
    BY <1>4
  <2> HIDE DEF U, n
  <2>2. \A i, j \in 1 .. n : i - 1 = j - 1 => i = j
    BY <1>2
  <2> QED BY <2>1, <2>2
<1> HIDE DEF U, nth, n, part
<1>7. \A o \in Orders : Available(o) \in Nat /\ OrderAmount[o] \in Nat /\ Available(o) <= OrderAmount[o]
  BY AvailableType
<1>8. \A i \in 1 .. n : item(i) \in Items /\ part(i) \in 1 .. OrderAmount[nth(i)]
  BY <1>5, <1>7 DEF Items, ItemStatuses
<1>9. seq \in Seq(Items) /\ Len(seq) = n
  BY <1>2, <1>8
<1>10. \A i \in 1 .. n :
         seq[i].order = nth(i) /\ seq[i].status = "pending" /\ seq[i].amount = part(i)
  OBVIOUS
<1> HIDE DEF seq
<1>11. WellFormed(seq)
  BY <1>3, <1>8, <1>9, <1>10 DEF WellFormed
<1>12. \A i \in 1 .. Len(seq) : seq[i].status = "pending" /\ seq[i].amount \in 1 .. Available(seq[i].order)
  BY <1>5, <1>9, <1>10
<1>13. \A i, j \in 1 .. Len(seq) : seq[i].order = seq[j].order => i = j
  BY <1>6, <1>9, <1>10
<1> QED BY <1>1, <1>11, <1>12, <1>13, Zenon

-----------------------------------------------------------------------------
(* The shape of the state: what the sessions hold fits the rows they hold  *)
(* it of.                                                                  *)

DeskShape(a) ==
  LET d == desk[a] IN
  /\ status[d.refund] # "absent" /\ d.base # "absent"
  /\ d.at = "rejecting" => d.base = "pending" /\ d.now = "rejected"
  /\ d.at # "rejecting" =>
       /\ d.now \in {d.base, "processing"}
       /\ Len(d.seen) = Len(items[d.refund])
       /\ d.next \in 1 .. Len(d.seen) + 1
       /\ d.at # "item" => d.next <= Len(d.seen)
       /\ d.at # "debited" => d.base # "expired"

ItemsShape ==
  /\ \A q \in Refunds : WellFormed(items[q]) /\ (status[q] = "absent" => items[q] = <<>>)
  /\ \A s \in Creators : (draft[s] # Idle /\ draft[s].at = "allocated") =>
       /\ WellFormed(draft[s].items)
       /\ \A i \in 1 .. Len(draft[s].items) : draft[s].items[i].status = "pending"

RefundShape ==
  TypeOK /\ ItemsShape /\ \A a \in Admins : desk[a] # Idle => DeskShape(a)

(* What every step but the creation of a request leaves of its items. *)
ItemsKept ==
  /\ items' \in [Refunds -> Seq(Items)]
  /\ \A q \in Refunds :
       /\ Len(items'[q]) = Len(items[q])
       /\ \A i \in 1 .. Len(items[q]) :
            items'[q][i].order = items[q][i].order /\ items'[q][i].amount = items[q][i].amount
StatusKept ==
  /\ status' \in [Refunds -> RefundStatuses]
  /\ \A q \in Refunds : status'[q] = "absent" <=> status[q] = "absent"
MoneyTyped ==
  balance' \in Nat /\ ledger' \in Seq(WL!Rows) /\ channel' \in [ItemIds -> RefundStates]

LEMMA DeskMoves ==
  ASSUME RefundShape, ItemsKept, StatusKept, MoneyTyped, UNCHANGED draft,
         NEW a \in Admins, NEW d \in Desks \cup {Idle}, desk' = [desk EXCEPT ![a] = d],
         d # Idle => DeskShape(a)'
  PROVE  RefundShape'
<1>1. desk \in [Admins -> Desks \cup {Idle}] /\ desk' \in [Admins -> Desks \cup {Idle}]
  BY DEF RefundShape, TypeOK
<1>2. TypeOK'
  BY <1>1 DEF RefundShape, TypeOK, ItemsKept, StatusKept, MoneyTyped
<1>3. \A q \in Refunds : WellFormed(items'[q])
  BY Z3T(30) DEF RefundShape, ItemsShape, WellFormed, ItemsKept
<1>4. \A q \in Refunds : status'[q] = "absent" => items'[q] = <<>>
  BY DEF RefundShape, ItemsShape, ItemsKept, StatusKept
<1>5. ItemsShape'
  BY <1>3, <1>4 DEF RefundShape, ItemsShape, WellFormed
<1>6. ASSUME NEW b \in Admins, desk'[b] # Idle PROVE DeskShape(b)'
  <2>1. CASE b = a
    BY <1>1, <1>6, <2>1
  <2>2. CASE b # a
    <3>1. desk'[b] = desk[b] /\ desk[b] \in Desks /\ DeskShape(b)
      BY <1>1, <1>6, <2>2 DEF RefundShape
    <3>2. desk[b].refund \in Refunds
      BY <3>1 DEF Desks
    <3> QED BY <3>1, <3>2 DEF DeskShape, ItemsKept, StatusKept
  <2> QED BY <2>1, <2>2
<1> QED BY <1>2, <1>5, <1>6 DEF RefundShape

LEMMA OthersMove ==
  ASSUME RefundShape, MoneyTyped, UNCHANGED <<status, items, draft, desk>>
  PROVE  RefundShape'
BY DEF RefundShape, TypeOK, MoneyTyped, ItemsShape, WellFormed, DeskShape

LEMMA CreateShape ==
  ASSUME RefundAssumption, FiniteUser, RefundShape, NEW s \in Creators, Create(s)
  PROVE  RefundShape'
<1>1. /\ TypeOK /\ ItemsShape /\ ItemsTyped
      /\ draft \in [Creators -> Drafts \cup {Idle}] /\ items \in [Refunds -> Seq(Items)]
      /\ status \in [Refunds -> RefundStatuses]
  BY DEF RefundShape, TypeOK, ItemsTyped
<1>2. ASSUME NEW d \in Drafts \cup {Idle}, draft' = [draft EXCEPT ![s] = d],
             (d # Idle /\ d.at = "allocated") =>
               WellFormed(d.items) /\ \A i \in 1 .. Len(d.items) : d.items[i].status = "pending",
             UNCHANGED <<status, items, walletVars, channel, desk>>
      PROVE  RefundShape'
  <2>1. draft' \in [Creators -> Drafts \cup {Idle}]
    BY <1>1, <1>2
  <2>2. TypeOK'
    BY <1>1, <1>2, <2>1 DEF TypeOK, walletVars
  <2>3. ItemsShape'
    BY <1>1, <1>2 DEF ItemsShape, WellFormed
  <2>4. \A a \in Admins : desk'[a] # Idle => DeskShape(a)'
    BY <1>2 DEF RefundShape, DeskShape
  <2> QED BY <2>2, <2>3, <2>4 DEF RefundShape
<1>3. CASE LoseDraft(s)
  BY <1>2, <1>3 DEF LoseDraft
<1>4. CASE Summarise(s)
  <2>1. Refundable \in Nat
    <3> DEFINE all == ItemsOfAll(Counted)
               left == Sum(OrderAmount, Orders) - AmountOf(all)
               low == Min({balance, left})
               m == Max({0, low})
    <3>1. AmountOf(all) \in Nat
      BY <1>1, CountedRequests, ItemsOfAllFinite, AmountType
    <3>2. Sum(OrderAmount, Orders) \in Nat
      BY SumNat DEF RefundAssumption, FiniteUser
    <3>3. balance \in Nat
      BY <1>1 DEF TypeOK
    <3> HIDE DEF all
    <3>4. low \in Int
      BY <3>1, <3>2, <3>3, MinOfTwo
    <3> HIDE DEF low
    <3>5. m \in Nat
      BY <3>4, MaxOfZero
    <3> HIDE DEF m
    <3>6. Floor(m) \in Int
      BY <3>5 DEF Floor, RefundAssumption
    <3>7. Refundable = Floor(m)
      BY DEF Refundable, m, low, left, all, ItemsOfAll
    <3>8. Refundable > 0
      BY <1>4 DEF Summarise
    <3> QED BY <3>6, <3>7, <3>8
  <2>2. [at |-> "summarised", amount |-> Refundable] \in Drafts
    BY <2>1 DEF Drafts
  <2> QED BY <1>2, <1>4, <2>2 DEF Summarise
<1>5. CASE Allocate(s)
  <2>1. draft[s].amount \in Nat
    BY <1>1, <1>5 DEF Allocate, Drafts
  <2>2. /\ WellFormed(Allocation(draft[s].amount))
        /\ \A i \in 1 .. Len(Allocation(draft[s].amount)) :
             Allocation(draft[s].amount)[i].status = "pending"
    BY <1>1, <2>1, AllocationFits
  <2>3. [at |-> "allocated", items |-> Allocation(draft[s].amount)] \in Drafts
    BY <2>2 DEF Drafts, WellFormed
  <2> QED BY <1>2, <1>5, <2>2, <2>3 DEF Allocate
<1>6. ASSUME NEW q \in Refunds, CommitRequest(s, q) PROVE RefundShape'
  <2>1. /\ WellFormed(draft[s].items)
        /\ \A i \in 1 .. Len(draft[s].items) : draft[s].items[i].status = "pending"
        /\ status[q] = "absent" /\ status' = [status EXCEPT ![q] = "pending"]
        /\ items' = [items EXCEPT ![q] = draft[s].items]
        /\ draft' = [draft EXCEPT ![s] = Idle] /\ UNCHANGED <<walletVars, channel, desk>>
    BY <1>1, <1>6 DEF ItemsShape, CommitRequest
  <2>2. /\ status' \in [Refunds -> RefundStatuses] /\ items' \in [Refunds -> Seq(Items)]
        /\ draft' \in [Creators -> Drafts \cup {Idle}]
    BY <1>1, <2>1 DEF WellFormed, RefundStatuses
  <2>3. TypeOK'
    BY <1>1, <2>1, <2>2 DEF TypeOK, walletVars
  <2>4. ItemsShape'
    BY <1>1, <2>1 DEF ItemsShape, WellFormed
  <2>5. ASSUME NEW a \in Admins, desk'[a] # Idle PROVE DeskShape(a)'
    <3>1. desk[a] \in Desks /\ DeskShape(a) /\ desk'[a] = desk[a]
      BY <1>1, <2>1, <2>5 DEF RefundShape, TypeOK
    <3>2. desk[a].refund \in Refunds /\ desk[a].refund # q
      BY <2>1, <3>1 DEF Desks, DeskShape
    <3>3. status'[desk[a].refund] = status[desk[a].refund] /\ items'[desk[a].refund] = items[desk[a].refund]
      BY <1>1, <2>1, <3>2
    <3> QED BY <3>1, <3>3 DEF DeskShape
  <2> QED BY <2>3, <2>4, <2>5 DEF RefundShape
<1> QED BY <1>3, <1>4, <1>5, <1>6 DEF Create

LEMMA ChannelShape ==
  ASSUME RefundAssumption, RefundShape,
         \/ \E x \in ItemIds : ChannelCompletes(x) \/ ChannelCloses(x)
         \/ \E m \in Postings : OtherPosting(m)
  PROVE  RefundShape'
<1>1. balance \in Nat /\ ledger \in Seq(WL!Rows) /\ channel \in [ItemIds -> RefundStates]
  BY DEF RefundShape, TypeOK
<1>2. ASSUME NEW x \in ItemIds, ChannelCompletes(x) \/ ChannelCloses(x) PROVE RefundShape'
  <2>1. channel' \in [ItemIds -> RefundStates] /\ UNCHANGED walletVars
    BY <1>1, <1>2 DEF ChannelCompletes, ChannelCloses, RefundStates
  <2> QED BY <1>1, <1>2, <2>1, OthersMove DEF ChannelCompletes, ChannelCloses, MoneyTyped, walletVars
<1>3. ASSUME NEW m \in Postings, OtherPosting(m) PROVE RefundShape'
  <2> DEFINE after == balance + PostingAmount[m]
             row == [type |-> IF PostingAmount[m] < 0 THEN "consume" ELSE "recharge",
                     ref |-> m, amount |-> PostingAmount[m], after |-> after]
  <2>1. PostingAmount[m] \in Int /\ PostingAmount[m] \in Amounts /\ after >= 0
    BY <1>3 DEF RefundAssumption, Amounts, OtherPosting
  <2>2. after \in Nat
    BY <1>1, <2>1
  <2>3. row \in WL!Rows
    BY <2>1, <2>2 DEF WL!Rows, WL!RowTypes
  <2>4. balance' = after /\ ledger' = Append(ledger, row) /\ UNCHANGED channel
    BY <1>3 DEF OtherPosting
  <2> HIDE DEF row, after
  <2>5. MoneyTyped
    BY <1>1, <2>2, <2>3, <2>4 DEF MoneyTyped
  <2> QED BY <1>3, <2>5, OthersMove DEF OtherPosting
<1> QED BY <1>2, <1>3

(* The desk of a session, and the item it is at. *)
LEMMA DeskType ==
  ASSUME RefundShape, NEW a \in Admins, desk[a].at # "idle"
  PROVE  /\ desk[a] \in Desks /\ DeskShape(a) /\ desk[a].refund \in Refunds
         /\ items[desk[a].refund] \in Seq(Items)
         /\ desk \in [Admins -> Desks \cup {Idle}]
BY DEF RefundShape, TypeOK, Desks, Idle

LEMMA HeldItem ==
  ASSUME RefundAssumption, FiniteUser, RefundShape, NEW a \in Admins,
         desk[a].at \notin {"idle", "rejecting"}, desk[a].next <= Len(desk[a].seen)
  PROVE  /\ desk[a].next \in 1 .. Len(items[desk[a].refund])
         /\ Item(a) \in Items /\ Item(a).amount \in Nat \ {0}
         /\ Item(a).amount \in 1 .. OrderAmount[Item(a).order]
         /\ Position(a) \in ItemIds /\ Position(a) \in ItemsOf(desk[a].refund)
         /\ ItemAt(Position(a)) = Item(a)
<1>1. /\ desk[a] \in Desks /\ DeskShape(a) /\ desk[a].refund \in Refunds
      /\ items[desk[a].refund] \in Seq(Items) /\ WellFormed(items[desk[a].refund])
  BY DeskType DEF RefundShape, ItemsShape
<1>2. /\ Len(desk[a].seen) = Len(items[desk[a].refund]) /\ desk[a].next \in 1 .. Len(desk[a].seen) + 1
      /\ Len(items[desk[a].refund]) \in Nat
  BY <1>1 DEF DeskShape
<1>3. desk[a].next \in 1 .. Len(items[desk[a].refund])
  BY <1>2
<1>4. Item(a) \in Items /\ Item(a).amount \in 1 .. OrderAmount[Item(a).order]
  <2> DEFINE seq == items[desk[a].refund]
             n == desk[a].next
  <2>1. seq \in Seq(Items) /\ WellFormed(seq) /\ n \in 1 .. Len(seq) /\ Item(a) = seq[n]
    BY <1>1, <1>3 DEF Item
  <2> HIDE DEF seq, n
  <2>2. seq[n] \in Items /\ seq[n].amount \in 1 .. OrderAmount[seq[n].order]
    BY <2>1 DEF WellFormed
  <2> QED BY <2>1, <2>2
<1>5. Cardinality(Orders) \in Nat
  BY FS_CardinalityType DEF FiniteUser
<1>6. desk[a].next \in 1 .. Cardinality(Orders)
  BY <1>1, <1>2, <1>3, <1>5 DEF WellFormed
<1>7. Position(a) \in ItemIds /\ Position(a) \in ItemsOf(desk[a].refund)
  BY <1>1, <1>3, <1>6 DEF Position, ItemIds, ItemsOf
<1>8. ItemAt(Position(a)) = Item(a)
  BY DEF ItemAt, Position, Item
<1>9. Item(a).order \in Orders /\ OrderAmount[Item(a).order] \in Nat
  BY <1>4 DEF Items, RefundAssumption
<1> QED BY <1>3, <1>4, <1>7, <1>8, <1>9

LEMMA ItemsAreIds ==
  ASSUME FiniteUser, RefundShape, NEW q \in Refunds, NEW x \in ItemsOf(q)
  PROVE  x \in ItemIds
<1>1. items[q] \in Seq(Items) /\ Len(items[q]) <= Cardinality(Orders) /\ Cardinality(Orders) \in Nat
  BY FS_CardinalityType DEF RefundShape, ItemsShape, WellFormed, FiniteUser
<1> QED BY <1>1 DEF ItemsOf, ItemIds

LEMMA FlushKeeps ==
  ASSUME RefundShape, NEW a \in Admins, desk[a].at # "idle",
         NEW now \in RefundStatuses \ {"absent"}, status' = Flushed(a, now)
  PROVE  StatusKept
<1>1. status \in [Refunds -> RefundStatuses]
  BY DEF RefundShape, TypeOK
<1> QED BY <1>1, DeskType DEF DeskShape, Flushed, StatusKept

LEMMA SameItems == ASSUME RefundShape, UNCHANGED items PROVE ItemsKept
BY DEF RefundShape, TypeOK, ItemsKept

LEMMA SameStatus == ASSUME RefundShape, UNCHANGED status PROVE StatusKept
BY DEF RefundShape, TypeOK, StatusKept

LEMMA SameMoney == ASSUME RefundShape, UNCHANGED <<balance, ledger, channel>> PROVE MoneyTyped
BY DEF RefundShape, TypeOK, MoneyTyped

(* The items of a desk after one of them is marked. *)
LEMMA MarkKeeps ==
  ASSUME RefundAssumption, FiniteUser, RefundShape, NEW a \in Admins,
         desk[a].at \notin {"idle", "rejecting"}, desk[a].next <= Len(desk[a].seen),
         NEW mark \in ItemStatuses,
         items' = [items EXCEPT ![desk[a].refund][desk[a].next].status = mark]
  PROVE  /\ ItemsKept
         /\ items'[desk[a].refund][desk[a].next].status = mark
         /\ \A q \in Refunds : \A i \in 1 .. Len(items[q]) :
              <<q, i>> # Position(a) => items'[q][i] = items[q][i]
<1> DEFINE r == desk[a].refund
           n == desk[a].next
           seq == items[r]
           marked == [seq[n] EXCEPT !.status = mark]
           new == [seq EXCEPT ![n] = marked]
<1>1. /\ r \in Refunds /\ seq \in Seq(Items) /\ n \in 1 .. Len(seq) /\ seq[n] \in Items
      /\ items \in [Refunds -> Seq(Items)]
  BY HeldItem, DeskType DEF Item, RefundShape, TypeOK
<1>2. items' = [items EXCEPT ![r] = new]
  OBVIOUS
<1> HIDE DEF r, n
<1>3. /\ marked \in Items /\ marked.status = mark
      /\ marked.amount = seq[n].amount /\ marked.order = seq[n].order
  BY <1>1 DEF Items
<1> HIDE DEF marked
<1>4. /\ new \in Seq(Items) /\ Len(new) = Len(seq)
      /\ new[n] = marked
      /\ \A i \in 1 .. Len(seq) : i # n => new[i] = seq[i]
  BY <1>1, <1>3
<1>5. new[n].status = mark /\ new[n].amount = seq[n].amount /\ new[n].order = seq[n].order
  BY <1>3, <1>4
<1> HIDE DEF new
<1>6. items'[r] = new /\ \A q \in Refunds \ {r} : items'[q] = items[q]
  BY <1>1, <1>2
<1>7. ItemsKept
  BY <1>1, <1>2, <1>4, <1>5, <1>6 DEF ItemsKept
<1>8. \A q \in Refunds : \A i \in 1 .. Len(items[q]) : <<q, i>> # <<r, n>> => items'[q][i] = items[q][i]
  BY <1>4, <1>6
<1> QED BY <1>5, <1>6, <1>7, <1>8 DEF r, n, Position

LEMMA ChannelWriteKeeps ==
  ASSUME RefundShape, NEW x, NEW state \in RefundStates,
         channel' = [channel EXCEPT ![x] = state], UNCHANGED walletVars
  PROVE  MoneyTyped
BY DEF RefundShape, TypeOK, MoneyTyped, walletVars

(* Where the results of a channel lead. *)
LEMMA ResultSteps ==
  ASSUME NEW method \in Methods, NEW state, NEW busy
  PROVE  /\ RefundQueried(method, state, busy) \subseteq {"paid", "slow", "unsent", "failing"}
         /\ Refunded(method, state, busy) \subseteq {"paid", "slow", "unclear"}
BY DEF Methods, RefundQueried, Refunded, AlipayRefundQueried, WechatRefundQueried,
   UnionpayRefundQueried, AlipayRefunded, WechatRefunded, UnionpayRefunded

(* A session goes on to another point of the same item. *)
LEMMA PointShape ==
  ASSUME RefundShape, MoneyTyped, NEW a \in Admins,
         desk[a].at \notin {"idle", "rejecting", "debited"}, desk[a].next <= Len(desk[a].seen),
         NEW point \in {"unsent", "unclear", "slow", "paid", "failing"},
         desk' = [desk EXCEPT ![a].at = point], UNCHANGED <<status, items, draft>>
  PROVE  RefundShape'
<1> DEFINE d == [desk[a] EXCEPT !.at = point]
<1>1. desk[a] \in Desks /\ DeskShape(a) /\ desk \in [Admins -> Desks \cup {Idle}]
  BY DeskType
<1>2. d \in Desks
  BY <1>1 DEF Desks, ApprovalSteps
<1>3. desk' = [desk EXCEPT ![a] = d] /\ desk'[a] = d
  BY <1>1
<1>4. /\ d.at = point /\ d.refund = desk[a].refund /\ d.base = desk[a].base /\ d.now = desk[a].now
      /\ d.seen = desk[a].seen /\ d.next = desk[a].next
  BY <1>1 DEF Desks
<1> HIDE DEF d
<1>5. DeskShape(a)'
  BY <1>1, <1>3, <1>4 DEF DeskShape
<1> QED BY <1>2, <1>3, <1>5, DeskMoves, SameItems, SameStatus

LEMMA LoadShape ==
  ASSUME RefundAssumption, RefundShape, NEW a \in Admins, NEW q \in Refunds,
         LoadApproval(a, q) \/ LoadRejection(a, q)
  PROVE  RefundShape'
<1>1. /\ status \in [Refunds -> RefundStatuses] /\ items[q] \in Seq(Items) /\ balance \in Nat
      /\ desk \in [Admins -> Desks \cup {Idle}]
  BY DEF RefundShape, TypeOK
<1>2. UNCHANGED <<status, items, walletVars, channel, draft>>
  BY DEF LoadApproval, LoadRejection
<1>3. ItemsKept /\ StatusKept /\ MoneyTyped
  BY <1>2, SameItems, SameStatus, SameMoney DEF walletVars
<1>4. CASE LoadApproval(a, q)
  <2> DEFINE seen == [i \in DOMAIN items[q] |-> items[q][i].status]
             d == [at |-> "item", refund |-> q, base |-> status[q], now |-> status[q],
                   seen |-> seen, purse |-> balance, next |-> 1, total |-> 0]
  <2>1. /\ seen \in Seq(ItemStatuses \cup {"expired"}) /\ Len(seen) = Len(items[q])
        /\ Len(items[q]) \in Nat
    <3> DEFINE seq == items[q]
    <3>1. seq \in Seq(Items) /\ DOMAIN seq = 1 .. Len(seq) /\ Len(seq) \in Nat
      BY <1>1
    <3> HIDE DEF seq
    <3>2. \A i \in 1 .. Len(seq) : seq[i] \in Items
      BY <3>1
    <3>3. \A i \in 1 .. Len(seq) : seq[i].status \in ItemStatuses
      BY <3>2 DEF Items
    <3>4. seen = [i \in 1 .. Len(seq) |-> seq[i].status]
      BY <3>1 DEF seq
    <3> QED BY <3>1, <3>3, <3>4 DEF seq
  <2> HIDE DEF seen
  <2>2. status[q] \in {"pending", "processing"} /\ status[q] \in RefundStatuses
    BY <1>1, <1>4 DEF LoadApproval, Approvable
  <2>3. d \in Desks
    BY <1>1, <2>1, <2>2 DEF Desks, ApprovalSteps
  <2>4. desk' = [desk EXCEPT ![a] = d] /\ desk'[a] = d
    BY <1>1, <1>4 DEF LoadApproval, seen
  <2>5. DeskShape(a)'
    BY <1>2, <2>1, <2>2, <2>4 DEF DeskShape
  <2> HIDE DEF d
  <2> QED BY <1>2, <1>3, <2>3, <2>4, <2>5, DeskMoves
<1>5. CASE LoadRejection(a, q)
  <2> DEFINE d == [at |-> "rejecting", refund |-> q, base |-> "pending", now |-> "rejected",
                   seen |-> <<>>, purse |-> 0, next |-> 1, total |-> 0]
  <2>1. d \in Desks
    BY DEF Desks, ApprovalSteps, RefundStatuses
  <2>2. desk' = [desk EXCEPT ![a] = d] /\ desk'[a] = d /\ status[q] = "pending"
    BY <1>1, <1>5 DEF LoadRejection
  <2>3. DeskShape(a)'
    BY <1>2, <2>2 DEF DeskShape
  <2> HIDE DEF d
  <2> QED BY <1>2, <1>3, <2>1, <2>2, <2>3, DeskMoves
<1> QED BY <1>4, <1>5

LEMMA AskShape ==
  ASSUME RefundAssumption, FiniteUser, RefundShape, NEW a \in Admins,
         AskChannel(a) \/ SendRefund(a) \/ AskAgain(a)
  PROVE  RefundShape'
<1>1. /\ desk[a].at \notin {"idle", "rejecting", "debited"} /\ desk[a].next <= Len(desk[a].seen)
      /\ UNCHANGED <<status, items, walletVars, draft>>
  BY DeskType DEF AskChannel, SendRefund, AskAgain, HasItem, At, DeskShape
<1>2. Method(a) \in Methods
  BY <1>1, HeldItem DEF Method, Items, RefundAssumption
<1>3. CASE AskChannel(a) \/ AskAgain(a)
  <2>1. QueryResults(a) \subseteq {"paid", "slow", "unsent", "failing"}
    BY <1>2, ResultSteps DEF QueryResults
  <2>2. \E point \in {"unsent", "unclear", "slow", "paid", "failing"} :
          desk' = [desk EXCEPT ![a].at = point]
    BY <1>3, <2>1 DEF AskChannel, AskAgain
  <2>3. MoneyTyped
    BY <1>1, <1>3, SameMoney DEF AskChannel, AskAgain, walletVars
  <2> QED BY <1>1, <2>2, <2>3, PointShape
<1>4. CASE SendRefund(a)
  <2>1. PICK state \in AfterRequest(a) :
          /\ channel' = [channel EXCEPT ![Position(a)] = state]
          /\ \E result \in Refunded(Method(a), state, Busy(a)) : desk' = [desk EXCEPT ![a].at = result]
    BY <1>4 DEF SendRefund
  <2>2. state \in RefundStates
    BY <1>1, HeldItem DEF AfterRequest, RefundStates, RefundShape, TypeOK
  <2>3. MoneyTyped
    BY <1>1, <2>1, <2>2, ChannelWriteKeeps
  <2>4. \E point \in {"unsent", "unclear", "slow", "paid", "failing"} :
          desk' = [desk EXCEPT ![a].at = point]
    BY <1>2, <2>1, ResultSteps
  <2> QED BY <1>1, <2>3, <2>4, PointShape
<1> QED BY <1>3, <1>4

LEMMA SkipShape ==
  ASSUME RefundAssumption, FiniteUser, RefundShape, NEW a \in Admins, SkipItem(a)
  PROVE  RefundShape'
<1>1. /\ desk[a].at = "item" /\ desk[a].next <= Len(desk[a].seen)
      /\ UNCHANGED <<status, items, walletVars, channel, draft>>
  BY DEF SkipItem, HasItem, At
<1>2. desk[a] \in Desks /\ DeskShape(a) /\ desk \in [Admins -> Desks \cup {Idle}]
  BY <1>1, DeskType
<1>3. Item(a).amount \in Nat
  BY <1>1, HeldItem
<1>4. ItemsKept /\ StatusKept /\ MoneyTyped
  BY <1>1, SameItems, SameStatus, SameMoney DEF walletVars
<1> DEFINE amount == Item(a).amount
           counted == [desk[a] EXCEPT !.next = @ + 1, !.total = @ + amount]
           passed == [desk[a] EXCEPT !.next = @ + 1, !.now = "processing"]
<1>5. ASSUME NEW d, d = counted \/ d = passed
      PROVE  /\ d \in Desks /\ d.at = "item" /\ d.refund = desk[a].refund /\ d.base = desk[a].base
             /\ d.now \in {desk[a].now, "processing"}
             /\ d.seen = desk[a].seen /\ d.next = desk[a].next + 1
  <2> HIDE DEF amount
  <2>1. amount \in Nat
    BY <1>3 DEF amount
  <2>2. desk[a].next + 1 \in Nat /\ desk[a].total + amount \in Nat
    BY <1>2, <2>1 DEF Desks
  <2> QED BY <1>1, <1>2, <1>5, <2>2, ZenonT(30) DEF Desks, RefundStatuses
<1>6. desk' = [desk EXCEPT ![a] = counted] \/ desk' = [desk EXCEPT ![a] = passed]
  BY ZenonT(30) DEF SkipItem
<1> HIDE DEF counted, passed, amount
<1>7. PICK d : (d = counted \/ d = passed) /\ desk' = [desk EXCEPT ![a] = d]
  BY <1>6
<1>8. desk'[a] = d
  BY <1>2, <1>7
<1>9. DeskShape(a)'
  <2>1. /\ d.refund = desk[a].refund /\ d.base = desk[a].base /\ d.at = "item"
        /\ d.now \in {desk[a].now, "processing"}
        /\ d.seen = desk[a].seen /\ d.next = desk[a].next + 1
    BY <1>5, <1>7
  <2>2. desk[a].next \in Nat /\ Len(desk[a].seen) \in Nat
    BY <1>2 DEF Desks
  <2> QED BY <1>1, <1>2, <1>8, <2>1, <2>2 DEF DeskShape
<1> QED BY <1>1, <1>4, <1>5, <1>7, <1>9, DeskMoves

LEMMA MarkShape ==
  ASSUME RefundAssumption, FiniteUser, RefundShape, NEW a \in Admins,
         MarkSlow(a) \/ RecordItem(a)
  PROVE  RefundShape'
<1> DEFINE r == desk[a].refund
           n == desk[a].next
           slow == [desk[a] EXCEPT !.at = "item", !.next = @ + 1,
                                   !.base = "processing", !.now = "processing"]
           recorded == [desk[a] EXCEPT !.at = "item", !.next = @ + 1, !.total = @ + Item(a).amount,
                                       !.base = status'[r], !.now = status'[r]]
<1>1. /\ desk[a].at \in {"slow", "debited"} /\ desk[a].next <= Len(desk[a].seen)
      /\ \E mark \in ItemStatuses : items' = [items EXCEPT ![r][n].status = mark]
      /\ status' = Flushed(a, "processing")
      /\ \E d : (d = slow \/ d = recorded) /\ desk' = [desk EXCEPT ![a] = d]
      /\ UNCHANGED <<walletVars, channel, draft>>
  <2>1. /\ desk[a].at \in {"slow", "debited"}
        /\ status' = Flushed(a, "processing") /\ UNCHANGED <<walletVars, channel, draft>>
    BY DEF MarkSlow, RecordItem, At
  <2>2. desk[a].next <= Len(desk[a].seen)
    BY <2>1, DeskType DEF DeskShape
  <2>3. \E mark \in ItemStatuses : items' = [items EXCEPT ![r][n].status = mark]
    <3>1. "processing" \in ItemStatuses /\ "refunded" \in ItemStatuses
      BY DEF ItemStatuses
    <3>2. \/ items' = [items EXCEPT ![r][n].status = "processing"]
          \/ items' = [items EXCEPT ![r][n].status = "refunded"]
      BY Zenon DEF MarkSlow, RecordItem
    <3> QED BY <3>1, <3>2, Zenon
  <2>4. desk' = [desk EXCEPT ![a] = slow] \/ desk' = [desk EXCEPT ![a] = recorded]
    <3>1. CASE MarkSlow(a)
      BY <3>1, ZenonT(30) DEF MarkSlow
    <3>2. CASE RecordItem(a)
      BY <3>2, ZenonT(30) DEF RecordItem
    <3> QED BY <3>1, <3>2
  <2> QED BY <2>1, <2>2, <2>3, <2>4, Zenon
<1>2. desk[a] \in Desks /\ DeskShape(a) /\ desk \in [Admins -> Desks \cup {Idle}] /\ r \in Refunds
  BY <1>1, DeskType
<1>3. ItemsKept
  BY <1>1, MarkKeeps
<1>4. StatusKept
  <2>1. "processing" \in RefundStatuses \ {"absent"}
    BY DEF RefundStatuses
  <2> QED BY <1>1, <2>1, FlushKeeps
<1>5. MoneyTyped
  BY <1>1, SameMoney DEF walletVars
<1>6. /\ status'[r] \in RefundStatuses \ {"absent", "expired"}
      /\ Item(a).amount \in Nat
      /\ Len(items'[r]) = Len(items[r])
  BY <1>1, <1>2, <1>3, <1>4, HeldItem DEF StatusKept, DeskShape, RefundStatuses, ItemsKept
<1> DEFINE amount == Item(a).amount
           after == status'[r]
<1>7. ASSUME NEW d, d = slow \/ d = recorded
      PROVE  /\ d \in Desks /\ d.at = "item" /\ d.refund = r
             /\ d.base \in RefundStatuses \ {"absent", "expired"} /\ d.now = d.base
             /\ d.seen = desk[a].seen /\ d.next = desk[a].next + 1
  <2>1. amount \in Nat /\ after \in RefundStatuses \ {"absent", "expired"}
    BY <1>6
  <2> HIDE DEF amount, after
  <2>2. desk[a].next + 1 \in Nat /\ desk[a].total + amount \in Nat
    BY <1>2, <2>1 DEF Desks
  <2>3. "processing" \in RefundStatuses \ {"absent", "expired"} /\ "item" \in ApprovalSteps
    BY DEF RefundStatuses, ApprovalSteps
  <2>4. CASE d = slow
    BY <1>2, <2>2, <2>3, <2>4 DEF Desks
  <2>5. CASE d = recorded
    <3>1. d = [desk[a] EXCEPT !.at = "item", !.next = @ + 1, !.total = @ + amount,
                              !.base = after, !.now = after]
      BY <2>5 DEF amount, after
    <3>2. d = [at |-> "item", refund |-> r, base |-> after, now |-> after, seen |-> desk[a].seen,
               purse |-> desk[a].purse, next |-> desk[a].next + 1, total |-> desk[a].total + amount]
      BY <1>2, <3>1 DEF Desks
    <3> QED BY <1>2, <2>1, <2>2, <2>3, <3>2 DEF Desks
  <2> QED BY <1>7, <2>4, <2>5
<1> HIDE DEF slow, recorded, amount, after
<1>8. PICK d : (d = slow \/ d = recorded) /\ desk' = [desk EXCEPT ![a] = d]
  BY <1>1
<1>9. desk'[a] = d
  BY <1>2, <1>8
<1>10. DeskShape(a)'
  <2>1. /\ d.at = "item" /\ d.refund = r
        /\ d.base \in RefundStatuses \ {"absent", "expired"} /\ d.now = d.base
        /\ d.seen = desk[a].seen /\ d.next = desk[a].next + 1
    BY <1>7, <1>8
  <2>2. desk[a].next \in Nat /\ Len(desk[a].seen) \in Nat
    BY <1>2 DEF Desks
  <2> QED BY <1>1, <1>2, <1>6, <1>9, <2>1, <2>2, Z3T(30) DEF DeskShape
<1> QED BY <1>1, <1>3, <1>4, <1>5, <1>7, <1>8, <1>10, DeskMoves

LEMMA DebitShape ==
  ASSUME RefundAssumption, FiniteUser, RefundShape, NEW a \in Admins, Debit(a)
  PROVE  RefundShape'
<1> DEFINE amount == Item(a).amount
           left == desk[a].purse - amount
           row == [type |-> "refund", ref |-> Position(a), amount |-> -amount, after |-> left]
           debited == [desk[a] EXCEPT !.at = "debited", !.purse = left, !.base = desk[a].now]
           blank == [i \in DOMAIN desk[a].seen |-> "expired"]
           repeated == [desk[a] EXCEPT !.at = "debited", !.purse = balance,
                                       !.base = "expired", !.now = "expired", !.seen = blank]
<1>1. desk[a].at = "paid" /\ desk[a].next <= Len(desk[a].seen) /\ UNCHANGED <<items, channel, draft>>
  BY DeskType DEF Debit, At, DeskShape
<1>2. /\ desk[a] \in Desks /\ DeskShape(a) /\ desk \in [Admins -> Desks \cup {Idle}]
      /\ desk[a].purse \in Nat /\ desk[a].seen \in Seq(ItemStatuses \cup {"expired"})
  BY <1>1, DeskType DEF Desks
<1>3. /\ amount \in Nat /\ Position(a) \in ItemIds /\ Item(a).order \in Orders
      /\ OrderAmount[Item(a).order] \in Nat /\ amount \in 1 .. OrderAmount[Item(a).order]
  BY <1>1, HeldItem DEF Items, RefundAssumption
<1>4. ItemsKept
  BY <1>1, SameItems
<1>5. CASE ~Covered(left)
  <2>1. desk' = [desk EXCEPT ![a].at = "failing"] /\ UNCHANGED <<status, walletVars>>
    BY <1>5 DEF Debit
  <2>2. MoneyTyped
    BY <1>1, <2>1, SameMoney DEF walletVars
  <2> QED BY <1>1, <2>1, <2>2, PointShape
<1>6. CASE Covered(left) /\ NewDebit(a)
  <2>1. /\ balance' = left /\ ledger' = Append(ledger, row)
        /\ status' = Flushed(a, desk[a].now) /\ desk' = [desk EXCEPT ![a] = debited]
    BY <1>6, ZenonT(30) DEF Debit
  <2>2. left \in Nat
    BY <1>2, <1>3, <1>6 DEF Covered
  <2>3. row \in WL!Rows
    <3>1. -amount \in Amounts
      BY <1>3 DEF Amounts
    <3> HIDE DEF amount, left
    <3> QED BY <1>3, <2>2, <3>1 DEF WL!Rows, WL!RowTypes
  <2> HIDE DEF row
  <2>4. MoneyTyped
    BY <1>1, <2>1, <2>2, <2>3 DEF MoneyTyped, RefundShape, TypeOK
  <2>5. StatusKept
    <3>1. desk[a].now = desk[a].base \/ desk[a].now = "processing"
      BY <1>1, <1>2 DEF DeskShape
    <3>2. CASE desk[a].now = desk[a].base
      BY <2>1, <3>2, SameStatus DEF Flushed
    <3>3. CASE desk[a].now = "processing"
      <4>1. "processing" \in RefundStatuses \ {"absent"}
        BY DEF RefundStatuses
      <4> QED BY <1>1, <2>1, <3>3, <4>1, FlushKeeps
    <3> QED BY <3>1, <3>2, <3>3
  <2> HIDE DEF left
  <2>6. /\ debited \in Desks /\ debited.at = "debited" /\ debited.refund = desk[a].refund
        /\ debited.base = desk[a].now /\ debited.now = desk[a].now
        /\ debited.seen = desk[a].seen /\ debited.next = desk[a].next
    BY <1>2, <2>2 DEF Desks, ApprovalSteps
  <2> HIDE DEF debited
  <2>7. desk'[a] = debited
    BY <1>2, <2>1
  <2>8. DeskShape(a)'
    <3>1. /\ status'[desk[a].refund] # "absent" /\ items' = items /\ desk[a].now # "absent"
      BY <1>1, <1>2, <2>5 DEF StatusKept, DeskShape, Desks
    <3> QED BY <1>1, <1>2, <2>6, <2>7, <3>1 DEF DeskShape
  <2> QED BY <1>1, <1>4, <2>1, <2>4, <2>5, <2>6, <2>8, DeskMoves
<1>7. CASE Covered(left) /\ ~NewDebit(a)
  <2>1. desk' = [desk EXCEPT ![a] = repeated] /\ UNCHANGED <<status, walletVars>>
    BY <1>7, ZenonT(30) DEF Debit
  <2>2. blank \in Seq(ItemStatuses \cup {"expired"}) /\ Len(blank) = Len(desk[a].seen) /\ balance \in Nat
    BY <1>2 DEF RefundShape, TypeOK
  <2> HIDE DEF blank
  <2>3. /\ repeated \in Desks /\ repeated.at = "debited" /\ repeated.refund = desk[a].refund
        /\ repeated.base = "expired" /\ repeated.now = "expired"
        /\ repeated.seen = blank /\ repeated.next = desk[a].next
    BY <1>2, <2>2 DEF Desks, ApprovalSteps
  <2> HIDE DEF repeated
  <2>4. desk'[a] = repeated
    BY <1>2, <2>1
  <2>5. DeskShape(a)'
    BY <1>1, <1>2, <2>1, <2>2, <2>3, <2>4 DEF DeskShape
  <2>6. StatusKept /\ MoneyTyped
    BY <1>1, <2>1, SameStatus, SameMoney DEF walletVars
  <2> QED BY <1>1, <1>4, <2>1, <2>3, <2>5, <2>6, DeskMoves
<1> QED BY <1>5, <1>6, <1>7

LEMMA ConcludeShape ==
  ASSUME RefundAssumption, RefundShape, NEW a \in Admins,
         FailApproval(a) \/ FinishApproval(a) \/ Reject(a) \/ LoseDesk(a)
  PROVE  RefundShape'
<1>1. UNCHANGED <<items, walletVars, channel, draft>> /\ desk' = [desk EXCEPT ![a] = Idle]
  BY DEF FailApproval, FinishApproval, Reject, LoseDesk, Conclude
<1>2. desk[a].at # "idle"
  BY DEF FailApproval, FinishApproval, Reject, LoseDesk, At, Idle, RefundShape, TypeOK, Desks,
     ApprovalSteps
<1>3. \/ UNCHANGED status
      \/ \E now \in RefundStatuses \ {"absent"} : status' = Flushed(a, now)
  BY DEF FailApproval, FinishApproval, Reject, LoseDesk, Conclude, RefundStatuses
<1>4. StatusKept
  BY <1>2, <1>3, FlushKeeps, SameStatus
<1>5. ItemsKept /\ MoneyTyped
  BY <1>1, SameItems, SameMoney DEF walletVars
<1> QED BY <1>1, <1>4, <1>5, DeskMoves

LEMMA ShapeInit == ASSUME RefundAssumption, FiniteUser, Init PROVE RefundShape
<1>1. TypeOK
  BY DEF RefundAssumption, Init, TypeOK, RefundStatuses, RefundStates
<1>2. ItemsShape
  <2>1. WellFormed(<<>>)
    BY FS_CardinalityType DEF WellFormed, FiniteUser
  <2> QED BY <2>1 DEF ItemsShape, Init
<1> QED BY <1>1, <1>2 DEF RefundShape, Init

LEMMA ShapeStep ==
  ASSUME RefundAssumption, FiniteUser, RefundShape, Next
  PROVE  RefundShape'
<1>1. ASSUME NEW a \in Admins, ApprovalStep(a) PROVE RefundShape'
  BY <1>1, SkipShape, AskShape, MarkShape, DebitShape, ConcludeShape DEF ApprovalStep
<1> QED BY <1>1, CreateShape, ChannelShape, LoadShape, ConcludeShape DEF Next

LEMMA ShapeHolds == ASSUME FiniteUser PROVE Spec => []RefundShape
<1>1. Init => RefundShape
  BY ShapeInit, RefundAssumption
<1>2. RefundShape /\ [Next]_vars => RefundShape'
  <2>1. CASE UNCHANGED vars
    BY <2>1 DEF vars, walletVars, RefundShape, TypeOK, ItemsShape, WellFormed, DeskShape
  <2> QED BY <2>1, ShapeStep, RefundAssumption
<1> QED BY <1>1, <1>2, PTL DEF Spec

(* What the sessions, the rows and the channel hold is of its type; what a *)
(* session holds of a request fits the request.                            *)
THEOREM TypeHolds == ASSUME FiniteUser PROVE Spec => []TypeOK
<1>1. RefundShape => TypeOK
  BY DEF RefundShape
<1> QED BY <1>1, ShapeHolds, PTL

-----------------------------------------------------------------------------
(* Items are debited once.  A session that holds a payment, or a debit, of *)
(* an item is at a position of the request, and rows, channel and items    *)
(* only ever say more of that position.                                    *)

Debited(x) == \E j \in DOMAIN ledger : ledger[j].type = "refund" /\ ledger[j].ref = x
Settled(x) == channel[x] \in {"done", "closed"}

RefundRow(row) ==
  \E q \in Refunds : row.ref \in ItemsOf(q) /\ row.amount = -ItemAt(row.ref).amount
RowsInv ==
  /\ \A j \in DOMAIN ledger : ledger[j].type = "refund" => RefundRow(ledger[j])
  /\ \A j, k \in DOMAIN ledger :
       /\ ledger[j].type = "refund" /\ ledger[k].type = "refund"
       /\ ledger[j].ref = ledger[k].ref
       => j = k

ChannelInv ==
  \A x \in ItemIds :
    /\ channel[x] # "none" => x \in ItemsOf(x[1])
    /\ channel[x] = "closed" => ItemAt(x).order \in Closes
    /\ Debited(x) => Settled(x)

MarksInv ==
  \A q \in Refunds : \A x \in ItemsOf(q) :
    (ItemAt(x).status = "refunded" \/ status[q] = "refunded") => Debited(x)

PaidDesk(a) ==
  LET d == desk[a] IN
  /\ d.at \in {"paid", "debited"} => Settled(Position(a))
  /\ d.at = "debited" => Debited(Position(a))
  /\ \A i \in DOMAIN d.seen : d.seen[i] = "refunded" => Debited(<<d.refund, i>>)
  /\ \E T \in SUBSET ItemsOf(d.refund) :
       d.total = AmountOf(T) /\ \A x \in T : x[2] < d.next /\ Debited(x)

DebitInv ==
  RowsInv /\ ChannelInv /\ MarksInv /\ \A a \in Admins : desk[a] # Idle => PaidDesk(a)

(* No step takes an item back, or what it is of. *)
ItemsGrow ==
  \A q \in Refunds : \A x \in ItemsOf(q) :
    x \in ItemsOf(q)' /\ ItemAt(x)'.order = ItemAt(x).order /\ ItemAt(x)'.amount = ItemAt(x).amount
DebitsKept == \A x : Debited(x) => Debited(x)'
SettledKept == \A x \in ItemIds : Settled(x) => Settled(x)'

LEMMA KeptGrow ==
  ASSUME RefundShape, ItemsKept
  PROVE  ItemsGrow /\ \A q \in Refunds : ItemsOf(q)' = ItemsOf(q)
<1>1. items \in [Refunds -> Seq(Items)] /\ items' \in [Refunds -> Seq(Items)]
  BY DEF RefundShape, TypeOK, ItemsKept
<1>2. \A q \in Refunds : DOMAIN items[q] = 1 .. Len(items[q]) /\ DOMAIN items'[q] = 1 .. Len(items[q])
  BY <1>1 DEF ItemsKept
<1>3. \A q \in Refunds : ItemsOf(q)' = ItemsOf(q)
  BY <1>2 DEF ItemsOf
<1>4. \A q \in Refunds : \A i \in 1 .. Len(items[q]) :
        ItemAt(<<q, i>>)'.order = ItemAt(<<q, i>>).order /\ ItemAt(<<q, i>>)'.amount = ItemAt(<<q, i>>).amount
  BY DEF ItemsKept, ItemAt
<1>5. \A q \in Refunds : \A x \in ItemsOf(q) : \E i \in 1 .. Len(items[q]) : x = <<q, i>>
  BY <1>2 DEF ItemsOf
<1>6. ItemsGrow
  BY <1>3, <1>4, <1>5 DEF ItemsGrow
<1> QED BY <1>3, <1>6

LEMMA AmountKept ==
  ASSUME ItemsGrow, NEW q \in Refunds, NEW T \in SUBSET ItemsOf(q)
  PROVE  AmountOf(T)' = AmountOf(T)
<1>1. \A x \in T : ItemAt(x)'.amount = ItemAt(x).amount
  BY DEF ItemsGrow
<1>2. [x \in T |-> ItemAt(x)'.amount] = [x \in T |-> ItemAt(x).amount]
  BY <1>1
<1> QED BY <1>2 DEF AmountOf

LEMMA LedgerGrows ==
  ASSUME RefundShape, UNCHANGED ledger \/ \E row : ledger' = Append(ledger, row)
  PROVE  DebitsKept
<1>1. ledger \in Seq(WL!Rows)
  BY DEF RefundShape, TypeOK
<1>2. ASSUME NEW j \in DOMAIN ledger PROVE j \in DOMAIN ledger' /\ ledger'[j] = ledger[j]
  BY <1>1
<1> QED BY <1>2 DEF DebitsKept, Debited

LEMMA PaidMoves ==
  ASSUME RefundShape, ItemsGrow, DebitsKept, NEW a \in Admins, NEW d \in Desks, desk'[a] = d,
         d.at \in {"paid", "debited"} => channel'[<<d.refund, d.next>>] \in {"done", "closed"},
         d.at = "debited" => Debited(<<d.refund, d.next>>)',
         \A i \in DOMAIN d.seen : d.seen[i] = "refunded" => Debited(<<d.refund, i>>),
         \E T \in SUBSET ItemsOf(d.refund) :
           d.total = AmountOf(T) /\ \A x \in T : x[2] < d.next /\ Debited(x)
  PROVE  PaidDesk(a)'
<1>1. d.refund \in Refunds
  BY DEF Desks
<1>2. PICK T \in SUBSET ItemsOf(d.refund) :
        d.total = AmountOf(T) /\ \A x \in T : x[2] < d.next /\ Debited(x)
  OBVIOUS
<1>3. T \in SUBSET ItemsOf(d.refund)' /\ AmountOf(T)' = AmountOf(T)
  BY <1>1, <1>2, AmountKept DEF ItemsGrow
<1>4. \A x \in T : x[2] < d.next /\ Debited(x)'
  BY <1>2 DEF DebitsKept
<1>5. \E U \in SUBSET ItemsOf(d.refund)' :
         d.total = AmountOf(U)' /\ \A x \in U : x[2] < d.next /\ Debited(x)'
  BY <1>2, <1>3, <1>4
<1>6. \A i \in DOMAIN d.seen : d.seen[i] = "refunded" => Debited(<<d.refund, i>>)'
  BY DEF DebitsKept
<1>7. Position(a)' = <<d.refund, d.next>>
  BY DEF Position
<1> HIDE DEF Debited, AmountOf, ItemsOf
<1> QED BY <1>5, <1>6, <1>7 DEF PaidDesk, Settled

LEMMA PaidKept ==
  ASSUME RefundAssumption, FiniteUser, RefundShape, DebitInv, ItemsGrow, DebitsKept, SettledKept,
         NEW b \in Admins, desk[b] # Idle, desk'[b] = desk[b]
  PROVE  PaidDesk(b)'
<1>1. desk[b] \in Desks /\ DeskShape(b) /\ PaidDesk(b)
  BY DEF RefundShape, TypeOK, DebitInv
<1>2. ASSUME desk[b].at \in {"paid", "debited"}
      PROVE  channel'[Position(b)] \in {"done", "closed"}
  <2>1. Position(b) \in ItemIds
    BY <1>1, <1>2, HeldItem DEF DeskShape
  <2> QED BY <1>1, <1>2, <2>1 DEF PaidDesk, Settled, SettledKept
<1>3. /\ \A i \in DOMAIN desk[b].seen : desk[b].seen[i] = "refunded" => Debited(<<desk[b].refund, i>>)
      /\ \E T \in SUBSET ItemsOf(desk[b].refund) :
           desk[b].total = AmountOf(T) /\ \A x \in T : x[2] < desk[b].next /\ Debited(x)
  BY <1>1, Zenon DEF PaidDesk
<1>4. PICK d \in Desks : d = desk[b]
  BY <1>1
<1>5. PICK x : x = <<d.refund, d.next>>
  OBVIOUS
<1>6. Position(b) = x
  BY <1>4, <1>5 DEF Position
<1>7. d.at \in {"paid", "debited"} => channel'[x] \in {"done", "closed"}
  BY <1>2, <1>4, <1>6
<1>8. d.at = "debited" => Debited(x)'
  <2>1. d.at = "debited" => Debited(x)
    BY <1>1, <1>4, <1>6 DEF PaidDesk
  <2> QED BY <2>1 DEF DebitsKept
<1>9. desk'[b] = d
  BY <1>4
<1> HIDE DEF Debited, AmountOf, ItemsOf
<1> QED BY <1>3, <1>4, <1>5, <1>7, <1>8, <1>9, PaidMoves

LEMMA RowsSame == ASSUME RowsInv, ItemsGrow, UNCHANGED ledger PROVE RowsInv'
<1>1. ASSUME NEW j \in DOMAIN ledger, RefundRow(ledger[j]) PROVE RefundRow(ledger[j])'
  <2>1. PICK q \in Refunds : ledger[j].ref \in ItemsOf(q) /\ ledger[j].amount = -ItemAt(ledger[j].ref).amount
    BY <1>1 DEF RefundRow
  <2>2. PICK x : x = ledger[j].ref
    OBVIOUS
  <2>3. x \in ItemsOf(q)' /\ ItemAt(x)'.amount = ItemAt(x).amount
    BY <2>1, <2>2 DEF ItemsGrow
  <2> QED BY <2>1, <2>2, <2>3 DEF RefundRow
<1> QED BY <1>1 DEF RowsInv

LEMMA ChannelSame ==
  ASSUME RefundShape, ChannelInv, ItemsGrow, UNCHANGED channel,
         \A x \in ItemIds : Debited(x)' => Debited(x) \/ Settled(x)
  PROVE  ChannelInv'
<1> SUFFICES ASSUME NEW x \in ItemIds
             PROVE  /\ channel[x] # "none" => x \in ItemsOf(x[1])'
                    /\ channel[x] = "closed" => ItemAt(x)'.order \in Closes
                    /\ Debited(x)' => Settled(x)
  BY DEF ChannelInv, Settled
<1>1. x[1] \in Refunds
  BY DEF ItemIds
<1>2. channel[x] # "none" =>
        x \in ItemsOf(x[1]) /\ x \in ItemsOf(x[1])' /\ ItemAt(x)'.order = ItemAt(x).order
  BY <1>1 DEF ChannelInv, ItemsGrow
<1>3. channel[x] = "closed" => channel[x] # "none"
  OBVIOUS
<1> QED BY <1>2, <1>3 DEF ChannelInv

LEMMA MarksSame ==
  ASSUME RefundShape, DebitInv, ItemsKept, DebitsKept,
         \A q \in Refunds : \A x \in ItemsOf(q) :
           /\ ItemAt(x)'.status = "refunded" => ItemAt(x).status = "refunded" \/ Debited(x)
           /\ status'[q] = "refunded" => status[q] = "refunded" \/ Debited(x)
  PROVE  MarksInv'
<1>1. \A q \in Refunds : ItemsOf(q)' = ItemsOf(q)
  BY KeptGrow
<1>2. ASSUME NEW q \in Refunds, NEW x \in ItemsOf(q),
             ItemAt(x)'.status = "refunded" \/ status'[q] = "refunded"
      PROVE  Debited(x)'
  BY <1>2 DEF DebitInv, MarksInv, DebitsKept
<1> QED BY <1>1, <1>2 DEF MarksInv

(* A step of one administrator's session. *)
LEMMA DeskPays ==
  ASSUME RefundAssumption, FiniteUser, RefundShape, DebitInv, ItemsGrow, DebitsKept, SettledKept,
         RowsInv', ChannelInv', MarksInv',
         NEW a \in Admins, \A b \in Admins \ {a} : desk'[b] = desk[b],
         desk'[a] # Idle => PaidDesk(a)'
  PROVE  DebitInv'
<1>1. ASSUME NEW b \in Admins, desk'[b] # Idle PROVE PaidDesk(b)'
  BY <1>1, PaidKept
<1> QED BY <1>1 DEF DebitInv

LEMMA CreateDebits ==
  ASSUME RefundAssumption, FiniteUser, RefundShape, DebitInv, NEW s \in Creators, Create(s)
  PROVE  DebitInv'
<1>1. UNCHANGED <<balance, ledger, channel, desk>>
  BY DEF Create, Summarise, Allocate, CommitRequest, LoseDraft, walletVars
<1>2. DebitsKept /\ SettledKept
  BY <1>1, LedgerGrows DEF SettledKept, Settled
<1>3. ItemsGrow /\ MarksInv'
  <2>1. CASE UNCHANGED <<status, items>>
    <3>1. ItemsKept
      BY <2>1, SameItems
    <3>2. ItemsGrow
      BY <3>1, KeptGrow
    <3> QED BY <1>1, <2>1, <3>2 DEF DebitInv, MarksInv, ItemAt, ItemsOf, Debited
  <2>2. ASSUME NEW q \in Refunds, CommitRequest(s, q) PROVE ItemsGrow /\ MarksInv'
    <3>1. /\ status[q] = "absent" /\ items[q] = <<>>
          /\ status' = [status EXCEPT ![q] = "pending"] /\ items' = [items EXCEPT ![q] = draft[s].items]
          /\ draft[s].items \in Seq(Items)
          /\ \A i \in 1 .. Len(draft[s].items) : draft[s].items[i].status = "pending"
          /\ status \in [Refunds -> RefundStatuses] /\ items \in [Refunds -> Seq(Items)]
      BY <2>2 DEF CommitRequest, RefundShape, TypeOK, ItemsShape, WellFormed
    <3>2. ItemsOf(q) = {}
      BY <3>1 DEF ItemsOf
    <3>3. \A x \in ItemsOf(q)' : ItemAt(x)'.status = "pending"
      BY <3>1 DEF ItemsOf, ItemAt
    <3>4. \A p \in Refunds \ {q} :
            /\ ItemsOf(p)' = ItemsOf(p) /\ status'[p] = status[p]
            /\ \A x \in ItemsOf(p) : ItemAt(x)' = ItemAt(x)
      BY <3>1 DEF ItemsOf, ItemAt
    <3>5. ItemsGrow
      BY <3>2, <3>4 DEF ItemsGrow
    <3>6. \A x \in ItemsOf(q)' : ~(ItemAt(x)'.status = "refunded" \/ status'[q] = "refunded")
      BY <3>1, <3>3
    <3>7. MarksInv'
      BY <1>2, <3>4, <3>6 DEF DebitInv, MarksInv, DebitsKept
    <3> QED BY <3>5, <3>7
  <2> QED BY <2>1, <2>2 DEF Create, Summarise, Allocate, LoseDraft
<1>4. RowsInv' /\ ChannelInv'
  BY <1>1, <1>3, RowsSame, ChannelSame DEF DebitInv, Debited
<1>5. \A b \in Admins : desk'[b] # Idle => PaidDesk(b)'
  BY <1>1, <1>2, <1>3, PaidKept
<1> QED BY <1>3, <1>4, <1>5 DEF DebitInv

(* A step of a session that leaves items, rows and channel alone. *)
LEMMA SessionDebits ==
  ASSUME RefundAssumption, FiniteUser, RefundShape, DebitInv, NEW a \in Admins,
         UNCHANGED <<items, balance, ledger, channel>>,
         \A q \in Refunds : status'[q] = "refunded" =>
           status[q] = "refunded" \/ \A x \in ItemsOf(q) : Debited(x),
         NEW d \in Desks \cup {Idle}, desk' = [desk EXCEPT ![a] = d],
         d # Idle => PaidDesk(a)'
  PROVE  DebitInv'
<1>1. ItemsKept
  BY SameItems
<1>2. ItemsGrow /\ DebitsKept /\ SettledKept
  BY <1>1, KeptGrow, LedgerGrows DEF SettledKept, Settled
<1>3. RowsInv' /\ ChannelInv'
  BY <1>2, RowsSame, ChannelSame DEF DebitInv, Debited
<1>4. MarksInv'
  BY <1>1, <1>2, MarksSame DEF ItemAt
<1>5. desk \in [Admins -> Desks \cup {Idle}]
  BY DEF RefundShape, TypeOK
<1>6. desk'[a] = d /\ \A b \in Admins \ {a} : desk'[b] = desk[b]
  BY <1>5
<1> QED BY <1>2, <1>3, <1>4, <1>6, DeskPays

LEMMA LoadDebits ==
  ASSUME RefundAssumption, FiniteUser, RefundShape, RefundShape', DebitInv, NEW a \in Admins,
         NEW q \in Refunds, LoadApproval(a, q) \/ LoadRejection(a, q)
  PROVE  DebitInv'
<1>1. UNCHANGED <<status, items, balance, ledger, channel>>
  BY DEF LoadApproval, LoadRejection, walletVars
<1>2. ItemsGrow /\ DebitsKept
  BY <1>1, SameItems, KeptGrow, LedgerGrows
<1>3. desk \in [Admins -> Desks \cup {Idle}] /\ desk' \in [Admins -> Desks \cup {Idle}]
  BY DEF RefundShape, TypeOK
<1>4. PICK d : d = desk'[a]
  OBVIOUS
<1>5. /\ d.at \in {"item", "rejecting"} /\ d.refund = q /\ d.total = 0
      /\ \A i \in DOMAIN d.seen : i \in DOMAIN items[q] /\ d.seen[i] = items[q][i].status
      /\ desk' = [desk EXCEPT ![a] = d]
  BY <1>3, <1>4 DEF LoadApproval, LoadRejection
<1>6. d \in Desks
  <2>1. d # Idle
    BY <1>5 DEF Idle
  <2> QED BY <1>3, <1>4, <2>1
<1>7. \A i \in DOMAIN d.seen : d.seen[i] = "refunded" => Debited(<<q, i>>)
  <2>1. \A i \in DOMAIN d.seen : <<q, i>> \in ItemsOf(q) /\ ItemAt(<<q, i>>).status = d.seen[i]
    BY <1>5 DEF ItemsOf, ItemAt
  <2> QED BY <2>1 DEF DebitInv, MarksInv
<1>8. \E T \in SUBSET ItemsOf(q) :
        d.total = AmountOf(T) /\ \A x \in T : x[2] < d.next /\ Debited(x)
  <2>1. d.total = AmountOf({}) /\ {} \in SUBSET ItemsOf(q)
    BY <1>5, AmountEmpty
  <2> QED BY <2>1
<1>9. /\ ~(d.at \in {"paid", "debited"}) /\ d.at # "debited"
  BY <1>5
<1>10. PaidDesk(a)'
  <2> HIDE DEF Debited, AmountOf, ItemsOf
  <2> QED BY <1>2, <1>4, <1>5, <1>6, <1>7, <1>8, <1>9, PaidMoves
<1> QED BY <1>1, <1>5, <1>6, <1>10, SessionDebits

(* What a session has held stays true of a desk at the same item. *)
LEMMA PointPaid ==
  ASSUME RefundAssumption, FiniteUser, RefundShape, DebitInv, ItemsGrow, DebitsKept,
         NEW a \in Admins, desk[a].at # "idle", NEW d \in Desks, desk'[a] = d,
         d.refund = desk[a].refund, d.next = desk[a].next, d.total = desk[a].total,
         \/ d.seen = desk[a].seen
         \/ \A i \in DOMAIN d.seen : d.seen[i] = "expired",
         d.at \in {"paid", "debited"} => channel'[Position(a)] \in {"done", "closed"},
         NEW x, x = Position(a), d.at = "debited" => Debited(x)'
  PROVE  PaidDesk(a)'
<1>1. PaidDesk(a)
  BY DeskType DEF DebitInv, Idle, Desks
<1>2. \A i \in DOMAIN d.seen : d.seen[i] = "refunded" => Debited(<<d.refund, i>>)
  BY <1>1 DEF PaidDesk
<1>3. \E T \in SUBSET ItemsOf(d.refund) :
        d.total = AmountOf(T) /\ \A y \in T : y[2] < d.next /\ Debited(y)
  <2>1. PICK T \in SUBSET ItemsOf(desk[a].refund) :
          desk[a].total = AmountOf(T) /\ \A y \in T : y[2] < desk[a].next /\ Debited(y)
    BY <1>1 DEF PaidDesk
  <2> QED BY <2>1
<1>4. x = <<d.refund, d.next>>
  BY DEF Position
<1> HIDE DEF Debited, AmountOf, ItemsOf
<1> QED BY <1>2, <1>3, <1>4, PaidMoves

LEMMA AskDebits ==
  ASSUME RefundAssumption, FiniteUser, RefundShape, RefundShape', DebitInv, NEW a \in Admins,
         AskChannel(a) \/ SendRefund(a) \/ AskAgain(a)
  PROVE  DebitInv'
<1>1. /\ desk[a].at \notin {"idle", "rejecting", "debited"} /\ desk[a].next <= Len(desk[a].seen)
      /\ UNCHANGED <<status, items, balance, ledger, draft>>
  BY DeskType DEF AskChannel, SendRefund, AskAgain, HasItem, At, DeskShape, walletVars
<1>2. Method(a) \in Methods /\ Position(a) \in ItemIds /\ Position(a) \in ItemsOf(desk[a].refund)
  BY <1>1, HeldItem DEF Method, Items, RefundAssumption
<1>3. /\ desk[a] \in Desks /\ desk \in [Admins -> Desks \cup {Idle}]
      /\ channel \in [ItemIds -> RefundStates]
  BY <1>1, DeskType DEF RefundShape, TypeOK
<1>4. \E point \in {"unsent", "unclear", "slow", "paid", "failing"} :
        /\ desk' = [desk EXCEPT ![a].at = point]
        /\ point = "paid" => channel'[Position(a)] \in {"done", "closed"}
  <2>1. CASE AskChannel(a) \/ AskAgain(a)
    <3>1. PICK result \in QueryResults(a) :
            \/ desk' = [desk EXCEPT ![a].at = result]
            \/ desk' = [desk EXCEPT ![a].at = "failing"]
      BY <2>1 DEF AskChannel, AskAgain
    <3>2. UNCHANGED channel
      BY <2>1 DEF AskChannel, AskAgain
    <3>3. result \in {"paid", "slow", "unsent", "failing"} /\ (result = "paid" => channel[Position(a)] = "done")
      BY <1>2 DEF QueryResults, Methods, RefundQueried, AlipayRefundQueried, WechatRefundQueried,
         UnionpayRefundQueried
    <3> QED BY <3>1, <3>2, <3>3
  <2>2. CASE SendRefund(a)
    <3>1. PICK state \in AfterRequest(a) :
            /\ channel' = [channel EXCEPT ![Position(a)] = state]
            /\ \E result \in Refunded(Method(a), state, Busy(a)) : desk' = [desk EXCEPT ![a].at = result]
      BY <2>2 DEF SendRefund
    <3>2. channel'[Position(a)] = state /\ state \in RefundStates
      BY <1>2, <1>3, <3>1 DEF AfterRequest, RefundStates
    <3>3. \A result \in Refunded(Method(a), state, Busy(a)) :
            result \in {"paid", "slow", "unclear"} /\ (result = "paid" => state \in {"done", "closed"})
      BY <1>2, <3>2 DEF Methods, RefundStates, Refunded, AlipayRefunded, WechatRefunded, UnionpayRefunded
    <3> QED BY <3>1, <3>2, <3>3
  <2> QED BY <2>1, <2>2
<1>5. /\ \A x \in ItemIds : channel'[x] # channel[x] => x = Position(a) /\ channel'[x] \in {"processing", "done"}
      /\ \A x \in ItemIds : channel'[x] # channel[x] => channel[x] = "none"
  <2>1. CASE AskChannel(a) \/ AskAgain(a)
    BY <2>1 DEF AskChannel, AskAgain
  <2>2. CASE SendRefund(a)
    <3>1. PICK state \in AfterRequest(a) : channel' = [channel EXCEPT ![Position(a)] = state]
      BY <2>2 DEF SendRefund
    <3>2. state # channel[Position(a)] => state \in {"processing", "done"} /\ channel[Position(a)] = "none"
      BY DEF AfterRequest
    <3> QED BY <1>3, <3>1, <3>2
  <2> QED BY <2>1, <2>2
<1>6. ItemsKept
  BY <1>1, SameItems
<1>7. ItemsGrow /\ DebitsKept /\ SettledKept
  <2>1. SettledKept
    BY <1>5 DEF SettledKept, Settled
  <2> QED BY <1>1, <1>6, <2>1, KeptGrow, LedgerGrows
<1>8. RowsInv' /\ MarksInv'
  <2>1. RowsInv'
    BY <1>1, <1>7, RowsSame DEF DebitInv
  <2>2. MarksInv'
    BY <1>1, <1>6, <1>7, MarksSame DEF ItemAt
  <2> QED BY <2>1, <2>2
<1>9. ChannelInv'
  <2> SUFFICES ASSUME NEW x \in ItemIds
               PROVE  /\ channel'[x] # "none" => x \in ItemsOf(x[1])'
                      /\ channel'[x] = "closed" => ItemAt(x)'.order \in Closes
                      /\ Debited(x)' => Settled(x)'
    BY DEF ChannelInv
  <2>1. ItemsOf(x[1])' = ItemsOf(x[1]) /\ ItemAt(x)' = ItemAt(x) /\ (Debited(x)' <=> Debited(x))
    BY <1>1 DEF ItemsOf, ItemAt, Debited
  <2>2. Debited(x)' => Settled(x)'
    BY <1>7, <2>1 DEF SettledKept, DebitInv, ChannelInv
  <2>3. CASE channel'[x] = channel[x]
    BY <2>1, <2>2, <2>3 DEF DebitInv, ChannelInv
  <2>4. CASE channel'[x] # channel[x]
    <3>1. x = Position(a) /\ channel'[x] # "closed" /\ x[1] = desk[a].refund
      BY <1>5, <2>4 DEF Position
    <3> QED BY <1>2, <2>1, <2>2, <3>1
  <2> QED BY <2>3, <2>4
<1>10. desk' \in [Admins -> Desks \cup {Idle}]
  BY DEF RefundShape, TypeOK
<1>11. \A b \in Admins \ {a} : desk'[b] = desk[b]
  BY <1>3, <1>4
<1>12. PaidDesk(a)'
  <2>1. PICK point \in {"unsent", "unclear", "slow", "paid", "failing"} :
          /\ desk' = [desk EXCEPT ![a].at = point]
          /\ point = "paid" => channel'[Position(a)] \in {"done", "closed"}
    BY <1>4
  <2>2. PICK d : d = [desk[a] EXCEPT !.at = point]
    OBVIOUS
  <2>3. d \in Desks
    BY <1>3, <2>2 DEF Desks, ApprovalSteps
  <2>4. /\ desk'[a] = d /\ d.at = point /\ d.refund = desk[a].refund /\ d.next = desk[a].next
        /\ d.total = desk[a].total /\ d.seen = desk[a].seen
    BY <1>3, <2>1, <2>2 DEF Desks
  <2>5. PICK x : x = Position(a)
    OBVIOUS
  <2>6. d.at # "debited" /\ (d.at \in {"paid", "debited"} => channel'[Position(a)] \in {"done", "closed"})
    BY <2>1, <2>4
  <2> QED BY <1>1, <1>7, <2>3, <2>4, <2>5, <2>6, PointPaid
<1> QED BY <1>7, <1>8, <1>9, <1>11, <1>12, DeskPays

(* The item a session is at is none of those it has counted. *)
LEMMA TotalGrows ==
  ASSUME RefundAssumption, FiniteUser, RefundShape, DebitInv, NEW a \in Admins,
         desk[a].at \notin {"idle", "rejecting"}, desk[a].next <= Len(desk[a].seen),
         NEW extra \in {0, Item(a).amount}, extra = 0 \/ Debited(Position(a))
  PROVE  \E T \in SUBSET ItemsOf(desk[a].refund) :
           /\ desk[a].total + extra = AmountOf(T)
           /\ \A x \in T : x[2] < desk[a].next + 1 /\ Debited(x)
<1>1. /\ desk[a] \in Desks /\ PaidDesk(a) /\ desk[a].refund \in Refunds
      /\ desk[a].next \in Nat /\ desk[a].total \in Nat
  BY DeskType DEF DebitInv, Idle, Desks
<1>2. PICK T \in SUBSET ItemsOf(desk[a].refund) :
        desk[a].total = AmountOf(T) /\ \A x \in T : x[2] < desk[a].next /\ Debited(x)
  BY <1>1 DEF PaidDesk
<1>3. \A x \in ItemsOf(desk[a].refund) : x[2] \in Nat /\ ItemAt(x).amount \in Nat
  <2>1. items \in [Refunds -> Seq(Items)] /\ ItemsTyped
    BY DEF RefundShape, TypeOK, ItemsTyped
  <2>2. \A x \in ItemsOf(desk[a].refund) : x[2] \in DOMAIN items[desk[a].refund] /\ ItemAt(x).amount \in Nat
    BY <1>1, <2>1, ItemsOfFinite
  <2>3. \A i \in DOMAIN items[desk[a].refund] : i \in Nat
    BY <1>1, <2>1
  <2> QED BY <2>2, <2>3
<1>4. CASE extra = 0
  <2>1. \A x \in T : x[2] < desk[a].next + 1
    BY <1>1, <1>2, <1>3
  <2> QED BY <1>1, <1>2, <1>4, <2>1
<1>5. CASE extra # 0
  <2> DEFINE x == Position(a)
             U == T \cup {x}
  <2>1. /\ x \in ItemsOf(desk[a].refund) /\ x[2] = desk[a].next /\ Debited(x)
        /\ ItemAt(x).amount = extra /\ extra \in Nat
    BY <1>5, HeldItem DEF Position
  <2>2. x \notin T
    BY <1>1, <1>2, <1>3, <2>1
  <2>3. IsFiniteSet(T)
    BY <1>1, <1>2, ItemsOfFinite, FS_Subset DEF RefundShape, TypeOK, ItemsTyped
  <2>4. \A y \in U : ItemAt(y).amount \in Nat
    BY <1>2, <1>3, <2>1
  <2> HIDE DEF x
  <2>5. AmountOf(U) = ItemAt(x).amount + AmountOf(T)
    BY <2>2, <2>3, <2>4, AmountAdd
  <2>6. \A y \in U : y[2] < desk[a].next + 1 /\ Debited(y)
    <3>1. \A y \in T : y[2] < desk[a].next + 1 /\ Debited(y)
      BY <1>1, <1>2, <1>3
    <3>2. x[2] < desk[a].next + 1 /\ Debited(x)
      BY <1>1, <2>1
    <3> QED BY <3>1, <3>2
  <2>7. AmountOf(T) \in Nat
    BY <1>1, <1>2
  <2>8. desk[a].total + extra = AmountOf(U) /\ U \in SUBSET ItemsOf(desk[a].refund)
    BY <1>2, <2>1, <2>5, <2>7
  <2> QED BY <2>6, <2>8
<1> QED BY <1>4, <1>5

(* A session goes on to the next item, and counts this one or not. *)
LEMMA NextPaid ==
  ASSUME RefundAssumption, FiniteUser, RefundShape, DebitInv, ItemsGrow, DebitsKept,
         NEW a \in Admins,
         desk[a].at \notin {"idle", "rejecting"}, desk[a].next <= Len(desk[a].seen),
         NEW extra \in {0, Item(a).amount}, extra = 0 \/ Debited(Position(a)),
         NEW d \in Desks, desk'[a] = d, d.at = "item", d.refund = desk[a].refund,
         d.next = desk[a].next + 1, d.total = desk[a].total + extra, d.seen = desk[a].seen
  PROVE  PaidDesk(a)'
<1>1. PaidDesk(a)
  BY DEF DebitInv, Idle
<1>2. \A i \in DOMAIN d.seen : d.seen[i] = "refunded" => Debited(<<d.refund, i>>)
  BY <1>1 DEF PaidDesk
<1>3. \E T \in SUBSET ItemsOf(d.refund) :
        d.total = AmountOf(T) /\ \A y \in T : y[2] < d.next /\ Debited(y)
  <2>1. PICK T \in SUBSET ItemsOf(desk[a].refund) :
          /\ desk[a].total + extra = AmountOf(T)
          /\ \A x \in T : x[2] < desk[a].next + 1 /\ Debited(x)
    BY TotalGrows
  <2> QED BY <2>1
<1> HIDE DEF Debited, AmountOf, ItemsOf
<1> QED BY <1>2, <1>3, PaidMoves

LEMMA SkipDebits ==
  ASSUME RefundAssumption, FiniteUser, RefundShape, RefundShape', DebitInv, NEW a \in Admins,
         SkipItem(a)
  PROVE  DebitInv'
<1>1. /\ desk[a].at = "item" /\ desk[a].next <= Len(desk[a].seen)
      /\ UNCHANGED <<status, items, balance, ledger, channel>>
  BY DEF SkipItem, HasItem, At, walletVars
<1>2. /\ desk[a] \in Desks /\ DeskShape(a) /\ PaidDesk(a)
      /\ desk \in [Admins -> Desks \cup {Idle}] /\ desk' \in [Admins -> Desks \cup {Idle}]
      /\ desk[a].total \in Nat
  BY <1>1, DeskType DEF DebitInv, Idle, RefundShape, TypeOK, Desks
<1>3. ItemsGrow /\ DebitsKept
  BY <1>1, SameItems, KeptGrow, LedgerGrows
<1>4. Seen(a) = "refunded" => Debited(Position(a))
  <2>1. /\ Position(a) \in ItemsOf(desk[a].refund) /\ ItemAt(Position(a)) = Item(a)
        /\ desk[a].refund \in Refunds /\ desk[a].next \in 1 .. Len(items[desk[a].refund])
    BY <1>1, <1>2, HeldItem DEF Desks
  <2>2. desk[a].next \in DOMAIN desk[a].seen
    BY <1>1, <1>2, <2>1 DEF Desks, DeskShape
  <2>3. desk[a].seen[desk[a].next] = "refunded" => Debited(Position(a))
    BY <1>2, <2>2 DEF PaidDesk, Position
  <2>4. Item(a).status = "refunded" => Debited(Position(a))
    BY <2>1 DEF DebitInv, MarksInv
  <2> QED BY <2>3, <2>4 DEF Seen
<1>5. PICK d : d = desk'[a]
  OBVIOUS
<1>6. \E extra \in {0, Item(a).amount} :
        /\ extra = 0 \/ Debited(Position(a))
        /\ desk' = [desk EXCEPT ![a] = d] /\ d.at = "item" /\ d.refund = desk[a].refund
        /\ d.next = desk[a].next + 1 /\ d.total = desk[a].total + extra /\ d.seen = desk[a].seen
  <2>1. CASE Seen(a) = "refunded" /\
             desk' = [desk EXCEPT ![a].next = @ + 1, ![a].total = @ + Item(a).amount]
    <3>1. PICK amount : amount = Item(a).amount
      OBVIOUS
    <3>2. desk' = [desk EXCEPT ![a] = [desk[a] EXCEPT !.next = @ + 1, !.total = @ + amount]]
      BY <2>1, <3>1
    <3>3. /\ desk' = [desk EXCEPT ![a] = d] /\ d.at = "item" /\ d.refund = desk[a].refund
          /\ d.next = desk[a].next + 1 /\ d.total = desk[a].total + amount
          /\ d.seen = desk[a].seen
      BY <1>1, <1>2, <1>5, <3>2 DEF Desks
    <3> QED BY <1>4, <2>1, <3>1, <3>3
  <2>2. CASE desk' = [desk EXCEPT ![a].next = @ + 1, ![a].now = "processing"]
    <3>1. desk' = [desk EXCEPT ![a] = [desk[a] EXCEPT !.next = @ + 1, !.now = "processing"]]
      BY <2>2
    <3>2. /\ desk' = [desk EXCEPT ![a] = d] /\ d.at = "item" /\ d.refund = desk[a].refund
          /\ d.next = desk[a].next + 1 /\ d.total = desk[a].total
          /\ d.seen = desk[a].seen
      BY <1>1, <1>2, <1>5, <3>1 DEF Desks
    <3> QED BY <1>2, <3>2
  <2> QED BY <2>1, <2>2 DEF SkipItem
<1>7. d \in Desks
  <2>1. d # Idle
    BY <1>6 DEF Idle
  <2> QED BY <1>2, <1>5, <2>1
<1>8. PaidDesk(a)'
  BY <1>1, <1>3, <1>5, <1>6, <1>7, NextPaid
<1> QED BY <1>1, <1>6, <1>7, <1>8, SessionDebits

LEMMA MarkDebits ==
  ASSUME RefundAssumption, FiniteUser, RefundShape, RefundShape', DebitInv, NEW a \in Admins,
         MarkSlow(a) \/ RecordItem(a)
  PROVE  DebitInv'
<1> DEFINE r == desk[a].refund
           n == desk[a].next
<1>1. /\ desk[a].at \in {"slow", "debited"} /\ UNCHANGED <<balance, ledger, channel>>
      /\ status' = Flushed(a, "processing")
  BY DEF MarkSlow, RecordItem, At, walletVars
<1>2. /\ desk[a] \in Desks /\ DeskShape(a) /\ PaidDesk(a) /\ desk[a].next <= Len(desk[a].seen)
      /\ desk \in [Admins -> Desks \cup {Idle}] /\ desk' \in [Admins -> Desks \cup {Idle}]
      /\ desk[a].total \in Nat
  BY <1>1, DeskType, Z3T(30) DEF DebitInv, Idle, RefundShape, TypeOK, Desks, DeskShape
<1>3. PICK mark \in ItemStatuses :
        /\ items' = [items EXCEPT ![r][n].status = mark]
        /\ mark = "refunded" => Debited(Position(a))
  <2>1. "processing" \in ItemStatuses /\ "refunded" \in ItemStatuses
    BY DEF ItemStatuses
  <2>2. CASE MarkSlow(a)
    BY <2>1, <2>2, Zenon DEF MarkSlow
  <2>3. CASE RecordItem(a)
    <3>1. Debited(Position(a))
      BY <1>2, <2>3, Zenon DEF RecordItem, At, PaidDesk
    <3> QED BY <2>1, <2>3, <3>1, Zenon DEF RecordItem
  <2> QED BY <2>2, <2>3
<1>4. /\ ItemsKept
      /\ items'[r][n].status = mark
      /\ \A q \in Refunds : \A i \in 1 .. Len(items[q]) :
           <<q, i>> # Position(a) => items'[q][i] = items[q][i]
  BY <1>1, <1>2, <1>3, MarkKeeps
<1>5. ItemsGrow /\ DebitsKept /\ SettledKept
  BY <1>1, <1>4, KeptGrow, LedgerGrows DEF SettledKept, Settled
<1>6. RowsInv' /\ ChannelInv'
  BY <1>1, <1>5, RowsSame, ChannelSame DEF DebitInv, Debited
<1>7. ASSUME NEW q \in Refunds, NEW x \in ItemsOf(q), ItemAt(x)'.status = "refunded"
      PROVE  ItemAt(x).status = "refunded" \/ Debited(x)
  <2>1. PICK i \in 1 .. Len(items[q]) : x = <<q, i>>
    BY DEF ItemsOf, RefundShape, TypeOK
  <2>2. ItemAt(x)' = items'[q][i] /\ ItemAt(x) = items[q][i]
    BY <2>1 DEF ItemAt
  <2>3. CASE x = Position(a)
    <3>1. ItemAt(x)'.status = mark
      BY <1>4, <2>1, <2>2, <2>3 DEF Position
    <3> QED BY <1>3, <1>7, <2>3, <3>1
  <2>4. CASE x # Position(a)
    BY <1>4, <1>7, <2>1, <2>2, <2>4
  <2> QED BY <2>3, <2>4
<1>8. \A q \in Refunds : status'[q] = "refunded" => status[q] = "refunded"
  BY <1>1 DEF Flushed, RefundShape, TypeOK
<1>9. MarksInv'
  BY <1>4, <1>5, <1>7, <1>8, MarksSame
<1>10. PICK d : d = desk'[a]
  OBVIOUS
<1>11. \E extra \in {0, Item(a).amount} :
         /\ extra = 0 \/ Debited(Position(a))
         /\ desk' = [desk EXCEPT ![a] = d] /\ d.at = "item" /\ d.refund = desk[a].refund
         /\ d.next = desk[a].next + 1 /\ d.total = desk[a].total + extra /\ d.seen = desk[a].seen
  <2>1. CASE MarkSlow(a)
    <3>1. desk' = [desk EXCEPT ![a] = [desk[a] EXCEPT
                     !.at = "item", !.next = @ + 1, !.base = "processing", !.now = "processing"]]
      BY <2>1 DEF MarkSlow
    <3>2. /\ desk' = [desk EXCEPT ![a] = d] /\ d.at = "item" /\ d.refund = desk[a].refund
          /\ d.next = desk[a].next + 1 /\ d.total = desk[a].total
          /\ d.seen = desk[a].seen
      BY <1>2, <1>10, <3>1 DEF Desks
    <3> QED BY <1>2, <3>2
  <2>2. CASE RecordItem(a)
    <3> DEFINE after == status'[r]
               amount == Item(a).amount
    <3>1. desk' = [desk EXCEPT ![a] = [desk[a] EXCEPT
                     !.at = "item", !.next = @ + 1, !.total = @ + amount,
                     !.base = after, !.now = after]]
      BY <2>2 DEF RecordItem
    <3> HIDE DEF after, amount
    <3>2. /\ desk' = [desk EXCEPT ![a] = d] /\ d.at = "item" /\ d.refund = desk[a].refund
          /\ d.next = desk[a].next + 1 /\ d.total = desk[a].total + amount
          /\ d.seen = desk[a].seen
      BY <1>2, <1>10, <3>1 DEF Desks
    <3>3. Debited(Position(a))
      BY <1>2, <2>2, Zenon DEF RecordItem, At, PaidDesk
    <3> QED BY <3>2, <3>3 DEF amount
  <2> QED BY <2>1, <2>2
<1>12. d \in Desks
  <2>1. d # Idle
    BY <1>11 DEF Idle
  <2> QED BY <1>2, <1>10, <2>1
<1>13. PaidDesk(a)'
  BY <1>1, <1>2, <1>5, <1>10, <1>11, <1>12, NextPaid
<1>14. \A b \in Admins \ {a} : desk'[b] = desk[b]
  BY <1>2, <1>11
<1> QED BY <1>5, <1>6, <1>9, <1>13, <1>14, DeskPays

LEMMA PostedIsDebited == ASSUME NEW x PROVE WL!Posted("refund", x) <=> Debited(x)
BY DEF WL!Posted, Debited

(* One more row leaves what the rows before it say of their items. *)
LEMMA RowsMore ==
  ASSUME RefundShape, RowsInv, UNCHANGED items, NEW row, ledger' = Append(ledger, row),
         row.type = "refund" => RefundRow(row) /\ ~Debited(row.ref)
  PROVE  /\ RowsInv'
         /\ \A x : Debited(x)' => Debited(x) \/ (row.type = "refund" /\ x = row.ref)
<1> DEFINE n == Len(ledger)
<1>1. ledger \in Seq(WL!Rows)
  BY DEF RefundShape, TypeOK
<1>2. /\ n \in Nat /\ DOMAIN ledger = 1 .. n /\ DOMAIN ledger' = 1 .. n + 1 /\ ledger'[n + 1] = row
      /\ \A j \in 1 .. n : ledger'[j] = ledger[j]
  BY <1>1
<1> HIDE DEF n
<1>4. ASSUME NEW j \in DOMAIN ledger', ledger'[j].type = "refund" PROVE RefundRow(ledger[j])'
  <2>1. PICK r : r = ledger'[j]
    OBVIOUS
  <2>2. RefundRow(r)
    BY <1>2, <1>4, <2>1 DEF RowsInv
  <2>3. PICK q \in Refunds : r.ref \in ItemsOf(q) /\ r.amount = -ItemAt(r.ref).amount
    BY <2>2 DEF RefundRow
  <2>4. r.ref \in ItemsOf(q)' /\ r.amount = -(items'[r.ref[1]][r.ref[2]].amount)
    BY <2>3 DEF ItemsOf, ItemAt
  <2>5. (ItemAt(ledger[j].ref).amount)' = items'[r.ref[1]][r.ref[2]].amount
    BY <2>1 DEF ItemAt
  <2> QED BY <2>1, <2>4, <2>5 DEF RefundRow
<1>7. \A j, k \in DOMAIN ledger' :
        /\ ledger'[j].type = "refund" /\ ledger'[k].type = "refund"
        /\ ledger'[j].ref = ledger'[k].ref
        => j = k
  <2>1. \A j \in 1 .. n : row.type = "refund" /\ ledger[j].type = "refund" => ledger[j].ref # row.ref
    BY <1>2 DEF Debited
  <2> QED BY <1>2, <2>1 DEF RowsInv
<1>8. RowsInv'
  BY <1>4, <1>7 DEF RowsInv
<1>9. \A x : Debited(x)' => Debited(x) \/ (row.type = "refund" /\ x = row.ref)
  BY <1>2 DEF Debited
<1> QED BY <1>8, <1>9

LEMMA DebitDebits ==
  ASSUME RefundAssumption, FiniteUser, RefundShape, RefundShape', DebitInv, NEW a \in Admins,
         Debit(a)
  PROVE  DebitInv'
<1> DEFINE left == desk[a].purse - Item(a).amount
           row == [type |-> "refund", ref |-> Position(a), amount |-> -Item(a).amount, after |-> left]
<1>1. desk[a].at = "paid" /\ UNCHANGED <<items, channel>>
  BY DEF Debit, At
<1>2. /\ desk[a] \in Desks /\ DeskShape(a) /\ PaidDesk(a) /\ desk[a].refund \in Refunds
      /\ desk \in [Admins -> Desks \cup {Idle}] /\ desk' \in [Admins -> Desks \cup {Idle}]
  BY <1>1, DeskType DEF DebitInv, Idle, RefundShape, TypeOK
<1>3. /\ Position(a) \in ItemsOf(desk[a].refund) /\ ItemAt(Position(a)) = Item(a)
      /\ Settled(Position(a))
  BY <1>1, <1>2, HeldItem DEF DeskShape, PaidDesk
<1>4. ItemsKept /\ ItemsGrow /\ SettledKept
  BY <1>1, SameItems, KeptGrow DEF SettledKept, Settled
<1>5. ledger' = ledger \/ (ledger' = Append(ledger, row) /\ NewDebit(a))
  BY DEF Debit, walletVars
<1>6. DebitsKept
  BY <1>5, LedgerGrows
<1>7. RowsInv' /\ \A x : Debited(x)' => Debited(x) \/ x = Position(a)
  <2>1. CASE ledger' = ledger
    BY <1>4, <2>1, RowsSame DEF DebitInv, Debited
  <2>2. CASE ledger' = Append(ledger, row) /\ NewDebit(a)
    <3>1. row.ref = Position(a) /\ row.amount = -Item(a).amount
      OBVIOUS
    <3> HIDE DEF row
    <3>2. RefundRow(row) /\ ~Debited(row.ref)
      BY <1>2, <1>3, <2>2, <3>1, PostedIsDebited DEF RefundRow, NewDebit
    <3> QED BY <1>1, <2>2, <3>1, <3>2, RowsMore DEF DebitInv
  <2> QED BY <1>5, <2>1, <2>2
<1>8. ChannelInv'
  BY <1>1, <1>3, <1>4, <1>7, ChannelSame DEF DebitInv
<1>9. MarksInv'
  <2>1. \A q \in Refunds : status'[q] = "refunded" => status[q] = "refunded"
    BY <1>1, <1>2 DEF Debit, Flushed, DeskShape, RefundShape, TypeOK
  <2> QED BY <1>1, <1>4, <1>6, <2>1, MarksSame DEF ItemAt
<1>10. PICK d : d = desk'[a]
  OBVIOUS
<1>11. PICK x : x = Position(a)
  OBVIOUS
<1>12. /\ desk' = [desk EXCEPT ![a] = d] /\ d.at \in {"failing", "debited"}
       /\ d.refund = desk[a].refund /\ d.next = desk[a].next /\ d.total = desk[a].total
       /\ d.seen = desk[a].seen \/ \A i \in DOMAIN d.seen : d.seen[i] = "expired"
       /\ d.at = "debited" => Debited(x)'
  <2> HIDE DEF left
  <2>1. CASE ~Covered(left) /\ desk' = [desk EXCEPT ![a].at = "failing"]
    BY <1>2, <1>10, <2>1 DEF Desks
  <2>2. CASE /\ ledger' = Append(ledger, row)
             /\ desk' = [desk EXCEPT ![a].at = "debited", ![a].purse = left, ![a].base = desk[a].now]
    <3>1. row.ref = Position(a) /\ row.type = "refund"
      OBVIOUS
    <3> HIDE DEF row
    <3>2. ledger \in Seq(WL!Rows)
      BY DEF RefundShape, TypeOK
    <3>3. Len(ledger) + 1 \in DOMAIN ledger' /\ ledger'[Len(ledger) + 1] = row
      BY <2>2, <3>2
    <3>4. Debited(x)'
      BY <1>11, <3>1, <3>3 DEF Debited
    <3>5. desk' = [desk EXCEPT ![a] = [desk[a] EXCEPT !.at = "debited", !.purse = left, !.base = desk[a].now]]
      BY <2>2
    <3> QED BY <1>2, <1>10, <3>4, <3>5 DEF Desks
  <2>3. CASE /\ ~NewDebit(a)
             /\ desk' = [desk EXCEPT ![a].at = "debited", ![a].purse = balance,
                                ![a].base = "expired", ![a].now = "expired",
                                ![a].seen = [i \in DOMAIN @ |-> "expired"]]
    <3>1. Debited(x)'
      BY <1>6, <1>11, <2>3, PostedIsDebited DEF NewDebit, DebitsKept
    <3> DEFINE blank == [i \in DOMAIN desk[a].seen |-> "expired"]
    <3>2. desk' = [desk EXCEPT ![a] = [desk[a] EXCEPT !.at = "debited", !.purse = balance,
                     !.base = "expired", !.now = "expired", !.seen = blank]]
      BY <2>3
    <3>3. \A i \in DOMAIN blank : blank[i] = "expired"
      OBVIOUS
    <3> HIDE DEF blank
    <3>4. /\ desk' = [desk EXCEPT ![a] = d] /\ d.at = "debited" /\ d.refund = desk[a].refund
          /\ d.next = desk[a].next /\ d.total = desk[a].total /\ d.seen = blank
      BY <1>2, <1>10, <3>2 DEF Desks
    <3> QED BY <3>1, <3>3, <3>4
  <2> QED BY <2>1, <2>2, <2>3 DEF Debit, left, row
<1>13. d \in Desks
  <2>1. d # Idle
    BY <1>12 DEF Idle
  <2> QED BY <1>2, <1>10, <2>1
<1>14. PaidDesk(a)'
  <2>1. channel'[Position(a)] \in {"done", "closed"}
    BY <1>1, <1>3 DEF Settled
  <2> QED BY <1>1, <1>4, <1>6, <1>10, <1>11, <1>12, <1>13, <2>1, PointPaid
<1>15. \A b \in Admins \ {a} : desk'[b] = desk[b]
  BY <1>2, <1>12
<1> QED BY <1>4, <1>6, <1>7, <1>8, <1>9, <1>14, <1>15, DeskPays

(* What was counted amounts to the request only if it is all of it. *)
LEMMA CompleteDebited ==
  ASSUME RefundAssumption, FiniteUser, RefundShape, DebitInv, NEW a \in Admins,
         desk[a].at # "idle", Complete(a)
  PROVE  \A x \in ItemsOf(desk[a].refund) : Debited(x)
<1> DEFINE r == desk[a].refund
           all == ItemsOf(r)
<1>1. PaidDesk(a) /\ r \in Refunds /\ ItemsTyped /\ WellFormed(items[r])
  BY DeskType DEF DebitInv, Idle, RefundShape, TypeOK, ItemsTyped, ItemsShape
<1>2. IsFiniteSet(all) /\ \A x \in all : ItemAt(x) \in Items /\ ItemAt(x).amount \in Nat \ {0}
  <2>1. IsFiniteSet(all)
    BY <1>1, ItemsOfFinite
  <2>2. ASSUME NEW x \in all PROVE ItemAt(x) \in Items /\ ItemAt(x).amount \in Nat \ {0}
    <3>1. ItemAt(x) \in Items /\ ItemAt(x).amount \in Nat
      BY <1>1, ItemsOfFinite
    <3>2. PICK i \in 1 .. Len(items[r]) : x = <<r, i>>
      BY <1>1 DEF ItemsOf, ItemsTyped
    <3>3. OrderAmount[ItemAt(x).order] \in Nat
      BY <3>1 DEF Items, RefundAssumption
    <3>4. ItemAt(x).amount \in 1 .. OrderAmount[ItemAt(x).order]
      BY <1>1, <3>2 DEF ItemAt, WellFormed
    <3> QED BY <3>1, <3>3, <3>4
  <2> QED BY <2>1, <2>2
<1>3. {x \in all : ItemAt(x).status \in ItemStatuses} = all
  BY <1>2 DEF Items
<1>4. desk[a].total >= AmountOf(all)
  BY <1>3 DEF Complete, Claimed
<1> HIDE DEF all
<1>5. PICK T \in SUBSET all : desk[a].total = AmountOf(T) /\ \A x \in T : Debited(x)
  BY <1>1 DEF PaidDesk, all
<1>6. T = all
  BY <1>2, <1>4, <1>5, AmountOfAll
<1> QED BY <1>5, <1>6 DEF all

LEMMA ConcludeDebits ==
  ASSUME RefundAssumption, FiniteUser, RefundShape, RefundShape', DebitInv, NEW a \in Admins,
         FailApproval(a) \/ FinishApproval(a) \/ Reject(a) \/ LoseDesk(a)
  PROVE  DebitInv'
<1>1. UNCHANGED <<items, balance, ledger, channel>> /\ desk' = [desk EXCEPT ![a] = Idle]
  BY DEF FailApproval, FinishApproval, Reject, LoseDesk, Conclude, walletVars
<1>2. ASSUME NEW q \in Refunds, status'[q] = "refunded"
      PROVE  status[q] = "refunded" \/ \A x \in ItemsOf(q) : Debited(x)
  <2>1. status \in [Refunds -> RefundStatuses]
    BY DEF RefundShape, TypeOK
  <2>2. CASE FailApproval(a) \/ Reject(a) \/ LoseDesk(a)
    BY <1>2, <2>1, <2>2 DEF FailApproval, Reject, LoseDesk, Conclude, Flushed
  <2>3. CASE FinishApproval(a)
    <3>1. /\ status' = Flushed(a, IF Complete(a) THEN "refunded" ELSE "processing")
          /\ desk[a].at # "idle"
      BY <2>3 DEF FinishApproval, Conclude, At
    <3>2. status'[q] # status[q] => q = desk[a].refund /\ Complete(a)
      BY <1>2, <2>1, <3>1 DEF Flushed
    <3>3. CASE q = desk[a].refund /\ Complete(a)
      BY <3>1, <3>3, CompleteDebited
    <3> QED BY <1>2, <3>2, <3>3
  <2> QED BY <2>2, <2>3
<1> QED BY <1>1, <1>2, SessionDebits

LEMMA ChannelDebits ==
  ASSUME RefundAssumption, FiniteUser, RefundShape, RefundShape', DebitInv,
         \/ \E x \in ItemIds : ChannelCompletes(x) \/ ChannelCloses(x)
         \/ \E m \in Postings : OtherPosting(m)
  PROVE  DebitInv'
<1>1. UNCHANGED <<status, items, desk>>
  BY DEF ChannelCompletes, ChannelCloses, OtherPosting
<1>2. ItemsKept /\ ItemsGrow
  BY <1>1, SameItems, KeptGrow
<1>3. DebitsKept
  BY LedgerGrows DEF ChannelCompletes, ChannelCloses, OtherPosting, walletVars
<1>4. /\ SettledKept /\ RowsInv' /\ ChannelInv'
  <2>1. CASE \E x \in ItemIds : ChannelCompletes(x) \/ ChannelCloses(x)
    <3>1. PICK x \in ItemIds :
            /\ UNCHANGED ledger /\ channel[x] = "processing"
            /\ \/ channel' = [channel EXCEPT ![x] = "done"]
               \/ channel' = [channel EXCEPT ![x] = "closed"] /\ ItemAt(x).order \in Closes
      BY <2>1 DEF ChannelCompletes, ChannelCloses, walletVars
    <3>2. channel \in [ItemIds -> RefundStates]
      BY DEF RefundShape, TypeOK
    <3>3. /\ channel'[x] \in {"done", "closed"} /\ (channel'[x] = "closed" => ItemAt(x).order \in Closes)
          /\ \A y \in ItemIds \ {x} : channel'[y] = channel[y]
      BY <3>1, <3>2
    <3>4. SettledKept
      BY <3>3 DEF SettledKept, Settled
    <3>5. RowsInv'
      BY <1>2, <3>1, RowsSame DEF DebitInv
    <3>6. ASSUME NEW y \in ItemIds
          PROVE  /\ channel'[y] # "none" => y \in ItemsOf(y[1])'
                 /\ channel'[y] = "closed" => ItemAt(y)'.order \in Closes
                 /\ Debited(y)' => Settled(y)'
      <4>1. ItemsOf(y[1])' = ItemsOf(y[1]) /\ ItemAt(y)' = ItemAt(y) /\ (Debited(y)' <=> Debited(y))
        BY <1>1, <3>1 DEF ItemsOf, ItemAt, Debited
      <4>2. Debited(y)' => Settled(y)'
        BY <3>4, <4>1 DEF SettledKept, DebitInv, ChannelInv
      <4> QED BY <3>1, <3>3, <4>1, <4>2 DEF DebitInv, ChannelInv
    <3>7. ChannelInv'
      BY <3>6 DEF ChannelInv
    <3> QED BY <3>4, <3>5, <3>7
  <2>2. ASSUME NEW m \in Postings, OtherPosting(m) PROVE SettledKept /\ RowsInv' /\ ChannelInv'
    <3>1. PICK row : ledger' = Append(ledger, row) /\ row.type # "refund" /\ UNCHANGED channel
      BY <2>2, Z3T(30) DEF OtherPosting
    <3>2. RowsInv' /\ \A x : Debited(x)' => Debited(x)
      BY <1>1, <3>1, RowsMore DEF DebitInv
    <3>3. ChannelInv'
      BY <1>2, <3>1, <3>2, ChannelSame DEF DebitInv
    <3> QED BY <3>1, <3>2, <3>3 DEF SettledKept, Settled
  <2> QED BY <2>1, <2>2
<1>5. MarksInv'
  BY <1>1, <1>2, <1>3, MarksSame DEF ItemAt
<1>6. \A b \in Admins : desk'[b] # Idle => PaidDesk(b)'
  BY <1>1, <1>2, <1>3, <1>4, PaidKept
<1> QED BY <1>4, <1>5, <1>6 DEF DebitInv

LEMMA DebitInit == ASSUME RefundAssumption, Init PROVE DebitInv
<1>1. /\ DOMAIN ledger = {} /\ \A x \in ItemIds : channel[x] = "none"
      /\ \A q \in Refunds : items[q] = <<>>
      /\ \A a \in Admins : desk[a] = Idle
  BY DEF Init
<1>2. \A q \in Refunds : ItemsOf(q) = {}
  BY <1>1 DEF ItemsOf
<1> QED BY <1>1, <1>2 DEF DebitInv, RowsInv, ChannelInv, MarksInv, Debited

LEMMA DebitStep ==
  ASSUME RefundAssumption, FiniteUser, RefundShape, RefundShape', DebitInv, Next
  PROVE  DebitInv'
<1>1. ASSUME NEW a \in Admins, ApprovalStep(a) PROVE DebitInv'
  BY <1>1, SkipDebits, AskDebits, MarkDebits, DebitDebits, ConcludeDebits DEF ApprovalStep
<1> QED BY <1>1, CreateDebits, ChannelDebits, LoadDebits, ConcludeDebits DEF Next

LEMMA DebitInvHolds == ASSUME FiniteUser PROVE Spec => [](RefundShape /\ DebitInv)
<1>1. Init => DebitInv
  BY DebitInit, RefundAssumption
<1>2. RefundShape /\ RefundShape' /\ DebitInv /\ [Next]_vars => DebitInv'
  <2>1. ASSUME RefundShape, DebitInv, UNCHANGED vars PROVE DebitInv'
    <3>1. UNCHANGED <<status, items, ledger, channel, desk>>
      BY <2>1 DEF vars, walletVars
    <3>2. /\ \A x : ItemAt(x)' = ItemAt(x) /\ (Debited(x)' <=> Debited(x)) /\ (Settled(x)' <=> Settled(x))
          /\ \A q : ItemsOf(q)' = ItemsOf(q)
      BY <3>1 DEF ItemAt, ItemsOf, Debited, Settled
    <3>3. ItemsKept /\ ItemsGrow /\ DebitsKept /\ SettledKept
      BY <2>1, <3>1, <3>2, SameItems, KeptGrow DEF DebitsKept, SettledKept
    <3>4. RowsInv' /\ ChannelInv' /\ MarksInv'
      BY <2>1, <3>1, <3>2, <3>3, RowsSame, ChannelSame, MarksSame DEF DebitInv
    <3>5. \A b \in Admins : desk'[b] # Idle => PaidDesk(b)'
      BY <2>1, <3>1, <3>3, PaidKept, RefundAssumption
    <3> QED BY <3>4, <3>5 DEF DebitInv
  <2> QED BY <2>1, DebitStep, RefundAssumption
<1>3. Spec => []RefundShape
  BY ShapeHolds
<1> QED BY <1>1, <1>2, <1>3, PTL DEF Spec

(* An item is debited once, for its amount, and marked refunded only when  *)
(* it was debited, whatever approvals overlap, are lost or are repeated.   *)
(* Where no refund is closed unpaid, the channel has made it.              *)
THEOREM DebitedOnceHolds == ASSUME FiniteUser, Closes = {} PROVE Spec => []ItemsDebitedOnce
<1>1. ASSUME RefundShape, DebitInv PROVE ItemsDebitedOnce
  <2> SUFFICES ASSUME NEW q \in Refunds, NEW x \in ItemsOf(q)
               PROVE  /\ \A j, k \in DebitsFor(x) : j = k
                      /\ \A j \in DebitsFor(x) :
                           channel[x] = "done" /\ ledger[j].amount = -ItemAt(x).amount
                      /\ ItemAt(x).status = "refunded" => DebitsFor(x) # {}
    BY DEF ItemsDebitedOnce
  <2>1. \A j, k \in DebitsFor(x) : j = k
    BY <1>1 DEF DebitsFor, DebitInv, RowsInv
  <2>2. x \in ItemIds
    BY <1>1, ItemsAreIds
  <2>3. ASSUME NEW j \in DebitsFor(x)
        PROVE  channel[x] = "done" /\ ledger[j].amount = -ItemAt(x).amount
    <3>1. Debited(x) /\ RefundRow(ledger[j]) /\ ledger[j].ref = x
      BY <1>1, <2>3 DEF DebitsFor, Debited, DebitInv, RowsInv
    <3>2. channel[x] = "done"
      BY <1>1, <2>2, <3>1 DEF DebitInv, ChannelInv, Settled
    <3> QED BY <3>1, <3>2 DEF RefundRow
  <2>4. ItemAt(x).status = "refunded" => DebitsFor(x) # {}
    BY <1>1 DEF DebitInv, MarksInv, Debited, DebitsFor
  <2> QED BY <2>1, <2>3, <2>4
<1> QED BY <1>1, DebitInvHolds, PTL

(* A request is closed as refunded only when each of its items was debited. *)
THEOREM RefundedInFullHolds == ASSUME FiniteUser PROVE Spec => []RefundedInFull
<1>1. DebitInv => RefundedInFull
  BY DEF DebitInv, MarksInv, Debited, DebitsFor, RefundedInFull
<1> QED BY <1>1, DebitInvHolds, PTL

(* The debits of every item, also where channels close refunds: however    *)
(* approvals overlap and are repeated, an item is debited once.            *)
THEOREM DebitedButForClosedHolds == ASSUME FiniteUser PROVE Spec => []DebitedButForClosed
<1>1. ASSUME RefundShape, DebitInv PROVE DebitedButForClosed
  <2> SUFFICES ASSUME NEW q \in Refunds, NEW x \in ItemsOf(q)
               PROVE  /\ \A j, k \in DebitsFor(x) : j = k
                      /\ \A j \in DebitsFor(x) : ledger[j].amount = -ItemAt(x).amount
                      /\ DebitsFor(x) # {} => channel[x] = "done" \/ ItemAt(x).order \in Closes
                      /\ ItemAt(x).status = "refunded" => DebitsFor(x) # {}
    BY DEF DebitedButForClosed
  <2>1. x \in ItemIds
    BY <1>1, ItemsAreIds
  <2>2. \A j, k \in DebitsFor(x) : j = k
    BY <1>1 DEF DebitsFor, DebitInv, RowsInv
  <2>3. ASSUME NEW j \in DebitsFor(x)
        PROVE  ledger[j].amount = -ItemAt(x).amount /\ Debited(x)
    BY <1>1, <2>3 DEF DebitsFor, Debited, RefundRow, DebitInv, RowsInv
  <2>4. Debited(x) => channel[x] = "done" \/ ItemAt(x).order \in Closes
    BY <1>1, <2>1 DEF DebitInv, ChannelInv, Settled
  <2>5. ItemAt(x).status = "refunded" => DebitsFor(x) # {}
    BY <1>1 DEF DebitInv, MarksInv, Debited, DebitsFor
  <2> QED BY <2>2, <2>3, <2>4, <2>5
<1> QED BY <1>1, DebitInvHolds, PTL

-----------------------------------------------------------------------------
(* Orders are not allocated twice where requests are created one after the *)
(* other and none is rejected, however many sessions approve them: a       *)
(* request then counts against its orders from its creation on.  (Two      *)
(* sessions allocate the same order each; a request that is rejected while *)
(* its refund is made does not count any more.)                            *)

OneAtATime == (\A s, t \in Creators : s = t) /\ ~MayReject

(* No order has more allocated to it than it paid. *)
AllocatedWithinOrders == \A o \in Orders : AllocatedTo(o, Counted) <= OrderAmount[o]

DraftFits(draftItems) ==
  /\ \A i, j \in 1 .. Len(draftItems) : draftItems[i].order = draftItems[j].order => i = j
  /\ \A i \in 1 .. Len(draftItems) :
       draftItems[i].amount + AllocatedTo(draftItems[i].order, Counted)
         <= OrderAmount[draftItems[i].order]

NoneRejected ==
  /\ \A q \in Refunds : status[q] # "rejected"
  /\ \A a \in Admins : desk[a] # Idle => desk[a].at # "rejecting"

AllocInv ==
  /\ NoneRejected
  /\ \A s \in Creators : (draft[s] # Idle /\ draft[s].at = "allocated") => DraftFits(draft[s].items)
  /\ AllocatedWithinOrders

AllocatedItems(o) == {x \in ItemsOfAll(Counted) : ItemAt(x).order = o}

LEMMA AllocatedItemsFinite ==
  ASSUME RefundShape, FiniteUser, NEW o
  PROVE  /\ AllocatedTo(o, Counted) = AmountOf(AllocatedItems(o)) /\ AllocatedTo(o, Counted) \in Nat
         /\ IsFiniteSet(AllocatedItems(o))
         /\ \A x \in AllocatedItems(o) :
              /\ x[1] \in Counted /\ x[1] \in Refunds /\ x \in ItemsOf(x[1])
              /\ ItemAt(x).order = o /\ ItemAt(x).amount \in Nat
<1>1. ItemsTyped /\ Counted \in SUBSET Refunds
  BY CountedRequests DEF RefundShape, TypeOK, ItemsTyped
<1>2. AllocatedTo(o, Counted) = AmountOf(AllocatedItems(o))
  BY DEF AllocatedTo, AllocatedItems, ItemsOfAll
<1>3. IsFiniteSet(AllocatedItems(o))
  <2>1. AllocatedItems(o) \subseteq ItemsOfAll(Counted)
    BY DEF AllocatedItems
  <2> QED BY <1>1, <2>1, ItemsOfAllFinite, FS_Subset
<1>4. ASSUME NEW x \in AllocatedItems(o)
      PROVE  /\ x[1] \in Counted /\ x[1] \in Refunds /\ x \in ItemsOf(x[1])
             /\ ItemAt(x).order = o /\ ItemAt(x).amount \in Nat
  <2>1. x \in ItemsOfAll(Counted) /\ ItemAt(x).order = o
    BY DEF AllocatedItems
  <2> QED BY <1>1, <2>1, ItemsOfAllFinite
<1>5. AllocatedTo(o, Counted) \in Nat
  BY <1>1, AllocatedType
<1> QED BY <1>2, <1>3, <1>4, <1>5

LEMMA AmountPart ==
  ASSUME NEW S, IsFiniteSet(S), \A x \in S : ItemAt(x).amount \in Nat, NEW T \in SUBSET S
  PROVE  AmountOf(T) \in Nat /\ AmountOf(T) <= AmountOf(S)
<1> DEFINE f == [y \in S |-> ItemAt(y).amount]
           g == [y \in T |-> ItemAt(y).amount]
<1>1. (\A y \in T : g[y] = f[y]) /\ (\A y \in S : f[y] \in Nat) /\ IsFiniteSet(T)
  BY FS_Subset
<1>2. AmountOf(S) = Sum(f, S) /\ AmountOf(T) = Sum(g, T)
  BY DEF AmountOf
<1> HIDE DEF f, g
<1>3. Sum(g, T) = Sum(f, T)
  BY <1>1, SumEqual
<1> QED BY <1>1, <1>2, <1>3, SumPart

(* No order has more allocated to it after a step that counts no more. *)
LEMMA AllocatedShrinks ==
  ASSUME RefundShape, FiniteUser, ItemsKept, Counted' \subseteq Counted, NEW o
  PROVE  AllocatedTo(o, Counted)' \in Nat /\ AllocatedTo(o, Counted)' <= AllocatedTo(o, Counted)
<1>1. ItemsGrow /\ \A q \in Refunds : ItemsOf(q)' = ItemsOf(q)
  BY KeptGrow
<1>2. PICK S : S = AllocatedItems(o)
  OBVIOUS
<1>3. PICK T : T = AllocatedItems(o)'
  OBVIOUS
<1>4. T \subseteq S
  <2>1. ASSUME NEW x \in T PROVE x \in S
    <3>1. PICK q \in Counted' : x \in ItemsOf(q)' /\ ItemAt(x)'.order = o
      BY <1>3 DEF AllocatedItems, ItemsOfAll
    <3>2. q \in Counted /\ q \in Refunds
      BY <3>1, CountedRequests
    <3>3. x \in ItemsOf(q) /\ ItemAt(x).order = o
      BY <1>1, <3>1, <3>2 DEF ItemsGrow
    <3> QED BY <1>2, <3>2, <3>3 DEF AllocatedItems, ItemsOfAll
  <2> QED BY <2>1
<1>5. \A x \in S : ItemAt(x).amount \in Nat /\ ItemAt(x)'.amount = ItemAt(x).amount
  BY <1>1, <1>2, AllocatedItemsFinite DEF ItemsGrow
<1>6. IsFiniteSet(S) /\ AllocatedTo(o, Counted) = AmountOf(S)
  BY <1>2, AllocatedItemsFinite
<1>7. AllocatedTo(o, Counted)' = AmountOf(T)'
  BY <1>3 DEF AllocatedTo, AllocatedItems, ItemsOfAll
<1>8. AmountOf(T)' = AmountOf(T)
  <2>1. [x \in T |-> ItemAt(x)'.amount] = [x \in T |-> ItemAt(x).amount]
    BY <1>4, <1>5
  <2> QED BY <2>1 DEF AmountOf
<1>9. AmountOf(T) \in Nat /\ AmountOf(T) <= AmountOf(S)
  BY <1>4, <1>5, <1>6, AmountPart
<1> QED BY <1>6, <1>7, <1>8, <1>9

LEMMA AllocatedKept ==
  ASSUME RefundAssumption, FiniteUser, RefundShape, AllocInv, ItemsKept, UNCHANGED draft,
         Counted' \subseteq Counted
  PROVE  /\ \A s \in Creators : (draft'[s] # Idle /\ draft'[s].at = "allocated") => DraftFits(draft[s].items)'
         /\ AllocatedWithinOrders'
<1>1. \A o \in Orders :
        /\ AllocatedTo(o, Counted) \in Nat /\ AllocatedTo(o, Counted)' \in Nat
        /\ AllocatedTo(o, Counted)' <= AllocatedTo(o, Counted) /\ OrderAmount[o] \in Nat
  BY AllocatedShrinks, AllocatedItemsFinite DEF RefundAssumption
<1>2. AllocatedWithinOrders'
  BY <1>1 DEF AllocInv, AllocatedWithinOrders
<1>3. ASSUME NEW s \in Creators, draft[s] # Idle, draft[s].at = "allocated" PROVE DraftFits(draft[s].items)'
  <2>1. PICK seq : seq = draft[s].items
    OBVIOUS
  <2>2. DraftFits(seq) /\ WellFormed(seq)
    BY <1>3, <2>1 DEF AllocInv, RefundShape, ItemsShape
  <2>3. ASSUME NEW i \in 1 .. Len(seq)
        PROVE  seq[i].order \in Orders /\ seq[i].amount \in Nat
    <3>1. seq \in Seq(Items)
      BY <2>2 DEF WellFormed
    <3>2. seq[i] \in Items
      BY <3>1
    <3> QED BY <3>2 DEF Items
  <2>4. \A i \in 1 .. Len(seq) :
          seq[i].amount + AllocatedTo(seq[i].order, Counted) <= OrderAmount[seq[i].order]
    BY <2>2 DEF DraftFits
  <2>5. ASSUME NEW i \in 1 .. Len(seq)
        PROVE  seq[i].amount + AllocatedTo(seq[i].order, Counted)' <= OrderAmount[seq[i].order]
    <3> DEFINE o == seq[i].order
    <3>1. o \in Orders /\ seq[i].amount \in Nat /\ seq[i].amount + AllocatedTo(o, Counted) <= OrderAmount[o]
      BY <2>3, <2>4
    <3> HIDE DEF o
    <3>2. seq[i].amount + AllocatedTo(o, Counted)' <= OrderAmount[o]
      BY <1>1, <3>1
    <3> QED BY <3>2 DEF o
  <2>6. DraftFits(seq)'
    BY <2>2, <2>5 DEF DraftFits
  <2> QED BY <2>1, <2>6 DEF DraftFits
<1> QED BY <1>2, <1>3

(* A step of an administrator's session writes no rejection. *)
LEMMA DeskAllocates ==
  ASSUME RefundAssumption, FiniteUser, RefundShape, AllocInv, ItemsKept, UNCHANGED draft,
         NEW a \in Admins, desk[a].at # "idle",
         \/ UNCHANGED status
         \/ \E now \in {"pending", "processing", "refunded"} : status' = Flushed(a, now),
         \A b \in Admins \ {a} : desk'[b] = desk[b],
         desk'[a] = Idle \/ (desk'[a].refund = desk[a].refund /\ desk'[a].at # "rejecting")
  PROVE  AllocInv'
<1>1. /\ status \in [Refunds -> RefundStatuses] /\ desk[a].refund \in Refunds
      /\ status[desk[a].refund] \in {"pending", "processing", "refunded"}
  BY DeskType DEF RefundShape, TypeOK, AllocInv, NoneRejected, DeskShape, Idle, RefundStatuses
<1>2. /\ Counted' \subseteq Counted
      /\ \A q \in Refunds : status'[q] = "rejected" => status[q] = "rejected"
  BY <1>1 DEF Flushed, Counted
<1>3. NoneRejected'
  <2>1. NoneRejected
    BY DEF AllocInv
  <2> QED BY <1>2, <2>1 DEF NoneRejected, Idle
<1> QED BY <1>2, <1>3, AllocatedKept DEF AllocInv

LEMMA ApprovalAllocates ==
  ASSUME RefundAssumption, FiniteUser, RefundShape, AllocInv, NEW a \in Admins, ApprovalStep(a)
  PROVE  AllocInv'
<1>1. desk[a].at \notin {"idle", "rejecting"} /\ UNCHANGED draft
  BY DEF ApprovalStep, SkipItem, AskChannel, SendRefund, AskAgain, MarkSlow, Debit, RecordItem,
     FailApproval, FinishApproval, HasItem, At, Conclude
<1>2. desk[a] \in Desks /\ DeskShape(a) /\ desk \in [Admins -> Desks \cup {Idle}]
  BY <1>1, DeskType
<1>3. ItemsKept
  <2>1. CASE MarkSlow(a) \/ RecordItem(a)
    <3>1. "processing" \in ItemStatuses /\ "refunded" \in ItemStatuses
      BY DEF ItemStatuses
    <3>2. \/ items' = [items EXCEPT ![desk[a].refund][desk[a].next].status = "processing"]
          \/ items' = [items EXCEPT ![desk[a].refund][desk[a].next].status = "refunded"]
      BY <2>1, Zenon DEF MarkSlow, RecordItem
    <3>3. desk[a].next <= Len(desk[a].seen)
      BY <1>2, <2>1 DEF MarkSlow, RecordItem, At, DeskShape
    <3> QED BY <1>1, <3>1, <3>2, <3>3, MarkKeeps
  <2>2. CASE UNCHANGED items
    BY <2>2, SameItems
  <2> QED BY <2>1, <2>2 DEF ApprovalStep, SkipItem, AskChannel, SendRefund, AskAgain, Debit,
             FailApproval, FinishApproval, Conclude
<1>4. \/ UNCHANGED status
      \/ \E now \in {"pending", "processing", "refunded"} : status' = Flushed(a, now)
  <2>1. CASE Debit(a)
    <3>1. UNCHANGED status \/ status' = Flushed(a, desk[a].now)
      BY <2>1 DEF Debit
    <3>2. desk[a].now = desk[a].base \/ desk[a].now = "processing"
      BY <1>1, <1>2 DEF DeskShape
    <3> QED BY <3>1, <3>2 DEF Flushed
  <2>2. CASE FailApproval(a) \/ FinishApproval(a)
    BY <2>2 DEF FailApproval, FinishApproval, Conclude
  <2>3. CASE MarkSlow(a) \/ RecordItem(a)
    BY <2>3 DEF MarkSlow, RecordItem
  <2> QED BY <2>1, <2>2, <2>3 DEF ApprovalStep, SkipItem, AskChannel, SendRefund, AskAgain
<1>5. /\ \A b \in Admins \ {a} : desk'[b] = desk[b]
      /\ desk'[a] = Idle \/ (desk'[a].refund = desk[a].refund /\ desk'[a].at # "rejecting")
  <2>1. CASE SkipItem(a)
    BY <1>1, <1>2, <2>1 DEF SkipItem, Desks
  <2>2. CASE AskChannel(a) \/ SendRefund(a) \/ AskAgain(a)
    <3>1. Method(a) \in Methods
      BY <1>1, <1>2, <2>2, HeldItem DEF Method, Items, RefundAssumption, AskChannel, SendRefund, AskAgain,
         HasItem, At, DeskShape
    <3>2. \E point \in {"unsent", "unclear", "slow", "paid", "failing"} : desk' = [desk EXCEPT ![a].at = point]
      BY <2>2, <3>1, ResultSteps DEF AskChannel, SendRefund, AskAgain, QueryResults
    <3> QED BY <1>2, <3>2 DEF Desks
  <2>3. CASE MarkSlow(a)
    BY <1>1, <1>2, <2>3 DEF MarkSlow, Desks
  <2>4. CASE RecordItem(a)
    BY <1>1, <1>2, <2>4 DEF RecordItem, Desks
  <2>5. CASE Debit(a)
    BY <1>1, <1>2, <2>5 DEF Debit, Desks
  <2>6. CASE FailApproval(a) \/ FinishApproval(a)
    BY <1>2, <2>6 DEF FailApproval, FinishApproval, Conclude
  <2> QED BY <2>1, <2>2, <2>3, <2>4, <2>5, <2>6 DEF ApprovalStep
<1> QED BY <1>1, <1>3, <1>4, <1>5, DeskAllocates

(* Steps that leave the requests as they are, or only reject one. *)
LEMMA OthersAllocate ==
  ASSUME RefundAssumption, FiniteUser, OneAtATime, RefundShape, AllocInv,
         \/ \E a \in Admins : LoseDesk(a) \/ Reject(a)
         \/ \E a \in Admins, q \in Refunds : LoadApproval(a, q) \/ LoadRejection(a, q)
         \/ \E x \in ItemIds : ChannelCompletes(x) \/ ChannelCloses(x)
         \/ \E m \in Postings : OtherPosting(m)
         \/ UNCHANGED vars
  PROVE  AllocInv'
<1>1. /\ desk \in [Admins -> Desks \cup {Idle}] /\ status \in [Refunds -> RefundStatuses]
      /\ NoneRejected /\ ~MayReject
  BY DEF RefundShape, TypeOK, AllocInv, OneAtATime
<1>2. UNCHANGED <<items, draft>>
  BY DEF LoseDesk, Reject, LoadApproval, LoadRejection, ChannelCompletes, ChannelCloses, OtherPosting,
     Conclude, vars
<1>3. ItemsKept
  BY <1>2, SameItems
<1>4. UNCHANGED status /\ NoneRejected'
  <2>1. CASE UNCHANGED <<status, desk>>
    BY <1>1, <2>1 DEF NoneRejected
  <2>2. ASSUME NEW a \in Admins, LoseDesk(a) PROVE <1>4!:
    BY <1>1, <2>2 DEF LoseDesk, NoneRejected
  <2>3. ASSUME NEW a \in Admins, Reject(a) PROVE FALSE
    BY <1>1, <2>3 DEF Reject, At, NoneRejected
  <2>4. ASSUME NEW a \in Admins, NEW q \in Refunds, LoadApproval(a, q) PROVE <1>4!:
    BY <1>1, <2>4 DEF LoadApproval, NoneRejected
  <2>5. ASSUME NEW a \in Admins, NEW q \in Refunds, LoadRejection(a, q) PROVE FALSE
    BY <1>1, <2>5 DEF LoadRejection
  <2> QED BY <2>1, <2>2, <2>3, <2>4, <2>5 DEF ChannelCompletes, ChannelCloses, OtherPosting, vars
<1>5. Counted' \subseteq Counted
  BY <1>4 DEF Counted
<1> QED BY <1>2, <1>3, <1>4, <1>5, AllocatedKept DEF AllocInv

(* What a new request allocates is what its one item of the order is of. *)
LEMMA CommitAllocates ==
  ASSUME RefundAssumption, FiniteUser, RefundShape, AllocInv, NEW s \in Creators, NEW q \in Refunds,
         CommitRequest(s, q), NEW o \in Orders
  PROVE  AllocatedTo(o, Counted)' <= OrderAmount[o]
<1>1. PICK seq : seq = draft[s].items
  OBVIOUS
<1>2. /\ DraftFits(seq) /\ WellFormed(seq) /\ seq \in Seq(Items) /\ Len(seq) \in Nat
      /\ DOMAIN seq = 1 .. Len(seq)
      /\ items \in [Refunds -> Seq(Items)] /\ items' = [items EXCEPT ![q] = seq]
      /\ status \in [Refunds -> RefundStatuses] /\ status' = [status EXCEPT ![q] = "pending"]
      /\ status[q] = "absent" /\ OrderAmount[o] \in Nat
  BY <1>1 DEF CommitRequest, AllocInv, RefundShape, TypeOK, ItemsShape, WellFormed, RefundAssumption
<1>3. \A i \in 1 .. Len(seq) : seq[i] \in Items /\ seq[i].amount \in Nat
  <2>1. \A i \in 1 .. Len(seq) : seq[i] \in Items
    BY <1>2
  <2> QED BY <2>1 DEF Items
<1>4. PICK S : S = AllocatedItems(o)
  OBVIOUS
<1>5. /\ IsFiniteSet(S) /\ AllocatedTo(o, Counted) = AmountOf(S) /\ AmountOf(S) \in Nat
      /\ \A x \in S : x[1] \in Counted /\ x \in ItemsOf(x[1]) /\ ItemAt(x).amount \in Nat
  BY <1>4, AllocatedItemsFinite
<1>6. /\ Counted' = Counted \cup {q} /\ q \notin Counted
      /\ \A p \in Counted : ItemsOf(p)' = ItemsOf(p) /\ \A x \in ItemsOf(p) : ItemAt(x)' = ItemAt(x)
  BY <1>2 DEF Counted, ItemsOf, ItemAt
<1>7. /\ ItemsOf(q)' = {<<q, i>> : i \in 1 .. Len(seq)}
      /\ \A i \in 1 .. Len(seq) : ItemAt(<<q, i>>)' = seq[i]
  BY <1>2 DEF ItemsOf, ItemAt
<1>8. AllocatedItems(o)' = S \cup {<<q, i>> : i \in {k \in 1 .. Len(seq) : seq[k].order = o}}
  <2>1. AllocatedItems(o)' =
          {x \in UNION {ItemsOf(p)' : p \in Counted'} : ItemAt(x)'.order = o}
    BY DEF AllocatedItems, ItemsOfAll
  <2>2. S = {x \in UNION {ItemsOf(p) : p \in Counted} : ItemAt(x).order = o}
    BY <1>4 DEF AllocatedItems, ItemsOfAll
  <2>3. \A x : x \in AllocatedItems(o)' <=>
          (\E p \in Counted' : x \in ItemsOf(p)') /\ ItemAt(x)'.order = o
    BY <2>1
  <2>4. \A x : x \in S <=> (\E p \in Counted : x \in ItemsOf(p)) /\ ItemAt(x).order = o
    BY <2>2
  <2>5. \A x : (\E p \in Counted : x \in ItemsOf(p)') /\ ItemAt(x)'.order = o <=> x \in S
    BY <1>6, <2>4
  <2>6. \A x : x \in ItemsOf(q)' /\ ItemAt(x)'.order = o <=>
          x \in {<<q, i>> : i \in {k \in 1 .. Len(seq) : seq[k].order = o}}
    BY <1>7
  <2>7. \A x : x \in AllocatedItems(o)' <=>
          x \in S \/ x \in {<<q, i>> : i \in {k \in 1 .. Len(seq) : seq[k].order = o}}
    BY <1>6, <2>3, <2>5, <2>6
  <2> QED BY <2>7
<1>9. AllocatedTo(o, Counted)' = AmountOf(AllocatedItems(o))'
  BY DEF AllocatedTo, AllocatedItems, ItemsOfAll
<1>10. \A x \in S : ItemAt(x)' = ItemAt(x)
  BY <1>5, <1>6
<1>11. CASE \A i \in 1 .. Len(seq) : seq[i].order # o
  <2>1. AllocatedItems(o)' = S
    BY <1>8, <1>11
  <2>2. AmountOf(AllocatedItems(o))' = AmountOf(S)'
    BY <1>4, <2>1 DEF AmountOf
  <2>3. [x \in S |-> ItemAt(x)'.amount] = [x \in S |-> ItemAt(x).amount]
    BY <1>10
  <2>4. AmountOf(S)' = AmountOf(S)
    BY <2>3 DEF AmountOf
  <2> QED BY <1>5, <1>9, <2>2, <2>4 DEF AllocInv, AllocatedWithinOrders
<1>12. CASE \E i \in 1 .. Len(seq) : seq[i].order = o
  <2>1. PICK i \in 1 .. Len(seq) : seq[i].order = o
    BY <1>12
  <2>2. \A k \in 1 .. Len(seq) : seq[k].order = o => k = i
    BY <1>2, <2>1 DEF DraftFits
  <2>3. PICK x : x = <<q, i>>
    OBVIOUS
  <2>4. AllocatedItems(o)' = S \cup {x}
    BY <1>8, <2>1, <2>2, <2>3
  <2>5. x \notin S /\ ItemAt(x)' = seq[i]
    BY <1>5, <1>6, <1>7, <2>3
  <2>6. PICK f : f = [y \in S |-> ItemAt(y).amount]
    OBVIOUS
  <2>7. PICK g : g = [y \in S \cup {x} |-> ItemAt(y)'.amount]
    OBVIOUS
  <2>8. /\ \A y \in S : g[y] = f[y]
        /\ \A y \in S \cup {x} : g[y] \in Int
        /\ g[x] = seq[i].amount
    BY <1>3, <1>5, <1>10, <2>5, <2>6, <2>7
  <2>9. Sum(g, S \cup {x}) = seq[i].amount + Sum(f, S)
    <3>1. Sum(g, S \cup {x}) = g[x] + Sum(f, S)
      <4>1. IsFiniteSet(S)
        BY <1>5
      <4>2. x \notin S
        BY <2>5
      <4>3. \A y \in S : g[y] = f[y]
        BY <2>8
      <4>4. \A y \in S \cup {x} : g[y] \in Int
        BY <2>8
      <4> QED BY ONLY <4>1, <4>2, <4>3, <4>4, SumExtended
    <3> QED BY <2>8, <3>1
  <2>10. AmountOf(AllocatedItems(o))' = Sum(g, S \cup {x}) /\ AmountOf(S) = Sum(f, S)
    BY <2>4, <2>6, <2>7 DEF AmountOf
  <2>11. seq[i].amount + AllocatedTo(o, Counted) <= OrderAmount[o]
    BY <1>2, <2>1 DEF DraftFits
  <2> QED BY <1>5, <1>9, <2>9, <2>10, <2>11
<1> QED BY <1>11, <1>12

LEMMA CreateAllocates ==
  ASSUME RefundAssumption, FiniteUser, OneAtATime, RefundShape, AllocInv, NEW s \in Creators, Create(s)
  PROVE  AllocInv'
<1>1. /\ draft \in [Creators -> Drafts \cup {Idle}] /\ status \in [Refunds -> RefundStatuses]
      /\ \A t \in Creators : t = s
  BY DEF RefundShape, TypeOK, OneAtATime
<1>2. UNCHANGED desk
  BY DEF Create, Summarise, Allocate, LoseDraft, CommitRequest
<1>3. ASSUME UNCHANGED <<status, items>>,
             (draft'[s] # Idle /\ draft'[s].at = "allocated") => DraftFits(draft'[s].items)
      PROVE  AllocInv'
  <2>1. /\ \A o : AllocatedTo(o, Counted)' = AllocatedTo(o, Counted)
        /\ NoneRejected' <=> NoneRejected
    BY <1>2, <1>3 DEF AllocatedTo, AmountOf, ItemAt, ItemsOf, Counted, NoneRejected
  <2>2. (draft'[s] # Idle /\ draft'[s].at = "allocated") => DraftFits(draft[s].items)'
    BY <1>3, <2>1 DEF DraftFits
  <2> QED BY <1>1, <1>2, <2>1, <2>2 DEF AllocInv, AllocatedWithinOrders
<1>4. CASE Summarise(s) \/ LoseDraft(s)
  BY <1>1, <1>3, <1>4 DEF Summarise, LoseDraft, Idle
<1>5. CASE Allocate(s)
  <2>1. UNCHANGED <<status, items>> /\ draft[s].amount \in Nat
    BY <1>1, <1>5 DEF Allocate, Drafts
  <2>2. draft'[s] = Idle \/ draft'[s] = [at |-> "allocated", items |-> Allocation(draft[s].amount)]
    BY <1>1, <1>5 DEF Allocate
  <2>3. PICK seq : seq = Allocation(draft[s].amount)
    OBVIOUS
  <2>4. /\ WellFormed(seq)
        /\ \A i \in 1 .. Len(seq) : seq[i].amount \in 1 .. Available(seq[i].order)
        /\ \A i, j \in 1 .. Len(seq) : seq[i].order = seq[j].order => i = j
    BY <2>1, <2>3, AllocationFits, Z3T(30) DEF RefundShape, TypeOK, ItemsTyped
  <2>5. ASSUME NEW i \in 1 .. Len(seq)
        PROVE  seq[i].amount + AllocatedTo(seq[i].order, Counted) <= OrderAmount[seq[i].order]
    <3> DEFINE o == seq[i].order
    <3>1. o \in Orders
      <4>1. seq \in Seq(Items)
        BY <2>4 DEF WellFormed
      <4>2. seq[i] \in Items
        BY <4>1
      <4> QED BY <4>2 DEF Items
    <3>2. seq[i].amount \in 1 .. Available(o)
      BY <2>4
    <3> HIDE DEF o
    <3>3. /\ Available(o) \in Nat /\ AllocatedTo(o, Counted) \in Nat
          /\ Available(o) > 0 => Available(o) + AllocatedTo(o, Counted) = OrderAmount[o]
      BY <3>1, AvailableType, AllocatedItemsFinite DEF RefundShape, TypeOK, ItemsTyped
    <3>4. seq[i].amount + AllocatedTo(o, Counted) <= OrderAmount[o]
      BY <3>2, <3>3
    <3> QED BY <3>4 DEF o
  <2>6. DraftFits(seq)
    BY <2>4, <2>5 DEF DraftFits
  <2> QED BY <1>3, <2>1, <2>2, <2>3, <2>6 DEF Idle
<1>6. ASSUME NEW q \in Refunds, CommitRequest(s, q) PROVE AllocInv'
  <2>1. AllocatedWithinOrders'
    BY <1>6, CommitAllocates DEF AllocatedWithinOrders
  <2>2. draft'[s] = Idle
    BY <1>1, <1>6 DEF CommitRequest
  <2>3. NoneRejected'
    <3>1. NoneRejected /\ desk' = desk /\ status' = [status EXCEPT ![q] = "pending"]
      BY <1>2, <1>6 DEF AllocInv, CommitRequest
    <3> QED BY <1>1, <3>1 DEF NoneRejected
  <2> QED BY <1>1, <2>1, <2>2, <2>3 DEF AllocInv
<1> QED BY <1>4, <1>5, <1>6 DEF Create

(* Without rejections all items count against their orders. *)
LEMMA RefundsAreAllocated ==
  ASSUME RefundShape, NoneRejected, NEW o PROVE RefundsOf(o) = AllocatedItems(o)
<1>1. status \in [Refunds -> RefundStatuses] /\ Counted \subseteq Refunds
  BY CountedRequests DEF RefundShape, TypeOK
<1>2. ASSUME NEW x \in RefundsOf(o) PROVE x \in AllocatedItems(o)
  <2>1. PICK q \in Refunds : x \in ItemsOf(q) /\ ItemAt(x).order = o
    BY DEF RefundsOf
  <2>2. items[q] # <<>>
    BY <2>1 DEF ItemsOf
  <2>3. status[q] # "absent" /\ status[q] # "rejected"
    BY <2>2 DEF RefundShape, ItemsShape, NoneRejected
  <2>4. q \in Counted
    BY <1>1, <2>3 DEF Counted, RefundStatuses
  <2> QED BY <2>1, <2>4 DEF AllocatedItems, ItemsOfAll
<1>3. ASSUME NEW x \in AllocatedItems(o) PROVE x \in RefundsOf(o)
  <2>1. PICK q \in Counted : x \in ItemsOf(q) /\ ItemAt(x).order = o
    BY DEF AllocatedItems, ItemsOfAll
  <2>2. x[1] = q /\ q \in Refunds
    BY <1>1, <2>1 DEF ItemsOf
  <2>3. status[x[1]] # "rejected"
    BY <2>2 DEF NoneRejected
  <2> QED BY <2>1, <2>2, <2>3 DEF RefundsOf
<1> QED BY <1>2, <1>3

(* What is refunded of an order or is to be is never more than it paid, if *)
(* requests are created one at a time and none is rejected: approvals may  *)
(* run side by side, die and repeat, and answers may be lost.              *)
THEOREM RefundedWithinOrdersHolds ==
  ASSUME FiniteUser, OneAtATime PROVE Spec => []RefundedWithinOrders
<1>1. Init => AllocInv
  <2> SUFFICES ASSUME Init PROVE AllocInv
    OBVIOUS
  <2>1. Counted = {}
    BY DEF Init, Counted
  <2>2. \A o \in Orders : AllocatedTo(o, Counted) = 0 /\ OrderAmount[o] \in Nat
    <3>1. \A o : AllocatedTo(o, Counted) = AmountOf({})
      BY <2>1 DEF AllocatedTo
    <3> QED BY <3>1, AmountEmpty, RefundAssumption DEF RefundAssumption
  <2> QED BY <2>2 DEF Init, AllocInv, AllocatedWithinOrders, NoneRejected, Idle
<1>2. RefundShape /\ AllocInv /\ [Next]_vars => AllocInv'
  <2> SUFFICES ASSUME RefundShape, AllocInv, [Next]_vars PROVE AllocInv'
    OBVIOUS
  <2>1. CASE \E s \in Creators : Create(s)
    BY <2>1, CreateAllocates, RefundAssumption
  <2>2. CASE \E a \in Admins : ApprovalStep(a)
    BY <2>2, ApprovalAllocates, RefundAssumption
  <2> QED BY <2>1, <2>2, OthersAllocate, RefundAssumption DEF Next
<1>3. RefundShape /\ AllocInv => RefundedWithinOrders
  <2> SUFFICES ASSUME RefundShape, AllocInv, NEW o \in Orders
               PROVE  AmountOf(RefundsOf(o)) <= OrderAmount[o]
    BY DEF RefundedWithinOrders
  <2>1. RefundsOf(o) = AllocatedItems(o)
    BY RefundsAreAllocated DEF AllocInv
  <2>2. AllocatedTo(o, Counted) = AmountOf(AllocatedItems(o))
    BY AllocatedItemsFinite
  <2> QED BY <2>1, <2>2 DEF AllocInv, AllocatedWithinOrders
<1> QED BY <1>1, <1>2, <1>3, ShapeHolds, PTL DEF Spec
=============================================================================
