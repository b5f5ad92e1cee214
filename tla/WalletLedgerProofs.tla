------------------------- MODULE WalletLedgerProofs -------------------------
(***************************************************************************)
(* The wallet's promise, proved for every set of users and every bound:    *)
(* the ledger explains the balance, and a reference is settled once.       *)
(***************************************************************************)
EXTENDS WalletLedger, TLAPS

(* The row Post appends. *)
NewRow(u, type, ref, amount) ==
  [type |-> type, ref |-> ref, amount |-> amount, after |-> balance[u] + amount]

(* Posting changes the account and the ledger of one user, by one row. *)
LEMMA PostEffect ==
  ASSUME TypeOK, NEW u \in Users, NEW type \in RowTypes, NEW ref \in References,
         NEW amount \in Amounts, Post(u, type, ref, amount)
  PROVE  /\ balance[u] + amount \in Nat
         /\ NewRow(u, type, ref, amount) \in Rows
         /\ balance' = [balance EXCEPT ![u] = balance[u] + amount]
         /\ ledger' = [ledger EXCEPT ![u] = Append(ledger[u], NewRow(u, type, ref, amount))]
         /\ \A v \in Users : v # u => ledger'[v] = ledger[v] /\ balance'[v] = balance[v]
         /\ ledger[u] \in Seq(Rows)
         /\ Len(ledger'[u]) = Len(ledger[u]) + 1
         /\ \A i \in 1 .. Len(ledger[u]) : ledger'[u][i] = ledger[u][i]
         /\ ledger'[u][Len(ledger[u]) + 1] = NewRow(u, type, ref, amount)
<1>1. balance[u] \in Nat /\ amount \in Int
  BY WalletAssumption DEF TypeOK
<1>2. balance[u] + amount \in Nat
  BY <1>1 DEF Post
<1>3. NewRow(u, type, ref, amount) \in Rows
  BY <1>2 DEF NewRow, Rows
<1>4. /\ balance' = [balance EXCEPT ![u] = balance[u] + amount]
      /\ ledger' = [ledger EXCEPT ![u] = Append(ledger[u], NewRow(u, type, ref, amount))]
  BY DEF Post, NewRow
<1>5. ledger[u] \in Seq(Rows)
  BY DEF TypeOK
<1>6. ledger'[u] = Append(ledger[u], NewRow(u, type, ref, amount))
  BY <1>4 DEF TypeOK
<1>7. \A v \in Users : v # u => ledger'[v] = ledger[v] /\ balance'[v] = balance[v]
  BY <1>4 DEF TypeOK
<1>8. /\ Len(ledger'[u]) = Len(ledger[u]) + 1
      /\ \A i \in 1 .. Len(ledger[u]) : ledger'[u][i] = ledger[u][i]
      /\ ledger'[u][Len(ledger[u]) + 1] = NewRow(u, type, ref, amount)
  BY <1>3, <1>5, <1>6
<1>9. QED BY <1>2, <1>3, <1>4, <1>5, <1>7, <1>8

(* Balances are never negative and rows are well formed. *)
THEOREM TypeCorrect == Spec => []TypeOK
<1>1. Init => TypeOK
  BY WalletAssumption DEF Init, TypeOK
<1>2. TypeOK /\ [Next]_walletVars => TypeOK'
  <2> SUFFICES ASSUME TypeOK, [Next]_walletVars PROVE TypeOK'
    OBVIOUS
  <2>1. CASE Next
    <3>1. PICK u \in Users, type \in RowTypes, ref \in References, amount \in Amounts :
            Post(u, type, ref, amount)
      BY <2>1 DEF Next
    <3>2. balance' \in [Users -> Nat]
      BY <3>1, PostEffect DEF TypeOK
    <3>3. Append(ledger[u], NewRow(u, type, ref, amount)) \in Seq(Rows)
      BY <3>1, PostEffect
    <3>4. ledger' \in [Users -> Seq(Rows)]
      <4>1. ledger' = [ledger EXCEPT ![u] = Append(ledger[u], NewRow(u, type, ref, amount))]
        BY <3>1, PostEffect
      <4>2. ledger \in [Users -> Seq(Rows)]
        BY DEF TypeOK
      <4> HIDE DEF NewRow
      <4>3. QED BY <3>3, <4>1, <4>2
    <3>5. QED BY <3>2, <3>4 DEF TypeOK
  <2>2. CASE UNCHANGED walletVars
    BY <2>2 DEF TypeOK, walletVars
  <2>3. QED BY <2>1, <2>2
<1>3. QED BY <1>1, <1>2, PTL DEF Spec

(* Every row continues the balance before it and the account holds what    *)
(* the last row left: no balance update is lost.                           *)
THEOREM ChainCorrect == Spec => []LedgerChain
<1>1. Init => LedgerChain
  <2> SUFFICES ASSUME Init, NEW u \in Users
               PROVE  /\ \A i \in DOMAIN ledger[u] :
                           ledger[u][i].after = Before(u, i) + ledger[u][i].amount
                      /\ balance[u] = Before(u, Len(ledger[u]) + 1)
    BY DEF LedgerChain
  <2>1. ledger[u] = <<>> /\ balance[u] = InitialBalance[u]
    BY WalletAssumption DEF Init
  <2>2. DOMAIN ledger[u] = {} /\ Len(ledger[u]) + 1 = 1
    BY <2>1
  <2>3. QED BY <2>1, <2>2 DEF Before
<1>2. TypeOK /\ LedgerChain /\ [Next]_walletVars => LedgerChain'
  <2> SUFFICES ASSUME TypeOK, LedgerChain, [Next]_walletVars PROVE LedgerChain'
    OBVIOUS
  <2>1. CASE Next
    <3>1. PICK u \in Users, type \in RowTypes, ref \in References, amount \in Amounts :
            Post(u, type, ref, amount)
      BY <2>1 DEF Next
    <3> DEFINE n == Len(ledger[u])
               row == NewRow(u, type, ref, amount)
    <3>2. /\ ledger[u] \in Seq(Rows)
          /\ n \in Nat
          /\ DOMAIN ledger[u] = 1 .. n
          /\ \A i \in 1 .. n : ledger[u][i] \in Rows
      BY DEF TypeOK
    <3>3. ledger'[u] \in Seq(Rows) /\ Len(ledger'[u]) = n + 1 /\ DOMAIN ledger'[u] = 1 .. (n + 1)
      <4>1. ledger'[u] = Append(ledger[u], row)
        BY <3>1, PostEffect DEF TypeOK
      <4>2. row \in Rows
        BY <3>1, PostEffect
      <4>3. QED BY <4>1, <4>2, <3>2
    <3>4. \A i \in 1 .. (n + 1) : Before(u, i)' = Before(u, i)
      <4> TAKE i \in 1 .. (n + 1)
      <4>1. CASE i = 1
        BY <4>1 DEF Before
      <4>2. CASE i # 1
        <5>1. i - 1 \in 1 .. n
          BY <4>2, <3>2
        <5>2. ledger'[u][i - 1] = ledger[u][i - 1]
          BY <5>1, <3>1, PostEffect
        <5>3. QED BY <4>2, <5>2 DEF Before
      <4>3. QED BY <4>1, <4>2
    <3>5. balance[u] = Before(u, n + 1)
      BY DEF LedgerChain
    <3>6. ledger'[u][n + 1] = row /\ row.after = balance[u] + amount /\ row.amount = amount
      BY <3>1, PostEffect DEF NewRow
    <3>7. \A i \in 1 .. (n + 1) :
            ledger'[u][i].after = Before(u, i)' + ledger'[u][i].amount
      <4> TAKE i \in 1 .. (n + 1)
      <4>1. CASE i = n + 1
        BY <4>1, <3>4, <3>5, <3>6
      <4>2. CASE i # n + 1
        <5>1. i \in 1 .. n
          BY <4>2, <3>2
        <5>2. ledger[u][i].after = Before(u, i) + ledger[u][i].amount
          BY <5>1, <3>2 DEF LedgerChain
        <5>3. ledger'[u][i] = ledger[u][i]
          BY <5>1, <3>1, PostEffect
        <5>4. QED BY <5>2, <5>3, <3>4
      <4>3. QED BY <4>1, <4>2
    <3>8. balance'[u] = Before(u, Len(ledger[u]) + 1)'
      <4>1. balance'[u] = balance[u] + amount
        BY <3>1, PostEffect DEF TypeOK
      <4>2. Before(u, Len(ledger[u]) + 1)' = ledger'[u][n + 1].after
        <5>1. Len(ledger'[u]) + 1 # 1 /\ (Len(ledger'[u]) + 1) - 1 = n + 1
          BY <3>2, <3>3
        <5>2. QED BY <5>1 DEF Before
      <4>3. QED BY <4>1, <4>2, <3>6
    <3>9. ASSUME NEW v \in Users, v # u
          PROVE  /\ \A i \in DOMAIN ledger'[v] :
                      ledger'[v][i].after = Before(v, i)' + ledger'[v][i].amount
                 /\ balance'[v] = Before(v, Len(ledger[v]) + 1)'
      <4>1. ledger'[v] = ledger[v] /\ balance'[v] = balance[v]
        BY <3>1, <3>9, PostEffect
      <4>2. \A i : Before(v, i)' = Before(v, i)
        BY <4>1 DEF Before
      <4>3. Before(v, Len(ledger[v]) + 1)' = Before(v, Len(ledger[v]) + 1)
        BY <4>1 DEF Before
      <4>4. QED BY <4>1, <4>2, <4>3 DEF LedgerChain
    <3>10. QED
      BY <3>3, <3>7, <3>8, <3>9 DEF LedgerChain
  <2>2. CASE UNCHANGED walletVars
    BY <2>2 DEF LedgerChain, Before, walletVars
  <2>3. QED BY <2>1, <2>2
<1>3. QED BY <1>1, <1>2, TypeCorrect, PTL DEF Spec

(* A (type, reference) is posted at most once, by whichever user.          *)
THEOREM ReferenceCorrect == Spec => []UniqueReference
<1>1. Init => UniqueReference
  BY DEF Init, UniqueReference
<1>2. TypeOK /\ UniqueReference /\ [Next]_walletVars => UniqueReference'
  <2> SUFFICES ASSUME TypeOK, UniqueReference, [Next]_walletVars PROVE UniqueReference'
    OBVIOUS
  <2>1. CASE Next
    <3>1. PICK u \in Users, type \in RowTypes, ref \in References, amount \in Amounts :
            Post(u, type, ref, amount)
      BY <2>1 DEF Next
    <3> DEFINE n == Len(ledger[u])
               row == NewRow(u, type, ref, amount)
    <3>2. ledger'[u] = Append(ledger[u], row) /\ row \in Rows /\ ledger[u] \in Seq(Rows)
      BY <3>1, PostEffect DEF TypeOK
    <3>3. n \in Nat /\ DOMAIN ledger[u] = 1 .. n /\ DOMAIN ledger'[u] = 1 .. (n + 1)
      BY <3>2
    <3>4. ASSUME NEW v \in Users, NEW i \in DOMAIN ledger'[v]
          PROVE  \/ i \in DOMAIN ledger[v] /\ ledger'[v][i] = ledger[v][i]
                 \/ v = u /\ i = n + 1 /\ ledger'[v][i] = row
      <4>1. CASE v # u
        BY <4>1, <3>1, PostEffect
      <4>2. CASE v = u
        <5>1. i \in 1 .. n \/ i = n + 1
          BY <4>2, <3>3
        <5>2. QED BY <4>2, <5>1, <3>1, <3>3, PostEffect
      <4>3. QED BY <4>1, <4>2
    <3>5. ASSUME NEW v \in Users, NEW i \in DOMAIN ledger[v]
          PROVE  ~(ledger[v][i].type = row.type /\ ledger[v][i].ref = row.ref)
      BY <3>1 DEF Post, Posted, NewRow
    <3>6. ASSUME NEW v \in Users, NEW w \in Users,
                 NEW i \in DOMAIN ledger'[v], NEW j \in DOMAIN ledger'[w],
                 ledger'[v][i].type = ledger'[w][j].type, ledger'[v][i].ref = ledger'[w][j].ref
          PROVE  v = w /\ i = j
      <4>1. CASE i \in DOMAIN ledger[v] /\ ledger'[v][i] = ledger[v][i]
        <5>1. CASE j \in DOMAIN ledger[w] /\ ledger'[w][j] = ledger[w][j]
          BY <4>1, <5>1, <3>6 DEF UniqueReference
        <5>2. CASE w = u /\ j = n + 1 /\ ledger'[w][j] = row
          BY <4>1, <5>2, <3>5, <3>6
        <5>3. QED BY <5>1, <5>2, <3>4
      <4>2. CASE v = u /\ i = n + 1 /\ ledger'[v][i] = row
        <5>1. CASE j \in DOMAIN ledger[w] /\ ledger'[w][j] = ledger[w][j]
          BY <4>2, <5>1, <3>5, <3>6
        <5>2. CASE w = u /\ j = n + 1 /\ ledger'[w][j] = row
          BY <4>2, <5>2
        <5>3. QED BY <5>1, <5>2, <3>4
      <4>3. QED BY <4>1, <4>2, <3>4
    <3>7. QED BY <3>6 DEF UniqueReference
  <2>2. CASE UNCHANGED walletVars
    BY <2>2 DEF UniqueReference, walletVars
  <2>3. QED BY <2>1, <2>2
<1>3. QED BY <1>1, <1>2, TypeCorrect, PTL DEF Spec
=============================================================================
