----------------------------- MODULE SumTheorems -----------------------------
(***************************************************************************)
(* Facts about sums.  The library's induction theorems take an operator,   *)
(* which the provers cannot instantiate; its theorem that a well-founded   *)
(* relation has minimal elements does not.  So everything here is proved   *)
(* by a smallest counterexample, first of all that the recursion by which  *)
(* the library folds a set has a solution.                                 *)
(***************************************************************************)
EXTENDS Sums, Integers, FiniteSetTheorems, TLAPS

(* A set of finite sets has a smallest member. *)
LEMMA SmallestSet ==
  ASSUME NEW F, F # {}, \A T \in F : IsFiniteSet(T)
  PROVE  \E T \in F : \A U \in F : U \subseteq T => U = T
<1>1. IsWellFoundedOn(StrictSubsetOrdering(UNION F), FiniteSubsetsOf(UNION F))
  BY FS_StrictSubsetOrderingWellFounded
<1>2. F \subseteq FiniteSubsetsOf(UNION F)
  BY DEF FiniteSubsetsOf
<1>3. PICK T \in F : \A U \in F : <<U, T>> \notin StrictSubsetOrdering(UNION F)
  BY <1>1, <1>2, WFMin, Zenon
<1>4. \A U \in F : U \subseteq T => U = T
  BY <1>3 DEF StrictSubsetOrdering
<1> QED BY <1>4

-----------------------------------------------------------------------------
(* The recursion. *)

Picked(s) == CHOOSE x \in s : TRUE
FoldStep(iter, f, s) == IF s = {} THEN 0 ELSE f[Picked(s)] + iter[s \ {Picked(s)}]
IsFold(iter, f, S) == iter = [s \in SUBSET S |-> FoldStep(iter, f, s)]

LEMMA PickedIsMember == ASSUME NEW s, s # {} PROVE Picked(s) \in s
BY DEF Picked

LEMMA FoldsAgree ==
  ASSUME NEW f, NEW S, NEW T, IsFiniteSet(S), NEW a, NEW b, IsFold(a, f, S), IsFold(b, f, T),
         NEW s \in SUBSET S, s \in SUBSET T
  PROVE  a[s] = b[s]
<1> DEFINE F == {t \in SUBSET s : a[t] # b[t]}
<1> SUFFICES ASSUME F # {} PROVE FALSE
  OBVIOUS
<1>1. \A t \in F : IsFiniteSet(t)
  BY FS_Subset
<1>2. PICK t \in F : \A u \in F : u \subseteq t => u = t
  <2> HIDE DEF F
  <2> QED BY <1>1, SmallestSet
<1>3. /\ a[t] = FoldStep(a, f, t)
      /\ b[t] = FoldStep(b, f, t)
  BY DEF IsFold
<1>4. t # {}
  BY <1>3 DEF FoldStep
<1>5. a[t \ {Picked(t)}] = b[t \ {Picked(t)}]
  <2>1. Picked(t) \in t
    BY <1>4, PickedIsMember
  <2> QED BY <2>1, <1>2
<1> QED BY <1>2, <1>3, <1>5 DEF FoldStep

LEMMA FoldsRestrict ==
  ASSUME NEW f, NEW S, NEW a, IsFold(a, f, S), NEW T \in SUBSET S
  PROVE  IsFold([s \in SUBSET T |-> a[s]], f, T)
<1> DEFINE b == [s \in SUBSET T |-> a[s]]
<1>1. \A s \in SUBSET T : a[s] = FoldStep(a, f, s)
  BY DEF IsFold
<1>2. \A s \in SUBSET T : FoldStep(a, f, s) = FoldStep(b, f, s)
  BY PickedIsMember DEF FoldStep
<1> QED BY <1>1, <1>2 DEF IsFold

LEMMA FoldExists ==
  ASSUME NEW f, NEW S, IsFiniteSet(S)
  PROVE  \E iter : IsFold(iter, f, S)
<1> DEFINE F == {T \in SUBSET S : ~\E iter : IsFold(iter, f, T)}
<1> SUFFICES ASSUME F # {} PROVE FALSE
  OBVIOUS
<1>1. \A T \in F : IsFiniteSet(T)
  BY FS_Subset
<1>2. PICK T \in F : \A U \in F : U \subseteq T => U = T
  <2> HIDE DEF F
  <2> QED BY <1>1, SmallestSet
<1> DEFINE total(s) == (CHOOSE iter : IsFold(iter, f, s))[s]
           value(s) == IF s = {} THEN 0 ELSE f[Picked(s)] + total(s \ {Picked(s)})
           a == [s \in SUBSET T |-> IF s = T THEN value(s) ELSE total(s)]
<1>3. \A s \in SUBSET T : s # T => IsFold(CHOOSE iter : IsFold(iter, f, s), f, s)
  <2> SUFFICES ASSUME NEW s \in SUBSET T, s # T PROVE IsFold(CHOOSE iter : IsFold(iter, f, s), f, s)
    OBVIOUS
  <2>1. \E iter : IsFold(iter, f, s)
    BY <1>2
  <2> QED BY <2>1
<1>4. \A s \in SUBSET T : s # T => total(s) = value(s)
  <2> SUFFICES ASSUME NEW s \in SUBSET T, s # T PROVE total(s) = value(s)
    OBVIOUS
  <2> DEFINE b == CHOOSE iter : IsFold(iter, f, s)
  <2>1. IsFold(b, f, s)
    BY <1>3
  <2>2. b[s] = FoldStep(b, f, s)
    BY <2>1 DEF IsFold
  <2>3. ASSUME s # {} PROVE b[s \ {Picked(s)}] = total(s \ {Picked(s)})
    <3> DEFINE r == s \ {Picked(s)}
               c == CHOOSE iter : IsFold(iter, f, r)
    <3>1. r \in SUBSET s /\ r \in SUBSET T /\ r # T
      BY <2>3, PickedIsMember
    <3>2. IsFold(c, f, r)
      BY <3>1, <1>3
    <3>3. IsFiniteSet(s)
      BY FS_Subset
    <3>4. b[r] = c[r]
      <4> HIDE DEF b, c, r
      <4> QED BY <2>1, <3>1, <3>2, <3>3, FoldsAgree
    <3> QED BY <3>4
  <2> QED BY <2>2, <2>3 DEF FoldStep
<1>5. \A s \in SUBSET T : a[s] = value(s)
  BY <1>4
<1>6. \A s \in SUBSET T : value(s) = FoldStep(a, f, s)
  <2> SUFFICES ASSUME NEW s \in SUBSET T, s # {} PROVE value(s) = FoldStep(a, f, s)
    BY DEF FoldStep
  <2> DEFINE r == s \ {Picked(s)}
  <2>1. Picked(s) \in s
    BY PickedIsMember
  <2>2. r \in SUBSET T /\ r # T
    BY <2>1
  <2>3. a[r] = total(r)
    BY <2>2
  <2> QED BY <2>3 DEF FoldStep
<1>7. IsFold(a, f, T)
  <2> HIDE DEF value
  <2> QED BY <1>5, <1>6 DEF IsFold
<1> QED BY <1>2, <1>7

-----------------------------------------------------------------------------
(* The defining equations of a sum. *)

LEMMA SumFolds ==
  ASSUME NEW f, NEW S, IsFiniteSet(S), NEW a, IsFold(a, f, S)
  PROVE  Sum(f, S) = a[S]
<1> DEFINE b == CHOOSE iter : IsFold(iter, f, S)
<1>1. Sum(f, S) = b[S]
  BY DEF Sum, MapThenSumSet, MapThenFoldSet, IsFold, FoldStep, Picked
<1>2. IsFold(b, f, S)
  OBVIOUS
<1> HIDE DEF b
<1> QED BY <1>1, <1>2, FoldsAgree

LEMMA SumEmpty == ASSUME NEW f PROVE Sum(f, {}) = 0
<1>1. IsFiniteSet({})
  BY FS_EmptySet
<1>2. PICK a : IsFold(a, f, {})
  BY <1>1, FoldExists
<1>3. a[{}] = 0
  BY <1>2 DEF IsFold, FoldStep
<1> QED BY <1>1, <1>2, <1>3, SumFolds

LEMMA SumPicked ==
  ASSUME NEW f, NEW S, IsFiniteSet(S), S # {}
  PROVE  Sum(f, S) = f[Picked(S)] + Sum(f, S \ {Picked(S)})
<1> DEFINE R == S \ {Picked(S)}
<1>1. PICK a : IsFold(a, f, S)
  BY FoldExists
<1>2. Sum(f, S) = a[S]
  BY <1>1, SumFolds
<1>3. a[S] = f[Picked(S)] + a[R]
  BY <1>1 DEF IsFold, FoldStep
<1>4. Sum(f, R) = a[R]
  <2>1. IsFiniteSet(R) /\ R \in SUBSET S
    BY FS_Subset
  <2> DEFINE b == [s \in SUBSET R |-> a[s]]
  <2>2. IsFold(b, f, R)
    BY <1>1, <2>1, FoldsRestrict
  <2>3. b[R] = a[R]
    OBVIOUS
  <2> HIDE DEF b, R
  <2> QED BY <2>1, <2>2, <2>3, SumFolds
<1> QED BY <1>2, <1>3, <1>4
-----------------------------------------------------------------------------
(* What proofs about sums use. *)

LEMMA SumType ==
  ASSUME NEW f, NEW S, IsFiniteSet(S), \A x \in S : f[x] \in Int
  PROVE  Sum(f, S) \in Int
<1> DEFINE F == {T \in SUBSET S : Sum(f, T) \notin Int}
<1> SUFFICES ASSUME F # {} PROVE FALSE
  OBVIOUS
<1>1. \A T \in F : IsFiniteSet(T)
  BY FS_Subset
<1>2. PICK T \in F : \A U \in F : U \subseteq T => U = T
  <2> HIDE DEF F
  <2> QED BY <1>1, SmallestSet
<1>3. T # {}
  BY SumEmpty
<1>4. Picked(T) \in T
  BY <1>3, PickedIsMember
<1>5. Sum(f, T \ {Picked(T)}) \in Int
  BY <1>2, <1>4
<1>6. Sum(f, T) = f[Picked(T)] + Sum(f, T \ {Picked(T)})
  BY <1>1, <1>3, SumPicked
<1> QED BY <1>4, <1>5, <1>6

(* Any member may be taken out, not only the one the fold picks. *)
LEMMA SumRemove ==
  ASSUME NEW f, NEW S, IsFiniteSet(S), \A x \in S : f[x] \in Int, NEW x \in S
  PROVE  Sum(f, S) = f[x] + Sum(f, S \ {x})
<1> DEFINE F == {T \in SUBSET S : \E y \in T : Sum(f, T) # f[y] + Sum(f, T \ {y})}
<1> SUFFICES ASSUME F # {} PROVE FALSE
  OBVIOUS
<1>1. \A T \in F : IsFiniteSet(T)
  BY FS_Subset
<1>2. PICK T \in F : \A U \in F : U \subseteq T => U = T
  <2> HIDE DEF F
  <2> QED BY <1>1, SmallestSet
<1>3. PICK y \in T : Sum(f, T) # f[y] + Sum(f, T \ {y})
  OBVIOUS
<1> DEFINE p == Picked(T)
<1>4. p \in T
  BY <1>3, PickedIsMember
<1>5. Sum(f, T) = f[p] + Sum(f, T \ {p})
  BY <1>1, <1>3, SumPicked
<1>6. p # y
  BY <1>3, <1>5
<1> HIDE DEF p
<1>7. Sum(f, T \ {p}) = f[y] + Sum(f, (T \ {p}) \ {y})
  <2>1. T \ {p} \notin F
    BY <1>2, <1>4
  <2> QED BY <2>1, <1>3, <1>6
<1>8. Sum(f, T \ {y}) = f[p] + Sum(f, (T \ {y}) \ {p})
  <2>1. T \ {y} \notin F
    BY <1>2, <1>3
  <2> QED BY <2>1, <1>4, <1>6
<1>9. (T \ {p}) \ {y} = (T \ {y}) \ {p}
  OBVIOUS
<1>10. Sum(f, (T \ {y}) \ {p}) \in Int
  <2>1. (T \ {y}) \ {p} \in SUBSET S
    OBVIOUS
  <2>2. IsFiniteSet((T \ {y}) \ {p})
    BY <2>1, FS_Subset
  <2>3. \A z \in (T \ {y}) \ {p} : f[z] \in Int
    BY <2>1
  <2> QED BY <2>2, <2>3, SumType
<1>11. f[p] \in Int /\ f[y] \in Int
  BY <1>3, <1>4
<1> HIDE DEF F
<1>12. Sum(f, T) = f[p] + (f[y] + Sum(f, (T \ {y}) \ {p}))
  BY <1>5, <1>7, <1>9
<1>13. Sum(f, T) = f[y] + Sum(f, T \ {y})
  <2>1. f[p] + (f[y] + Sum(f, (T \ {y}) \ {p})) = f[y] + (f[p] + Sum(f, (T \ {y}) \ {p}))
    BY <1>10, <1>11
  <2> QED BY <2>1, <1>8, <1>12
<1> QED BY <1>3, <1>13

LEMMA SumAdd ==
  ASSUME NEW f, NEW S, IsFiniteSet(S), NEW x, x \notin S,
         \A y \in S \cup {x} : f[y] \in Int
  PROVE  Sum(f, S \cup {x}) = f[x] + Sum(f, S)
<1>1. IsFiniteSet(S \cup {x})
  BY FS_AddElement
<1>2. (S \cup {x}) \ {x} = S
  OBVIOUS
<1> QED BY <1>1, <1>2, SumRemove

LEMMA SumEqual ==
  ASSUME NEW f, NEW g, NEW S, IsFiniteSet(S), \A x \in S : f[x] = g[x]
  PROVE  Sum(f, S) = Sum(g, S)
<1> DEFINE F == {T \in SUBSET S : Sum(f, T) # Sum(g, T)}
<1> SUFFICES ASSUME F # {} PROVE FALSE
  OBVIOUS
<1>1. \A T \in F : IsFiniteSet(T)
  BY FS_Subset
<1>2. PICK T \in F : \A U \in F : U \subseteq T => U = T
  <2> HIDE DEF F
  <2> QED BY <1>1, SmallestSet
<1>3. T # {}
  BY SumEmpty
<1>4. Picked(T) \in T
  BY <1>3, PickedIsMember
<1>5. Sum(f, T \ {Picked(T)}) = Sum(g, T \ {Picked(T)})
  BY <1>2, <1>4
<1>6. /\ Sum(f, T) = f[Picked(T)] + Sum(f, T \ {Picked(T)})
      /\ Sum(g, T) = g[Picked(T)] + Sum(g, T \ {Picked(T)})
  BY <1>1, <1>3, SumPicked
<1>7. Sum(f, T) # Sum(g, T)
  OBVIOUS
<1>8. f[Picked(T)] = g[Picked(T)]
  BY <1>4
<1> HIDE DEF F
<1> QED BY <1>5, <1>6, <1>7, <1>8

(* One more member, under a function that agrees on the others. *)
LEMMA SumExtended ==
  ASSUME NEW f, NEW g, NEW S, IsFiniteSet(S), NEW x, x \notin S,
         \A y \in S : g[y] = f[y], \A y \in S \cup {x} : g[y] \in Int
  PROVE  Sum(g, S \cup {x}) = g[x] + Sum(f, S)
BY SumAdd, SumEqual

(* A part of the set sums up to no more, if no value is negative. *)
LEMMA SumPart ==
  ASSUME NEW f, NEW S, IsFiniteSet(S), \A x \in S : f[x] \in Nat, NEW T \in SUBSET S
  PROVE  Sum(f, T) \in Nat /\ Sum(f, T) <= Sum(f, S)
<1> DEFINE F == {U \in SUBSET S : \E V \in SUBSET U : ~(Sum(f, V) \in Nat /\ Sum(f, V) <= Sum(f, U))}
<1> SUFFICES ASSUME F # {} PROVE FALSE
  OBVIOUS
<1>1. \A U \in F : IsFiniteSet(U)
  BY FS_Subset
<1>2. PICK U \in F : \A V \in F : V \subseteq U => V = U
  <2> HIDE DEF F
  <2> QED BY <1>1, SmallestSet
<1>3. PICK V \in SUBSET U : ~(Sum(f, V) \in Nat /\ Sum(f, V) <= Sum(f, U))
  OBVIOUS
<1>4. U # {}
  BY <1>3, SumEmpty
<1>5. PICK x \in U : V = U \/ V \subseteq U \ {x}
  BY <1>4
<1> DEFINE W == U \ {x}
<1>6. /\ W \notin F
      /\ W \in SUBSET S
  BY <1>2
<1>7. \A X \in SUBSET W : Sum(f, X) \in Nat /\ Sum(f, X) <= Sum(f, W)
  BY <1>6
<1>8. Sum(f, U) = f[x] + Sum(f, W)
  BY <1>1, SumRemove
<1>9. f[x] \in Nat
  OBVIOUS
<1> HIDE DEF F, W
<1>10. CASE V = U
  BY <1>3, <1>7, <1>8, <1>9, <1>10
<1>11. CASE V \subseteq W
  BY <1>3, <1>7, <1>8, <1>9, <1>11
<1> QED BY <1>5, <1>10, <1>11 DEF W

LEMMA SumNat ==
  ASSUME NEW f, NEW S, IsFiniteSet(S), \A x \in S : f[x] \in Nat
  PROVE  Sum(f, S) \in Nat
BY SumPart

(* ... and to less, if what is missing has a positive value. *)
LEMMA SumPartOfAll ==
  ASSUME NEW f, NEW S, IsFiniteSet(S), \A x \in S : f[x] \in Nat \ {0}, NEW T \in SUBSET S,
         Sum(f, T) >= Sum(f, S)
  PROVE  T = S
<1> SUFFICES ASSUME NEW x \in S, x \notin T PROVE FALSE
  OBVIOUS
<1>1. IsFiniteSet(S \ {x})
  BY FS_RemoveElement
<1>2. Sum(f, T) <= Sum(f, S \ {x}) /\ Sum(f, T) \in Nat
  BY <1>1, SumPart
<1>3. Sum(f, S \ {x}) \in Nat
  BY <1>1, SumNat
<1>4. Sum(f, S) = f[x] + Sum(f, S \ {x})
  BY SumRemove
<1> QED BY <1>2, <1>3, <1>4

LEMMA SumOfSums ==
  ASSUME NEW f, NEW g, NEW h, NEW S, IsFiniteSet(S),
         \A x \in S : f[x] \in Int /\ g[x] \in Int /\ h[x] = f[x] + g[x]
  PROVE  Sum(h, S) = Sum(f, S) + Sum(g, S)
<1> DEFINE F == {T \in SUBSET S : Sum(h, T) # Sum(f, T) + Sum(g, T)}
<1> SUFFICES ASSUME F # {} PROVE FALSE
  OBVIOUS
<1>1. \A T \in F : IsFiniteSet(T)
  BY FS_Subset
<1>2. PICK T \in F : \A U \in F : U \subseteq T => U = T
  <2> HIDE DEF F
  <2> QED BY <1>1, SmallestSet
<1>3. T # {}
  <2>1. Sum(f, {}) = 0 /\ Sum(g, {}) = 0 /\ Sum(h, {}) = 0
    BY SumEmpty
  <2>2. {} \notin F
    BY <2>1
  <2> QED BY <2>2
<1> DEFINE x == Picked(T)
           R == T \ {x}
<1>4. x \in T
  BY <1>3, PickedIsMember
<1>5. Sum(h, R) = Sum(f, R) + Sum(g, R)
  BY <1>2, <1>4
<1>6. /\ Sum(h, T) = h[x] + Sum(h, R)
      /\ Sum(f, T) = f[x] + Sum(f, R)
      /\ Sum(g, T) = g[x] + Sum(g, R)
  BY <1>1, <1>3, SumPicked
<1>7. Sum(f, R) \in Int /\ Sum(g, R) \in Int
  <2>1. R \in SUBSET S
    OBVIOUS
  <2>2. IsFiniteSet(R)
    BY <2>1, FS_Subset
  <2>3. \A y \in R : f[y] \in Int /\ g[y] \in Int
    BY <2>1
  <2> HIDE DEF R
  <2> QED BY <2>2, <2>3, SumType
<1>8. Sum(h, T) # Sum(f, T) + Sum(g, T)
  OBVIOUS
<1>9. f[x] \in Int /\ g[x] \in Int /\ h[x] = f[x] + g[x]
  BY <1>4
<1> HIDE DEF x, R, F
<1> QED BY <1>5, <1>6, <1>7, <1>8, <1>9

(* Two parts that share nothing. *)
LEMMA SumUnion ==
  ASSUME NEW f, NEW S, IsFiniteSet(S), NEW T, IsFiniteSet(T), S \cap T = {},
         \A x \in S \cup T : f[x] \in Int
  PROVE  Sum(f, S \cup T) = Sum(f, S) + Sum(f, T)
<1> DEFINE F == {U \in SUBSET T : Sum(f, S \cup U) # Sum(f, S) + Sum(f, U)}
<1> SUFFICES ASSUME F # {} PROVE FALSE
  OBVIOUS
<1>1. \A U \in F : IsFiniteSet(U)
  BY FS_Subset
<1>2. PICK U \in F : \A V \in F : V \subseteq U => V = U
  <2> HIDE DEF F
  <2> QED BY <1>1, SmallestSet
<1>3. Sum(f, S) \in Int
  BY SumType
<1>4. U # {}
  <2>1. Sum(f, {}) = 0
    BY SumEmpty
  <2>2. S \cup {} = S
    OBVIOUS
  <2>3. {} \notin F
    BY <2>1, <2>2, <1>3
  <2> QED BY <2>3
<1> DEFINE x == Picked(U)
           V == U \ {x}
<1>5. x \in U
  BY <1>4, PickedIsMember
<1>6. Sum(f, S \cup V) = Sum(f, S) + Sum(f, V)
  BY <1>2, <1>5
<1>7. Sum(f, U) = f[x] + Sum(f, V)
  BY <1>1, <1>4, SumPicked
<1>8. Sum(f, S \cup U) = f[x] + Sum(f, S \cup V)
  <2>1. IsFiniteSet(S \cup U)
    BY <1>1, FS_Union
  <2>2. (S \cup U) \ {x} = S \cup V
    BY <1>5
  <2>3. \A y \in S \cup U : f[y] \in Int
    OBVIOUS
  <2>4. x \in S \cup U
    BY <1>5
  <2> HIDE DEF x, V, F
  <2>5. Sum(f, S \cup U) = f[x] + Sum(f, (S \cup U) \ {x})
    BY ONLY <2>1, <2>3, <2>4, SumRemove
  <2> QED BY <2>2, <2>5
<1>9. Sum(f, V) \in Int
  <2>1. IsFiniteSet(V) /\ \A y \in V : f[y] \in Int
    BY <1>1, FS_Subset
  <2> HIDE DEF V
  <2> QED BY <2>1, SumType
<1>10. f[x] \in Int /\ Sum(f, S \cup U) # Sum(f, S) + Sum(f, U)
  BY <1>5
<1> HIDE DEF x, V, F
<1> QED BY <1>3, <1>6, <1>7, <1>8, <1>9, <1>10

(* The same terms under other names. *)
LEMMA SumImage ==
  ASSUME NEW f, NEW g, NEW S, IsFiniteSet(S), NEW T, NEW m \in Bijection(S, T),
         \A x \in S : g[x] \in Int /\ f[m[x]] = g[x]
  PROVE  Sum(g, S) = Sum(f, T)
<1> DEFINE image(U) == {m[x] : x \in U}
           F == {U \in SUBSET S : Sum(g, U) # Sum(f, image(U))}
<1>1. image(S) = T
  BY DEF Bijection, Surjection
<1> SUFFICES ASSUME F # {} PROVE FALSE
  BY <1>1
<1>2. \A U \in F : IsFiniteSet(U)
  BY FS_Subset
<1>3. PICK U \in F : \A V \in F : V \subseteq U => V = U
  <2> HIDE DEF F
  <2> QED BY <1>2, SmallestSet
<1>4. U # {}
  <2>1. Sum(g, {}) = 0 /\ Sum(f, {}) = 0
    BY SumEmpty
  <2>2. image({}) = {}
    OBVIOUS
  <2>3. {} \notin F
    BY <2>1, <2>2
  <2> QED BY <2>3
<1> DEFINE x == Picked(U)
           V == U \ {x}
<1>5. x \in U /\ x \in S
  BY <1>4, PickedIsMember
<1>6. Sum(g, V) = Sum(f, image(V))
  BY <1>3, <1>5
<1>7. Sum(g, U) = g[x] + Sum(g, V)
  BY <1>2, <1>4, SumPicked
<1>8. Sum(f, image(U)) = f[m[x]] + Sum(f, image(V))
  <2>1. m[x] \in image(U)
    BY <1>5
  <2>2. image(U) \ {m[x]} = image(V)
    <3>1. \A y \in U : m[y] = m[x] => y = x
      BY <1>5 DEF Bijection, Injection, IsInjective
    <3> HIDE DEF x
    <3> QED BY <3>1
  <2>3. IsFiniteSet(image(U))
    <3> DEFINE r == [y \in U |-> m[y]]
    <3>1. r \in Surjection(U, image(U))
      BY DEF Surjection
    <3> HIDE DEF r
    <3> QED BY <3>1, <1>2, FS_Surjection
  <2>4. \A y \in image(U) : f[y] \in Int
    OBVIOUS
  <2> HIDE DEF x, V, F, image
  <2>5. Sum(f, image(U)) = f[m[x]] + Sum(f, image(U) \ {m[x]})
    BY ONLY <2>1, <2>3, <2>4, SumRemove
  <2> QED BY <2>2, <2>5
<1>9. f[m[x]] = g[x] /\ Sum(g, U) # Sum(f, image(U))
  BY <1>5
<1> HIDE DEF x, V, F, image
<1> QED BY <1>6, <1>7, <1>8, <1>9
=============================================================================
