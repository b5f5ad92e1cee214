-------------------------- MODULE StreamUsageProofs --------------------------
(***************************************************************************)
(* That a stream cut anywhere is read as the whole: the bytes of a stream, *)
(* the bytes a reader keeps of it, and one chunk after another.            *)
(***************************************************************************)
EXTENDS StreamUsage, SumTheorems, SequenceTheorems

(* A set of naturals has a least and, if it is bounded, a greatest member. *)
LEMMA LeastNumber ==
  ASSUME NEW S \in SUBSET Nat, S # {}
  PROVE  \E n \in S : \A m \in S : n <= m
<1> DEFINE F == {1 .. n : n \in S}
<1>1. \A T \in F : IsFiniteSet(T)
  BY FS_Interval
<1>2. PICK T \in F : \A U \in F : U \subseteq T => U = T
  <2>1. F # {}
    OBVIOUS
  <2> HIDE DEF F
  <2> QED BY <1>1, <2>1, SmallestSet
<1>3. PICK n \in S : T = 1 .. n
  OBVIOUS
<1>4. \A m \in S : n <= m
  <2> SUFFICES ASSUME NEW m \in S, m < n PROVE FALSE
    OBVIOUS
  <2>1. 1 .. m \subseteq T
    BY <1>3
  <2>2. 1 .. m = 1 .. n
    BY <1>2, <1>3, <2>1
  <2>3. n \in 1 .. n /\ n \notin 1 .. m
    OBVIOUS
  <2> QED BY <2>2, <2>3
<1> QED BY <1>4

LEMMA MaxOf ==
  ASSUME NEW n \in Nat, NEW S \in SUBSET (0 .. n), S # {}
  PROVE  Max(S) \in S /\ \A m \in S : m <= Max(S)
<1> DEFINE D == {n - m : m \in S}
<1>1. PICK d \in D : \A e \in D : d <= e
  <2>1. D \in SUBSET Nat
    <3> SUFFICES ASSUME NEW m \in S PROVE n - m \in Nat
      OBVIOUS
    <3>1. m \in 0 .. n
      OBVIOUS
    <3> QED BY <3>1
  <2>2. D # {}
    OBVIOUS
  <2> HIDE DEF D
  <2> QED BY <2>1, <2>2, LeastNumber
<1>2. PICK m \in S : d = n - m
  BY <1>1
<1>3. \A k \in S : m >= k
  <2> SUFFICES ASSUME NEW k \in S PROVE m >= k
    OBVIOUS
  <2>1. n - m <= n - k
    BY <1>1, <1>2
  <2> QED BY <2>1
<1>4. \E x \in S : \A y \in S : x >= y
  BY <1>3
<1>5. Max(S) \in S /\ \A y \in S : Max(S) >= y
  BY <1>4 DEF Max
<1> QED BY <1>5

-----------------------------------------------------------------------------
(* The bytes of a stream.                                                  *)

Parts == {"head", "lead", "continued", "tail", "feed"}
Bytes == [line : Nat, part : Parts]

(* The library's flattening, line by line. *)
FlattenStep(flat, seqs, i) == IF i = 1 THEN seqs[i] ELSE flat[i - 1] \o seqs[i]
IsFlat(flat, seqs, n) == flat = [i \in 1 .. n |-> FlattenStep(flat, seqs, i)]

LEMMA FlatExists ==
  ASSUME NEW seqs, NEW n \in Nat \ {0}
  PROVE  \E flat : IsFlat(flat, seqs, n)
<1> DEFINE F == {k \in Nat \ {0} : ~\E flat : IsFlat(flat, seqs, k)}
<1> SUFFICES ASSUME F # {} PROVE FALSE
  OBVIOUS
<1>1. PICK k \in F : \A m \in F : k <= m
  <2>1. F \in SUBSET Nat
    OBVIOUS
  <2> HIDE DEF F
  <2> QED BY <2>1, LeastNumber
<1>2. CASE k = 1
  <2> DEFINE one == [i \in 1 .. 1 |-> seqs[i]]
  <2>1. IsFlat(one, seqs, 1)
    BY DEF IsFlat, FlattenStep
  <2> QED BY <2>1, <1>2
<1>3. CASE k # 1
  <2>1. k - 1 \in Nat \ {0} /\ k - 1 \notin F
    BY <1>1, <1>3
  <2>2. PICK flat : IsFlat(flat, seqs, k - 1)
    BY <2>1
  <2> DEFINE more == [i \in 1 .. k |-> FlattenStep(flat, seqs, i)]
  <2>3. \A i \in 1 .. k - 1 : flat[i] = FlattenStep(flat, seqs, i)
    BY <2>2 DEF IsFlat
  <2>4. \A i \in 1 .. k - 1 : more[i] = flat[i]
    BY <2>3
  <2>5. \A i \in 1 .. k : FlattenStep(flat, seqs, i) = FlattenStep(more, seqs, i)
    <3> SUFFICES ASSUME NEW i \in 1 .. k, i # 1
                 PROVE  FlattenStep(flat, seqs, i) = FlattenStep(more, seqs, i)
      BY DEF FlattenStep
    <3>1. i - 1 \in 1 .. k - 1
      OBVIOUS
    <3>2. flat[i - 1] = more[i - 1]
      BY <2>4, <3>1
    <3> QED BY <3>2, Zenon DEF FlattenStep
  <2>6. IsFlat(more, seqs, k)
    BY <2>5 DEF IsFlat
  <2> QED BY <2>6
<1> QED BY <1>2, <1>3

LEMMA FlattenIsFlat ==
  ASSUME NEW S, NEW seqs \in Seq(S), Len(seqs) > 0
  PROVE  \E flat : IsFlat(flat, seqs, Len(seqs)) /\ FlattenSeq(seqs) = flat[Len(seqs)]
<1> DEFINE flat == CHOOSE f : IsFlat(f, seqs, Len(seqs))
<1>1. IsFlat(flat, seqs, Len(seqs))
  BY FlatExists, LenProperties
<1>2. FlattenSeq(seqs) = flat[Len(seqs)]
  BY DEF FlattenSeq, IsFlat, FlattenStep
<1> QED BY <1>1, <1>2

(* What follows what. *)
Follows(x, y) ==
  /\ x.part = "feed" => y.part = "head" /\ y.line = x.line + 1
  /\ x.part # "feed" => y.part # "head" /\ y.line = x.line
  /\ x.part = "lead" <=> y.part = "continued"
  /\ y.part = "feed" => x.part = "tail"

Leads(bytes, l) == {i \in 1 .. Len(bytes) : bytes[i].line = l /\ bytes[i].part = "lead"}

LineShape(lines, bytes, l) ==
  /\ bytes \in Seq(Bytes) /\ Len(bytes) > 0
  /\ bytes[1].part = "head" /\ (lines[l].ends => bytes[Len(bytes)].part = "feed")
  /\ \A i \in 1 .. Len(bytes) :
       /\ bytes[i].line = l /\ (bytes[i].part = "feed" => lines[l].ends)
       /\ i < Len(bytes) => Follows(bytes[i], bytes[i + 1])
  /\ IsFiniteSet(Leads(bytes, l)) /\ Cardinality(Leads(bytes, l)) = lines[l].chars

LEMMA LineBytesAre ==
  ASSUME NEW lines, NEW l \in Nat, lines[l].chars \in Nat
  PROVE  LET b == LineBytes(lines, l)
             c == lines[l].chars
         IN  /\ b \in Seq(Bytes)
             /\ Len(b) = 2 * c + IF lines[l].ends THEN 3 ELSE 2
             /\ \A i \in 1 .. Len(b) :
                  /\ b[i].line = l
                  /\ b[i].part = IF i = 1 THEN "head"
                                 ELSE IF i <= 2 * c + 1 THEN IF i % 2 = 0 THEN "lead" ELSE "continued"
                                 ELSE IF i = 2 * c + 2 THEN "tail" ELSE "feed"
<1> DEFINE c == lines[l].chars
           byte(part) == [line |-> l, part |-> part]
           text == [i \in 1 .. 2 * c |-> IF i % 2 = 1 THEN byte("lead") ELSE byte("continued")]
           end == IF lines[l].ends THEN <<byte("feed")>> ELSE <<>>
           b == LineBytes(lines, l)
<1>1. b = <<byte("head")>> \o text \o <<byte("tail")>> \o end
  BY DEF LineBytes
<1>2. \A part \in Parts : byte(part) \in Bytes
  BY DEF Bytes
<1>3. <<byte("head")>> \in Seq(Bytes) /\ <<byte("tail")>> \in Seq(Bytes)
  BY <1>2 DEF Parts
<1>4. text \in Seq(Bytes) /\ Len(text) = 2 * c
  <2>1. 2 * c \in Nat
    OBVIOUS
  <2>2. \A i \in 1 .. 2 * c : text[i] \in Bytes
    BY <1>2 DEF Parts
  <2>3. text \in [1 .. 2 * c -> Bytes]
    <3> HIDE DEF c
    <3> QED BY <2>2
  <2> HIDE DEF text, c
  <2> QED BY <2>1, <2>3
<1>5. end \in Seq(Bytes) /\ Len(end) = IF lines[l].ends THEN 1 ELSE 0
  BY <1>2 DEF Parts
<1>6. lines[l].ends => end[1] = byte("feed")
  OBVIOUS
<1>7. \A i \in 1 .. 2 * c : text[i] = byte(IF i % 2 = 1 THEN "lead" ELSE "continued")
  OBVIOUS
<1> DEFINE one == <<byte("head")>> \o text
           two == one \o <<byte("tail")>>
<1> HIDE DEF byte, text, end, c
<1>8. /\ one \in Seq(Bytes) /\ Len(one) = 2 * c + 1
      /\ \A i \in 1 .. 2 * c + 1 : one[i] = IF i = 1 THEN byte("head") ELSE text[i - 1]
  BY <1>3, <1>4, ConcatProperties
<1> HIDE DEF one
<1>9. /\ two \in Seq(Bytes) /\ Len(two) = 2 * c + 2
      /\ \A i \in 1 .. 2 * c + 2 : two[i] = IF i <= 2 * c + 1 THEN one[i] ELSE byte("tail")
  <2> DEFINE tail == <<byte("tail")>>
  <2>1. tail \in Seq(Bytes) /\ Len(tail) = 1 /\ tail[1] = byte("tail")
    BY <1>3
  <2>2. two = one \o tail
    OBVIOUS
  <2> HIDE DEF tail, two
  <2>3. /\ one \o tail \in Seq(Bytes) /\ Len(one \o tail) = Len(one) + Len(tail)
        /\ \A i \in 1 .. Len(one) + Len(tail) :
             (one \o tail)[i] = IF i <= Len(one) THEN one[i] ELSE tail[i - Len(one)]
    BY ONLY <1>8, <2>1, ConcatProperties
  <2>4. c \in Nat
    BY DEF c
  <2> QED BY ONLY <1>8, <2>1, <2>2, <2>3, <2>4
<1>10. b = two \o end
  BY <1>1 DEF one
<1> HIDE DEF two, b
<1>11. /\ b \in Seq(Bytes) /\ Len(b) = 2 * c + 2 + Len(end)
       /\ \A i \in 1 .. Len(b) : b[i] = IF i <= 2 * c + 2 THEN two[i] ELSE end[i - (2 * c + 2)]
  <2>1. /\ two \o end \in Seq(Bytes) /\ Len(two \o end) = Len(two) + Len(end)
        /\ \A i \in 1 .. Len(two) + Len(end) :
             (two \o end)[i] = IF i <= Len(two) THEN two[i] ELSE end[i - Len(two)]
    BY ONLY <1>5, <1>9, ConcatProperties
  <2>2. c \in Nat
    BY DEF c
  <2> QED BY ONLY <1>9, <1>10, <2>1, <2>2
<1>12. \A part : byte(part).line = l /\ byte(part).part = part
  BY DEF byte
<1>13. c \in Nat
  BY DEF c
<1>14. Len(b) = 2 * c + IF lines[l].ends THEN 3 ELSE 2
  BY <1>5, <1>11, <1>13
<1>15. ASSUME NEW i \in 1 .. Len(b)
       PROVE  b[i] = byte(IF i = 1 THEN "head"
                          ELSE IF i <= 2 * c + 1 THEN IF i % 2 = 0 THEN "lead" ELSE "continued"
                          ELSE IF i = 2 * c + 2 THEN "tail" ELSE "feed")
  <2>1. CASE i = 1
    BY <1>8, <1>9, <1>11, <1>13, <2>1
  <2>2. CASE i # 1 /\ i <= 2 * c + 1
    <3>1. i - 1 \in 1 .. 2 * c /\ ((i - 1) % 2 = 1 <=> i % 2 = 0)
      BY <2>2, <1>13
    <3>2. b[i] = text[i - 1]
      BY <1>8, <1>9, <1>11, <1>13, <2>2
    <3> QED BY <2>2, <3>1, <3>2, <1>7
  <2>3. CASE i = 2 * c + 2
    BY <1>9, <1>11, <1>13, <2>3
  <2>4. CASE i > 2 * c + 2
    <3>1. lines[l].ends /\ i = 2 * c + 3
      BY <2>4, <1>14, <1>13
    <3>2. b[i] = end[1]
      BY <1>11, <1>13, <3>1
    <3> QED BY <1>6, <1>13, <3>1, <3>2
  <2> QED BY <2>1, <2>2, <2>3, <2>4, <1>13, <1>14
<1> QED BY <1>11, <1>12, <1>14, <1>15, SMTT(30) DEF b, c

LEMMA EvenNumbers ==
  ASSUME NEW c \in Nat, NEW S, S = {i \in 1 .. 2 * c + 1 : i % 2 = 0}
  PROVE  IsFiniteSet(S) /\ Cardinality(S) = c
<1> DEFINE double == [k \in 1 .. c |-> 2 * k]
<1>1. double \in Bijection(1 .. c, S)
  <2>1. \A k \in 1 .. c : 2 * k \in S
    OBVIOUS
  <2>2. \A i \in S : i \div 2 \in 1 .. c /\ 2 * (i \div 2) = i
    OBVIOUS
  <2>3. \A j, k \in 1 .. c : 2 * j = 2 * k => j = k
    OBVIOUS
  <2>4. \A i \in S : \E k \in 1 .. c : double[k] = i
    BY <2>2
  <2> QED BY <2>1, <2>3, <2>4 DEF Bijection, Injection, Surjection, IsInjective
<1>2. IsFiniteSet(1 .. c) /\ Cardinality(1 .. c) = c
  BY FS_Interval
<1> HIDE DEF double
<1>3. ExistsBijection(1 .. c, S)
  BY <1>1 DEF ExistsBijection
<1> QED BY <1>2, <1>3, FS_Bijection

LEMMA LineBytesShape ==
  ASSUME NEW lines, NEW l \in Nat, lines[l].chars \in Nat
  PROVE  LineShape(lines, LineBytes(lines, l), l)
<1> DEFINE b == LineBytes(lines, l)
           c == lines[l].chars
<1>1. /\ b \in Seq(Bytes)
      /\ Len(b) = 2 * c + IF lines[l].ends THEN 3 ELSE 2
      /\ \A i \in 1 .. Len(b) :
           /\ b[i].line = l
           /\ b[i].part = IF i = 1 THEN "head"
                          ELSE IF i <= 2 * c + 1 THEN IF i % 2 = 0 THEN "lead" ELSE "continued"
                          ELSE IF i = 2 * c + 2 THEN "tail" ELSE "feed"
  BY LineBytesAre, Z3T(30)
<1>2. c \in Nat
  OBVIOUS
<1> HIDE DEF b, c
<1>3. Len(b) > 0 /\ 1 \in 1 .. Len(b) /\ Len(b) \in 1 .. Len(b)
  BY <1>1, <1>2
<1>4. b[1].part = "head"
  BY <1>1, <1>3
<1>5. lines[l].ends => b[Len(b)].part = "feed"
  <2> SUFFICES ASSUME lines[l].ends PROVE b[Len(b)].part = "feed"
    OBVIOUS
  <2>1. Len(b) = 2 * c + 3
    BY <1>1
  <2> QED BY <2>1, <1>1, <1>2, <1>3
<1>6. ASSUME NEW i \in 1 .. Len(b), b[i].part = "feed" PROVE lines[l].ends
  <2>1. i > 2 * c + 2
    BY <1>1, <1>2, <1>6
  <2> QED BY <2>1, <1>1, <1>2
<1>7. ASSUME NEW i \in 1 .. Len(b), i < Len(b) PROVE Follows(b[i], b[i + 1])
  <2>1. i + 1 \in 1 .. Len(b) /\ i + 1 <= 2 * c + 3 /\ i <= 2 * c + 2
    BY <1>1, <1>2, <1>7
  <2>2. ((i + 1) % 2 = 0) <=> ~(i % 2 = 0)
    BY <2>1
  <2>3. b[i].line = b[i + 1].line
    BY <1>1, <2>1
  <2>4. b[i].part = IF i = 1 THEN "head"
                    ELSE IF i <= 2 * c + 1 THEN IF i % 2 = 0 THEN "lead" ELSE "continued"
                    ELSE "tail"
    BY <1>1, <1>2, <2>1
  <2>5. b[i + 1].part = IF i + 1 <= 2 * c + 1 THEN IF (i + 1) % 2 = 0 THEN "lead" ELSE "continued"
                        ELSE IF i + 1 = 2 * c + 2 THEN "tail" ELSE "feed"
    BY <1>1, <2>1
  <2>6. (2 * c + 1) % 2 # 0 /\ (2 * c + 2) % 2 = 0
    BY <1>2
  <2>7. b[i].part # "feed" /\ b[i + 1].part # "head"
    BY <2>4, <2>5
  <2>8. b[i + 1].part = "feed" => b[i].part = "tail"
    BY <2>1, <2>4, <2>5, <1>2
  <2>9. b[i].part = "lead" <=> b[i + 1].part = "continued"
    <3>1. CASE i = 1
      BY <3>1, <1>2, <2>4, <2>5
    <3>2. CASE i # 1 /\ i <= 2 * c
      BY <3>2, <1>2, <2>1, <2>2, <2>4, <2>5
    <3>3. CASE i = 2 * c + 1
      BY <3>3, <1>2, <2>4, <2>5, <2>6
    <3>4. CASE i = 2 * c + 2
      BY <3>4, <1>2, <2>4, <2>5
    <3> QED BY <2>1, <3>1, <3>2, <3>3, <3>4, <1>2
  <2> QED BY <2>3, <2>7, <2>8, <2>9 DEF Follows
<1>8. IsFiniteSet(Leads(b, l)) /\ Cardinality(Leads(b, l)) = c
  <2>1. \A i \in 1 .. Len(b) : b[i].part = "lead" <=> i <= 2 * c + 1 /\ i % 2 = 0
    BY <1>1
  <2>2. \A i \in 1 .. 2 * c + 1 : i \in 1 .. Len(b)
    BY <1>1, <1>2
  <2>3. Leads(b, l) = {i \in 1 .. 2 * c + 1 : i % 2 = 0}
    BY <1>1, <1>2, <2>1, <2>2 DEF Leads
  <2> QED BY <1>2, <2>3, EvenNumbers
<1> QED BY <1>1, <1>3, <1>4, <1>5, <1>6, <1>7, <1>8 DEF LineShape, b, c

-----------------------------------------------------------------------------
StreamShape(lines, bytes, n) ==
  /\ bytes \in Seq(Bytes) /\ Len(bytes) > 0
  /\ bytes[1].part = "head" /\ bytes[1].line = 1
  /\ bytes[Len(bytes)].line = n /\ (lines[n].ends => bytes[Len(bytes)].part = "feed")
  /\ \A i \in 1 .. Len(bytes) :
       /\ bytes[i].line \in 1 .. n /\ (bytes[i].part = "feed" => lines[bytes[i].line].ends)
       /\ i < Len(bytes) => Follows(bytes[i], bytes[i + 1])
  /\ \A l \in 1 .. n : IsFiniteSet(Leads(bytes, l)) /\ Cardinality(Leads(bytes, l)) = lines[l].chars

LEMMA OneLine ==
  ASSUME NEW lines, NEW bytes, LineShape(lines, bytes, 1)
  PROVE  StreamShape(lines, bytes, 1)
<1>1. Len(bytes) \in 1 .. Len(bytes) /\ 1 \in 1 .. Len(bytes)
  BY LenProperties DEF LineShape
<1> QED BY <1>1 DEF LineShape, StreamShape

LEMMA OneMoreLine ==
  ASSUME NEW lines, NEW n \in Nat \ {0}, lines[n].ends,
         NEW b, StreamShape(lines, b, n), NEW d, LineShape(lines, d, n + 1)
  PROVE  StreamShape(lines, b \o d, n + 1)
<1> DEFINE e == b \o d
           m == Len(b)
<1>1. b \in Seq(Bytes) /\ d \in Seq(Bytes) /\ m \in Nat \ {0} /\ Len(d) \in Nat \ {0}
  BY LenProperties DEF StreamShape, LineShape
<1>2. /\ e \in Seq(Bytes) /\ Len(e) = m + Len(d)
      /\ \A i \in 1 .. m + Len(d) : e[i] = IF i <= m THEN b[i] ELSE d[i - m]
  BY <1>1, ConcatProperties
<1> HIDE DEF e, m
<1>3. \A i \in 1 .. m : e[i] = b[i]
  BY <1>1, <1>2
<1>4. \A k \in 1 .. Len(d) : m + k \in 1 .. Len(e) /\ e[m + k] = d[k]
  BY <1>1, <1>2
<1>5. \A i \in 1 .. Len(e) : i \in 1 .. m \/ i - m \in 1 .. Len(d)
  BY <1>1, <1>2
<1>6. e[1].part = "head" /\ e[1].line = 1
  BY <1>1, <1>3 DEF StreamShape
<1>7. e[Len(e)].line = n + 1 /\ (lines[n + 1].ends => e[Len(e)].part = "feed")
  BY <1>1, <1>2, <1>4 DEF LineShape
<1>8. ASSUME NEW i \in 1 .. Len(e)
      PROVE  e[i].line \in 1 .. n + 1 /\ (e[i].part = "feed" => lines[e[i].line].ends)
  <2>1. CASE i \in 1 .. m
    BY <2>1, <1>3 DEF StreamShape, m
  <2>2. CASE i - m \in 1 .. Len(d)
    <3>1. e[i] = d[i - m]
      BY <2>2, <1>1, <1>4
    <3> QED BY <2>2, <3>1 DEF LineShape
  <2> QED BY <1>5, <2>1, <2>2
<1>9. ASSUME NEW i \in 1 .. Len(e), i < Len(e) PROVE Follows(e[i], e[i + 1])
  <2>1. CASE i < m
    <3>1. i \in 1 .. m /\ i + 1 \in 1 .. m
      BY <2>1, <1>1
    <3> QED BY <2>1, <3>1, <1>3 DEF StreamShape, m
  <2>2. CASE i = m
    <3>1. e[i] = b[m] /\ e[i + 1] = d[1]
      BY <2>2, <1>1, <1>3, <1>4
    <3>2. b[m].part = "feed" /\ b[m].line = n
      BY DEF StreamShape, m
    <3>3. d[1].part = "head" /\ d[1].line = n + 1
      BY <1>1 DEF LineShape
    <3> QED BY <3>1, <3>2, <3>3 DEF Follows
  <2>3. CASE i > m
    <3>1. i - m \in 1 .. Len(d) /\ i - m < Len(d) /\ (i - m) + 1 \in 1 .. Len(d)
      BY <2>3, <1>1, <1>2, <1>9
    <3>2. e[i] = d[i - m] /\ e[i + 1] = d[(i - m) + 1]
      <4>1. m + (i - m) = i /\ m + ((i - m) + 1) = i + 1
        BY <1>1
      <4> QED BY <3>1, <4>1, <1>4
    <3> QED BY <3>1, <3>2 DEF LineShape
  <2> QED BY <1>1, <2>1, <2>2, <2>3
<1>10. ASSUME NEW l \in 1 .. n
       PROVE  IsFiniteSet(Leads(e, l)) /\ Cardinality(Leads(e, l)) = lines[l].chars
  <2>1. \A i \in 1 .. Len(e) : e[i].line = l => i \in 1 .. m
    <3> SUFFICES ASSUME NEW i \in 1 .. Len(e), i \notin 1 .. m PROVE e[i].line # l
      OBVIOUS
    <3>1. e[i] = d[i - m] /\ i - m \in 1 .. Len(d)
      BY <1>1, <1>4, <1>5
    <3> QED BY <3>1 DEF LineShape
  <2>2. Leads(e, l) = Leads(b, l)
    <3>1. \A i \in 1 .. m : i \in 1 .. Len(e)
      BY <1>1, <1>2
    <3> QED BY <2>1, <3>1, <1>3 DEF Leads, m
  <2> QED BY <2>2 DEF StreamShape
<1>11. IsFiniteSet(Leads(e, n + 1)) /\ Cardinality(Leads(e, n + 1)) = lines[n + 1].chars
  <2> DEFINE shift == [k \in Leads(d, n + 1) |-> m + k]
  <2>1. \A k \in Leads(d, n + 1) : k \in 1 .. Len(d) /\ m + k \in Leads(e, n + 1)
    BY <1>4 DEF Leads
  <2>2. ASSUME NEW i \in Leads(e, n + 1) PROVE i - m \in Leads(d, n + 1) /\ m + (i - m) = i
    <3>1. i \notin 1 .. m
      BY <1>3 DEF Leads, StreamShape, m
    <3>2. i - m \in 1 .. Len(d) /\ m + (i - m) = i
      BY <1>1, <1>5, <3>1 DEF Leads
    <3>3. e[i] = d[i - m]
      BY <3>2, <1>4
    <3> QED BY <3>2, <3>3 DEF Leads
  <2>3. shift \in Bijection(Leads(d, n + 1), Leads(e, n + 1))
    <3>1. \A j, k \in Leads(d, n + 1) : m + j = m + k => j = k
      BY <1>1, <2>1
    <3>2. \A i \in Leads(e, n + 1) : \E k \in Leads(d, n + 1) : shift[k] = i
      BY <2>2
    <3> QED BY <2>1, <3>1, <3>2 DEF Bijection, Injection, Surjection, IsInjective
  <2> HIDE DEF shift
  <2>4. ExistsBijection(Leads(d, n + 1), Leads(e, n + 1))
    BY <2>3 DEF ExistsBijection
  <2> QED BY <2>4, FS_Bijection DEF LineShape
<1>12. \A l \in 1 .. n + 1 : IsFiniteSet(Leads(e, l)) /\ Cardinality(Leads(e, l)) = lines[l].chars
  <2>1. \A l \in 1 .. n + 1 : l \in 1 .. n \/ l = n + 1
    OBVIOUS
  <2> QED BY <1>10, <1>11, <2>1
<1>13. Len(e) > 0
  BY <1>1, <1>2
<1> QED BY <1>2, <1>6, <1>7, <1>8, <1>9, <1>12, <1>13 DEF StreamShape, e

LEMMA LinesOf ==
  ASSUME NEW lines, IsStream(lines)
  PROVE  /\ Len(lines) \in Nat /\ DOMAIN lines = 1 .. Len(lines)
         /\ \A l \in 1 .. Len(lines) : lines[l].chars \in Nat /\ (l < Len(lines) => lines[l].ends)
<1>1. Len(lines) \in Nat /\ DOMAIN lines = 1 .. Len(lines)
  BY LenProperties DEF IsStream
<1> QED BY <1>1 DEF IsStream

LEMMA StreamBytesShape ==
  ASSUME NEW lines, IsStream(lines), Len(lines) > 0
  PROVE  StreamShape(lines, StreamBytes(lines), Len(lines))
<1> DEFINE n == Len(lines)
           seqs == [l \in DOMAIN lines |-> LineBytes(lines, l)]
<1>1. n \in Nat \ {0} /\ DOMAIN lines = 1 .. n
  BY LinesOf
<1>2. \A l \in 1 .. n : LineShape(lines, seqs[l], l)
  <2> SUFFICES ASSUME NEW l \in 1 .. n PROVE LineShape(lines, LineBytes(lines, l), l)
    BY <1>1
  <2> QED BY <1>1, LinesOf, LineBytesShape
<1>3. seqs \in Seq(Seq(Bytes)) /\ Len(seqs) = n
  <2>1. \A l \in 1 .. n : seqs[l] \in Seq(Bytes)
    BY <1>2 DEF LineShape
  <2>2. seqs \in [1 .. n -> Seq(Bytes)]
    BY <1>1, <2>1
  <2> HIDE DEF seqs, n
  <2> QED BY <1>1, <2>2
<1> HIDE DEF seqs
<1>4. PICK flat : IsFlat(flat, seqs, n) /\ FlattenSeq(seqs) = flat[n]
  BY <1>1, <1>3, FlattenIsFlat
<1>5. \A i \in 1 .. n : flat[i] = FlattenStep(flat, seqs, i)
  BY <1>4 DEF IsFlat
<1> DEFINE F == {i \in 1 .. n : ~StreamShape(lines, flat[i], i)}
<1>6. F = {}
  <2> SUFFICES ASSUME F # {} PROVE FALSE
    OBVIOUS
  <2>1. PICK i \in F : \A j \in F : i <= j
    <3>1. F \in SUBSET Nat
      BY <1>1
    <3> HIDE DEF F
    <3> QED BY <3>1, LeastNumber
  <2>2. CASE i = 1
    <3>1. flat[1] = seqs[1] /\ 1 \in 1 .. n
      BY <1>1, <1>5, <2>2 DEF FlattenStep
    <3> QED BY <1>2, <2>2, <3>1, OneLine
  <2>3. CASE i # 1
    <3>1. i - 1 \in 1 .. n /\ i - 1 \in Nat \ {0} /\ i - 1 < n /\ (i - 1) + 1 = i
      BY <1>1, <2>3
    <3>2. StreamShape(lines, flat[i - 1], i - 1)
      BY <2>1, <3>1
    <3>3. lines[i - 1].ends
      BY <3>1, LinesOf
    <3>4. flat[i] = flat[i - 1] \o seqs[i]
      BY <1>5, <2>3 DEF FlattenStep
    <3>5. LineShape(lines, seqs[i], (i - 1) + 1)
      BY <1>2, <3>1
    <3>6. StreamShape(lines, flat[i - 1] \o seqs[i], (i - 1) + 1)
      BY ONLY <3>1, <3>2, <3>3, <3>5, OneMoreLine
    <3> QED BY <3>1, <3>4, <3>6
  <2> QED BY <2>2, <2>3
<1>7. StreamShape(lines, flat[n], n)
  BY <1>1, <1>6
<1> QED BY <1>4, <1>7 DEF StreamBytes, seqs

(* The order of the bytes. *)
LEMMA LinesInOrder ==
  ASSUME NEW lines, NEW n \in Nat, NEW b, StreamShape(lines, b, n),
         NEW i \in 1 .. Len(b), NEW j \in 1 .. Len(b), i <= j
  PROVE  /\ b[i].line <= b[j].line
         /\ (b[i].part = "feed" /\ i < j) => b[i].line < b[j].line
         /\ (\A k \in i .. j - 1 : b[k].part # "feed") => b[i].line = b[j].line
<1> DEFINE Wrong(k) == ~ /\ b[i].line <= b[k].line
                         /\ (b[i].part = "feed" /\ i < k) => b[i].line < b[k].line
                         /\ (\A h \in i .. k - 1 : b[h].part # "feed") => b[i].line = b[k].line
           F == {k \in i .. Len(b) : Wrong(k)}
<1>1. Len(b) \in Nat
  BY LenProperties DEF StreamShape
<1>2. \A k \in 1 .. Len(b) : b[k].line \in Nat
  BY DEF StreamShape
<1> SUFFICES ASSUME F # {} PROVE FALSE
  BY <1>1
<1>3. PICK k \in F : \A h \in F : k <= h
  <2>1. F \in SUBSET Nat
    BY <1>1
  <2> HIDE DEF F
  <2> QED BY <2>1, LeastNumber
<1>4. k # i
  BY <1>1, <1>2
<1>5. k - 1 \in i .. Len(b) /\ k - 1 \in 1 .. Len(b) /\ k - 1 < Len(b) /\ (k - 1) + 1 = k
  BY <1>1, <1>4
<1>6. ~Wrong(k - 1)
  BY <1>3, <1>5
<1>7. Follows(b[k - 1], b[k])
  <2>1. \A h \in 1 .. Len(b) : h < Len(b) => Follows(b[h], b[h + 1])
    BY DEF StreamShape
  <2> QED BY <1>5, <2>1
<1>8. b[i].line \in Nat /\ b[k - 1].line \in Nat /\ b[k].line \in Nat
  BY <1>2, <1>5, Z3T(30)
<1>9. b[i].line <= b[k].line
  BY <1>6, <1>7, <1>8, Z3T(30) DEF Follows
<1>10. (b[i].part = "feed" /\ i < k) => b[i].line < b[k].line
  BY <1>1, <1>5, <1>6, <1>7, <1>8, Z3T(30) DEF Follows
<1>11. (\A h \in i .. k - 1 : b[h].part # "feed") => b[i].line = b[k].line
  <2> SUFFICES ASSUME \A h \in i .. k - 1 : b[h].part # "feed" PROVE b[i].line = b[k].line
    OBVIOUS
  <2>1. b[k - 1].part # "feed" /\ \A h \in i .. (k - 1) - 1 : b[h].part # "feed"
    BY <1>1, <1>5
  <2> QED BY <2>1, <1>6, <1>7, <1>8 DEF Follows
<1>12. Wrong(k)
  OBVIOUS
<1> HIDE DEF F
<1> QED BY <1>9, <1>10, <1>11, <1>12

LEMMA FeedBefore ==
  ASSUME NEW lines, NEW n \in Nat, NEW b, StreamShape(lines, b, n),
         NEW j \in 1 .. Len(b), NEW l \in Nat \ {0}, l < b[j].line
  PROVE  \E i \in 1 .. j - 1 : b[i].part = "feed" /\ b[i].line = l
<1> DEFINE F == {k \in 1 .. Len(b) : l < b[k].line /\ ~\E i \in 1 .. k - 1 : b[i].part = "feed" /\ b[i].line = l}
<1>1. Len(b) \in Nat
  BY LenProperties DEF StreamShape
<1> SUFFICES ASSUME F # {} PROVE FALSE
  OBVIOUS
<1>2. PICK k \in F : \A h \in F : k <= h
  <2>1. F \in SUBSET Nat
    BY <1>1
  <2> HIDE DEF F
  <2> QED BY <2>1, LeastNumber
<1>3. k # 1
  BY DEF StreamShape
<1>4. k - 1 \in 1 .. Len(b) /\ k - 1 < Len(b) /\ (k - 1) + 1 = k
  BY <1>1, <1>3
<1>5. Follows(b[k - 1], b[k])
  <2>1. \A h \in 1 .. Len(b) : h < Len(b) => Follows(b[h], b[h + 1])
    BY DEF StreamShape
  <2> QED BY <1>4, <2>1
<1>6. b[k - 1].line \in Nat /\ b[k].line \in Nat
  BY <1>4, Z3T(30) DEF StreamShape
<1>7. CASE l < b[k - 1].line
  <2>1. k - 1 \notin F
    BY <1>2, <1>4
  <2>2. PICK i \in 1 .. (k - 1) - 1 : b[i].part = "feed" /\ b[i].line = l
    BY <1>4, <1>7, <2>1
  <2>3. i \in 1 .. k - 1
    BY <1>4
  <2> QED BY <2>2, <2>3
<1>8. CASE ~(l < b[k - 1].line)
  <2>1. b[k - 1].part = "feed" /\ b[k - 1].line = l
    BY <1>5, <1>6, <1>8, Z3T(30) DEF Follows
  <2>2. k - 1 \in 1 .. k - 1
    BY <1>4
  <2> QED BY <2>1, <2>2
<1> QED BY <1>7, <1>8

-----------------------------------------------------------------------------
(* A text that consists of some of the bytes of a stream, in their order:  *)
(* map tells which.                                                        *)
Selects(map, text, bytes, K) ==
  /\ text \in Seq(Bytes) /\ map \in [1 .. Len(text) -> K]
  /\ \A i \in 1 .. Len(text) : text[i] = bytes[map[i]]
  /\ \A i, j \in 1 .. Len(text) : i < j => map[i] < map[j]
  /\ \A p \in K : \E i \in 1 .. Len(text) : map[i] = p

LEMMA SelectsNothing ==
  ASSUME NEW b PROVE \E map : Selects(map, <<>>, b, {})
<1>1. Len(<<>>) = 0 /\ <<>> \in Seq(Bytes)
  OBVIOUS
<1> DEFINE map == [i \in 1 .. 0 |-> i]
<1>2. map \in [1 .. 0 -> {}]
  OBVIOUS
<1> HIDE DEF map
<1>3. Selects(map, <<>>, b, {})
  BY <1>1, <1>2 DEF Selects
<1> QED BY <1>3

LEMMA SelectsSegment ==
  ASSUME NEW b \in Seq(Bytes), NEW a \in 1 .. Len(b) + 1, NEW z \in 0 .. Len(b)
  PROVE  \E map : Selects(map, SubSeq(b, a, z), b, a .. z)
<1> DEFINE t == SubSeq(b, a, z)
           map == [i \in 1 .. Len(t) |-> a + i - 1]
<1>1. Len(b) \in Nat /\ \A i \in 1 .. Len(b) : b[i] \in Bytes
  BY LenProperties
<1>2. \A i \in a .. z : b[i] \in Bytes
  BY <1>1
<1>3. a \in Int /\ z \in Int
  BY <1>1
<1>4. /\ t \in Seq(Bytes)
      /\ Len(t) = IF a <= z THEN z - a + 1 ELSE 0
      /\ \A i \in 1 .. z - a + 1 : t[i] = b[a + i - 1]
  BY <1>2, <1>3, SubSeqProperties
<1> HIDE DEF t
<1>5. \A i \in 1 .. Len(t) : i \in 1 .. z - a + 1 /\ a + i - 1 \in a .. z
  BY <1>3, <1>4
<1>6. ASSUME NEW p \in a .. z PROVE p - a + 1 \in 1 .. Len(t) /\ a + (p - a + 1) - 1 = p
  BY <1>3, <1>4
<1>7. \A p \in a .. z : \E i \in 1 .. Len(t) : map[i] = p
  BY <1>6
<1>8. \A i, j \in 1 .. Len(t) : i < j => map[i] < map[j]
  BY <1>3, <1>5
<1>9. map \in [1 .. Len(t) -> a .. z] /\ \A i \in 1 .. Len(t) : t[i] = b[map[i]]
  BY <1>4, <1>5
<1> HIDE DEF map
<1>10. Selects(map, t, b, a .. z)
  BY <1>4, <1>7, <1>8, <1>9 DEF Selects
<1> QED BY <1>10 DEF t

Selected(map, i, j) == {map[h] : h \in i .. j}

LEMMA SelectsPart ==
  ASSUME NEW b, NEW K, NEW map, NEW text, Selects(map, text, b, K),
         NEW i \in 1 .. Len(text) + 1, NEW j \in 0 .. Len(text)
  PROVE  \E part : Selects(part, SubSeq(text, i, j), b, Selected(map, i, j))
<1> DEFINE t == SubSeq(text, i, j)
           L == Selected(map, i, j)
<1>1. text \in Seq(Bytes)
  BY DEF Selects
<1>2. PICK seg : Selects(seg, t, text, i .. j)
  BY <1>1, SelectsSegment
<1>3. Len(text) \in Nat /\ i .. j \subseteq 1 .. Len(text)
  BY <1>1, LenProperties
<1> DEFINE part == [h \in 1 .. Len(t) |-> map[seg[h]]]
<1>4. \A h \in 1 .. Len(t) : seg[h] \in i .. j /\ seg[h] \in 1 .. Len(text)
  BY <1>2, <1>3 DEF Selects
<1>5. part \in [1 .. Len(t) -> L]
  BY <1>4 DEF Selected
<1>6. \A h \in 1 .. Len(t) : t[h] = b[part[h]]
  BY <1>2, <1>4 DEF Selects
<1>7. \A g, h \in 1 .. Len(t) : g < h => part[g] < part[h]
  BY <1>2, <1>4 DEF Selects
<1>8. ASSUME NEW p \in L PROVE \E h \in 1 .. Len(t) : part[h] = p
  <2>1. PICK g \in i .. j : p = map[g]
    BY DEF Selected
  <2>2. PICK h \in 1 .. Len(t) : seg[h] = g
    BY <1>2 DEF Selects
  <2> QED BY <2>1, <2>2
<1>9. t \in Seq(Bytes)
  BY <1>2 DEF Selects
<1> HIDE DEF part, L, t
<1>10. Selects(part, t, b, L)
  BY <1>5, <1>6, <1>7, <1>8, <1>9 DEF Selects
<1> QED BY <1>10 DEF t, L

LEMMA SelectsConcat ==
  ASSUME NEW b, NEW K \in SUBSET Int, NEW L \in SUBSET Int, \A k \in K, l \in L : k < l,
         NEW s, NEW t, NEW m, NEW n, Selects(m, s, b, K), Selects(n, t, b, L)
  PROVE  \E map : Selects(map, s \o t, b, K \cup L)
<1> DEFINE u == s \o t
           map == [i \in 1 .. Len(u) |-> IF i <= Len(s) THEN m[i] ELSE n[i - Len(s)]]
<1>1. s \in Seq(Bytes) /\ t \in Seq(Bytes) /\ Len(s) \in Nat /\ Len(t) \in Nat
  BY LenProperties DEF Selects
<1>2. /\ u \in Seq(Bytes) /\ Len(u) = Len(s) + Len(t)
      /\ \A i \in 1 .. Len(s) + Len(t) : u[i] = IF i <= Len(s) THEN s[i] ELSE t[i - Len(s)]
  BY <1>1, ConcatProperties
<1> HIDE DEF u
<1>3. \A i \in 1 .. Len(u) : i <= Len(s) => i \in 1 .. Len(s)
  BY <1>1, <1>2
<1>4. \A i \in 1 .. Len(u) : ~(i <= Len(s)) => i - Len(s) \in 1 .. Len(t)
  BY <1>1, <1>2
<1>5. \A i \in 1 .. Len(s) : i \in 1 .. Len(u) /\ map[i] = m[i] /\ m[i] \in K
  BY <1>1, <1>2 DEF Selects
<1>6. ASSUME NEW i \in 1 .. Len(t)
      PROVE  /\ Len(s) + i \in 1 .. Len(u) /\ ~(Len(s) + i <= Len(s))
             /\ (Len(s) + i) - Len(s) = i /\ n[i] \in L
  <2>1. Len(u) = Len(s) + Len(t)
    BY <1>2
  <2>2. n[i] \in L
    BY DEF Selects
  <2> QED BY <1>1, <2>1, <2>2
<1>7. map \in [1 .. Len(u) -> K \cup L]
  <2> SUFFICES ASSUME NEW i \in 1 .. Len(u)
               PROVE  (IF i <= Len(s) THEN m[i] ELSE n[i - Len(s)]) \in K \cup L
    OBVIOUS
  <2> QED BY <1>3, <1>4 DEF Selects
<1>8. ASSUME NEW i \in 1 .. Len(u) PROVE u[i] = b[map[i]]
  BY <1>2, <1>3, <1>4 DEF Selects
<1>9. ASSUME NEW i \in 1 .. Len(u), NEW j \in 1 .. Len(u), i < j PROVE map[i] < map[j]
  <2>1. CASE j <= Len(s)
    <3>1. i \in 1 .. Len(s) /\ j \in 1 .. Len(s)
      BY <1>1, <1>9, <2>1
    <3> QED BY <1>9, <3>1, <1>5 DEF Selects
  <2>2. CASE i <= Len(s) /\ ~(j <= Len(s))
    <3>1. map[i] = m[i] /\ m[i] \in K /\ map[j] = n[j - Len(s)] /\ n[j - Len(s)] \in L
      BY <2>2, <1>3, <1>4, <1>5 DEF Selects
    <3> QED BY <3>1
  <2>3. CASE ~(i <= Len(s)) /\ ~(j <= Len(s))
    <3>1. /\ i - Len(s) \in 1 .. Len(t) /\ j - Len(s) \in 1 .. Len(t)
          /\ i - Len(s) < j - Len(s)
      BY <1>1, <1>4, <1>9, <2>3
    <3>2. map[i] = n[i - Len(s)] /\ map[j] = n[j - Len(s)]
      BY <2>3
    <3> QED BY <3>1, <3>2 DEF Selects
  <2> QED BY <1>1, <1>9, <2>1, <2>2, <2>3
<1>10. ASSUME NEW p \in K \cup L PROVE \E i \in 1 .. Len(u) : map[i] = p
  <2>1. CASE p \in K
    <3>1. PICK i \in 1 .. Len(s) : m[i] = p
      BY <2>1 DEF Selects
    <3> QED BY <3>1, <1>5
  <2>2. CASE p \in L
    <3>1. PICK i \in 1 .. Len(t) : n[i] = p
      BY <2>2 DEF Selects
    <3>2. map[Len(s) + i] = p
      BY <3>1, <1>6
    <3> QED BY <3>2, <1>6
  <2> QED BY <2>1, <2>2
<1> HIDE DEF map
<1>11. Selects(map, u, b, K \cup L)
  BY <1>2, <1>7, <1>8, <1>9, <1>10 DEF Selects
<1> QED BY <1>11 DEF u

-----------------------------------------------------------------------------
(* What a chunk adds to the buffer.                                        *)

(* The bytes that are left when both halves of a cut character are ignored.*)
Kept(from, upto, halved) == {p \in from .. upto : p \notin halved /\ p - 1 \notin halved}

Cut(bytes, halved, upto) ==
  /\ \A h \in halved : h \in 1 .. upto /\ bytes[h].part = "lead"
  /\ (upto > 0 /\ bytes[upto].part = "lead") => upto \in halved
CutAlso(bytes, halved, last) == halved \cup IF bytes[last].part = "lead" THEN {last} ELSE {}

LEMMA DecodedIs ==
  ASSUME NEW lines, NEW n \in Nat, NEW b, StreamShape(lines, b, n),
         NEW sent \in Nat, NEW last \in sent + 1 .. Len(b), NEW halved, Cut(b, halved, sent)
  PROVE  \E map : Selects(map, Decoded(SubSeq(b, sent + 1, last)), b,
                          Kept(sent + 1, last, CutAlso(b, halved, last)))
<1> DEFINE chunk == SubSeq(b, sent + 1, last)
           from == IF b[sent + 1].part = "continued" THEN 2 ELSE 1
           upto == IF b[last].part = "lead" THEN Len(chunk) - 1 ELSE Len(chunk)
           more == CutAlso(b, halved, last)
<1>1. b \in Seq(Bytes) /\ Len(b) \in Nat
  BY LenProperties DEF StreamShape
<1>2. sent + 1 \in 1 .. Len(b) /\ last \in 1 .. Len(b) /\ sent + 1 <= last
  BY <1>1
<1>3. /\ chunk \in Seq(Bytes) /\ Len(chunk) = last - sent
      /\ \A i \in 1 .. last - sent : chunk[i] = b[sent + i]
  <2>1. \A i \in sent + 1 .. last : b[i] \in Bytes
    BY <1>1, <1>2, ElementOfSeq
  <2>2. sent + 1 \in Int /\ last \in Int
    BY <1>2
  <2>3. /\ chunk \in Seq(Bytes)
        /\ Len(chunk) = IF sent + 1 <= last THEN last - (sent + 1) + 1 ELSE 0
        /\ \A i \in 1 .. last - (sent + 1) + 1 : chunk[i] = b[(sent + 1) + i - 1]
    BY <2>1, <2>2, SubSeqProperties
  <2> HIDE DEF chunk
  <2>4. last - (sent + 1) + 1 = last - sent /\ \A i \in Int : (sent + 1) + i - 1 = sent + i
    BY <1>2
  <2>5. 1 .. last - sent \subseteq Int
    OBVIOUS
  <2> QED BY <1>2, <2>3, <2>4, <2>5
<1> HIDE DEF chunk
<1>4. Len(chunk) \in Nat \ {0} /\ chunk[1] = b[sent + 1] /\ chunk[Len(chunk)] = b[last]
  BY <1>2, <1>3
<1>5. Head(chunk) = b[sent + 1] /\ Last(chunk) = b[last]
  BY <1>3, <1>4 DEF Last
<1>6. Decoded(chunk) = SubSeq(chunk, from, upto)
  BY <1>5 DEF Decoded
<1>7. SubSeq(chunk, from, upto) = SubSeq(b, sent + from, sent + upto)
  <2>1. from \in Int /\ upto \in Int /\ from >= 1 /\ upto <= Len(chunk)
    BY <1>4
  <2>2. CASE from <= upto
    <3>1. from \in 1 .. last - (sent + 1) + 1 /\ upto \in 1 .. last - (sent + 1) + 1
      BY <1>2, <1>3, <2>1, <2>2
    <3> HIDE DEF from, upto
    <3>2. SubSeq(SubSeq(b, sent + 1, last), from, upto) = SubSeq(b, sent + 1 + from - 1, sent + 1 + upto - 1)
      BY ONLY <1>1, <1>2, <3>1, SubSeqOfSubSeq
    <3>3. sent + 1 + from - 1 = sent + from /\ sent + 1 + upto - 1 = sent + upto
      BY <2>1
    <3> QED BY <3>2, <3>3 DEF chunk
  <2>3. CASE upto < from
    <3> HIDE DEF from, upto
    <3>1. SubSeq(chunk, from, upto) = <<>>
      BY <2>1, <2>3, SubSeqEmpty
    <3>2. sent + from \in Int /\ sent + upto \in Int /\ sent + upto < sent + from
      BY <2>1, <2>3
    <3>3. SubSeq(b, sent + from, sent + upto) = <<>>
      BY <3>2, SubSeqEmpty
    <3> QED BY <3>1, <3>3
  <2> HIDE DEF from, upto
  <2> QED BY <2>1, <2>2, <2>3
<1>8. sent + from \in 1 .. Len(b) + 1 /\ sent + upto \in 0 .. Len(b)
  BY <1>1, <1>2, <1>3
<1>9. (sent + 1) - 1 \in more <=> b[sent + 1].part = "continued"
  <2>1. (sent + 1) - 1 = sent /\ sent # last
    BY <1>2
  <2>2. CASE sent = 0
    BY <2>1, <2>2 DEF CutAlso, Cut, StreamShape
  <2>3. CASE sent # 0
    <3>1. sent \in 1 .. Len(b) /\ sent < Len(b)
      BY <1>1, <1>2, <2>3
    <3>2. Follows(b[sent], b[sent + 1])
      BY <3>1 DEF StreamShape
    <3>3. sent \in halved <=> b[sent].part = "lead"
      BY <2>3 DEF Cut
    <3> QED BY <2>1, <3>2, <3>3 DEF CutAlso, Follows
  <2> QED BY <2>2, <2>3
<1>10. Kept(sent + 1, last, more) = sent + from .. sent + upto
  <2>1. \A p \in sent + 1 .. last : p \in more <=> (p = last /\ b[last].part = "lead")
    BY <1>2 DEF CutAlso, Cut
  <2>2. \A p \in sent + 1 .. last : p # sent + 1 => p - 1 \notin more
    BY <1>2, <2>1
  <2>3. \A p \in sent + 1 .. last :
          p \in sent + from .. sent + upto
            <=> ~(p = last /\ b[last].part = "lead") /\ ~(p = sent + 1 /\ b[sent + 1].part = "continued")
    BY <1>2, <1>3
  <2>4. sent + from .. sent + upto \subseteq sent + 1 .. last
    BY <1>2, <1>3
  <2> HIDE DEF from, upto, more
  <2> QED BY <1>9, <2>1, <2>2, <2>3, <2>4 DEF Kept
<1> HIDE DEF from, upto, more
<1>11. \E map : Selects(map, SubSeq(b, sent + from, sent + upto), b, sent + from .. sent + upto)
  BY <1>1, <1>8, SelectsSegment
<1> QED BY <1>6, <1>7, <1>10, <1>11 DEF more, chunk

LEMMA TextIs ==
  ASSUME NEW lines, NEW n \in Nat, NEW b, StreamShape(lines, b, n),
         NEW sent \in Nat, NEW last \in sent + 1 .. Len(b), NEW halved, Cut(b, halved, sent),
         NEW from \in 1 .. sent + 1, NEW map, NEW pending,
         Selects(map, pending, b, Kept(from, sent, halved))
  PROVE  /\ Cut(b, CutAlso(b, halved, last), last)
         /\ \E all : Selects(all, pending \o Decoded(SubSeq(b, sent + 1, last)), b,
                             Kept(from, last, CutAlso(b, halved, last)))
<1> DEFINE more == CutAlso(b, halved, last)
           text == Decoded(SubSeq(b, sent + 1, last))
<1>1. Len(b) \in Nat /\ last \in 1 .. Len(b) /\ sent < last
  BY LenProperties DEF StreamShape
<1>2. Cut(b, more, last)
  BY <1>1 DEF Cut, CutAlso
<1>3. PICK new : Selects(new, text, b, Kept(sent + 1, last, more))
  BY DecodedIs
<1>4. Kept(from, sent, halved) = Kept(from, sent, more)
  <2>1. \A p \in from .. sent : p # last /\ p - 1 # last
    BY <1>1
  <2> QED BY <2>1 DEF Kept, CutAlso
<1> HIDE DEF text, more
<1>5. Kept(from, sent, more) \cup Kept(sent + 1, last, more) = Kept(from, last, more)
  <2>1. \A p : p \in from .. last <=> p \in from .. sent \/ p \in sent + 1 .. last
    BY <1>1
  <2> QED BY <2>1 DEF Kept
<1>6. \A k \in Kept(from, sent, more), l \in Kept(sent + 1, last, more) : k < l
  BY <1>1 DEF Kept
<1>7. Kept(from, sent, more) \in SUBSET Int /\ Kept(sent + 1, last, more) \in SUBSET Int
  BY DEF Kept
<1>8. \E all : Selects(all, pending \o text, b, Kept(from, sent, more) \cup Kept(sent + 1, last, more))
  BY ONLY <1>3, <1>4, <1>6, <1>7, SelectsConcat, Selects(map, pending, b, Kept(from, sent, halved))
<1> QED BY <1>2, <1>5, <1>8 DEF text, more

-----------------------------------------------------------------------------
(* The pieces of a text that begins at the byte from of the stream: at the *)
(* head of a line, or in a line that is lost.                              *)

StartsClean(bytes, from, lost) ==
  /\ from = 1 \/ bytes[from - 1].part = "feed" \/ bytes[from - 1].line \in lost
  /\ \A l \in lost : l \in Nat /\ from > 1 /\ l <= bytes[from - 1].line

TextOf(lines, bytes, from, last, halved, lost, map, text) ==
  /\ StreamShape(lines, bytes, Len(lines)) /\ Len(lines) \in Nat
  /\ last \in 1 .. Len(bytes) /\ from \in 1 .. last
  /\ Cut(bytes, halved, last) /\ StartsClean(bytes, from, lost)
  /\ Selects(map, text, bytes, Kept(from, last, halved))

LEMMA OthersKept ==
  ASSUME NEW lines, NEW n, NEW b, StreamShape(lines, b, n), NEW last \in 1 .. Len(b),
         NEW halved, Cut(b, halved, last), NEW from \in 1 .. last, NEW p \in from .. last,
         b[p].part \notin {"lead", "continued"}
  PROVE  p \in Kept(from, last, halved)
<1>1. Len(b) \in Nat
  BY LenProperties DEF StreamShape
<1>2. p \notin halved
  BY DEF Cut
<1>3. ASSUME p - 1 \in halved PROVE FALSE
  <2>1. p - 1 \in 1 .. last /\ b[p - 1].part = "lead"
    BY <1>3 DEF Cut
  <2>2. p - 1 \in 1 .. Len(b) /\ p - 1 < Len(b) /\ (p - 1) + 1 = p
    BY <1>1, <2>1
  <2>3. \A i \in 1 .. Len(b) : i < Len(b) => Follows(b[i], b[i + 1])
    BY DEF StreamShape
  <2>4. Follows(b[p - 1], b[p])
    BY <2>2, <2>3
  <2> QED BY <2>1, <2>4 DEF Follows
<1> QED BY <1>2, <1>3 DEF Kept

LEMMA FeedsOf ==
  ASSUME NEW lines, NEW b, NEW from, NEW last, NEW halved, NEW lost, NEW map, NEW text,
         TextOf(lines, b, from, last, halved, lost, map, text)
  PROVE  /\ Len(text) \in Nat /\ DOMAIN text = 1 .. Len(text) /\ Len(b) \in Nat
         /\ Feeds(text) \subseteq 1 .. Len(text)
         /\ \A f \in 1 .. Len(text) : map[f] \in from .. last /\ map[f] \in 1 .. Len(b) /\ text[f] = b[map[f]]
         /\ \A f \in Feeds(text) : b[map[f]].part = "feed"
         /\ \A p \in from .. last : b[p].part = "feed" => \E f \in Feeds(text) : map[f] = p
<1>1. Len(text) \in Nat /\ DOMAIN text = 1 .. Len(text) /\ Len(b) \in Nat
  BY LenProperties DEF TextOf, Selects, StreamShape
<1>2. \A f \in 1 .. Len(text) : map[f] \in Kept(from, last, halved) /\ text[f] = b[map[f]]
  BY DEF TextOf, Selects
<1>3. \A p \in from .. last : p \in 1 .. Len(b)
  BY <1>1 DEF TextOf
<1>4. ASSUME NEW p \in from .. last, b[p].part = "feed" PROVE \E f \in Feeds(text) : map[f] = p
  <2>1. b[p].part \notin {"lead", "continued"}
    BY <1>4
  <2>2. p \in Kept(from, last, halved)
    BY <2>1, OthersKept DEF TextOf
  <2>3. PICK f \in 1 .. Len(text) : map[f] = p
    BY <2>2 DEF TextOf, Selects
  <2>4. f \in Feeds(text)
    BY <1>1, <1>2, <1>4, <2>3 DEF Feeds
  <2> QED BY <2>3, <2>4
<1> QED BY <1>1, <1>2, <1>3, <1>4 DEF Feeds, Kept

Previous(text, f) == Max({0} \cup {i \in Feeds(text) : i < f})
PieceStart(from, map, text, f) ==
  IF Previous(text, f) = 0 THEN from ELSE map[Previous(text, f)] + 1

LEMMA PieceIs ==
  ASSUME NEW lines, NEW b, NEW from, NEW last, NEW halved, NEW lost, NEW map, NEW text,
         TextOf(lines, b, from, last, halved, lost, map, text), NEW f \in Feeds(text)
  PROVE  LET start == PieceStart(from, map, text, f) IN
         /\ start \in from .. map[f]
         /\ start = from \/ b[start - 1].part = "feed"
         /\ \A p \in start .. map[f] - 1 : b[p].part # "feed"
         /\ \E part : Selects(part, Piece(text, f), b, Kept(start, map[f] - 1, halved))
<1> DEFINE prev == Previous(text, f)
           start == PieceStart(from, map, text, f)
           T == {0} \cup {i \in Feeds(text) : i < f}
<1>1. /\ Len(text) \in Nat /\ DOMAIN text = 1 .. Len(text) /\ Len(b) \in Nat
      /\ Feeds(text) \subseteq 1 .. Len(text)
      /\ \A g \in 1 .. Len(text) : map[g] \in from .. last /\ map[g] \in 1 .. Len(b) /\ text[g] = b[map[g]]
      /\ \A g \in Feeds(text) : b[map[g]].part = "feed"
      /\ \A p \in from .. last : b[p].part = "feed" => \E g \in Feeds(text) : map[g] = p
  BY FeedsOf
<1>2. f \in 1 .. Len(text) /\ map[f] \in from .. last
  BY <1>1
<1>3. prev \in T /\ \A i \in T : i <= prev
  <2>1. T \in SUBSET (0 .. Len(text)) /\ T # {}
    BY <1>1
  <2> HIDE DEF T
  <2>2. Max(T) \in T /\ \A i \in T : i <= Max(T)
    BY <1>1, <2>1, MaxOf
  <2> QED BY <2>2 DEF Previous, T
<1> HIDE DEF prev
<1>4. prev \in 0 .. f - 1
  BY <1>1, <1>2, <1>3
<1>5. start = IF prev = 0 THEN from ELSE map[prev] + 1
  BY DEF PieceStart, prev
<1> HIDE DEF start
<1>6. from \in 1 .. last /\ last \in 1 .. Len(b)
  BY DEF TextOf
<1>7. \A g, h \in 1 .. Len(text) : g < h => map[g] < map[h]
  BY DEF TextOf, Selects
<1>8. prev # 0 => prev \in Feeds(text) /\ prev \in 1 .. Len(text) /\ prev < f
  BY <1>1, <1>3
<1>9. prev # 0 => map[prev] < map[f] /\ map[prev] \in from .. last
  BY <1>1, <1>2, <1>7, <1>8
<1>10. start \in from .. map[f]
  BY <1>2, <1>5, <1>6, <1>9
<1>11. start = from \/ b[start - 1].part = "feed"
  <2>1. CASE prev = 0
    BY <1>5, <2>1
  <2>2. CASE prev # 0
    <3>1. start - 1 = map[prev]
      BY <1>5, <1>6, <1>9, <2>2
    <3> QED BY <1>1, <1>8, <2>2, <3>1
  <2> QED BY <2>1, <2>2
<1>12. ASSUME NEW p \in start .. map[f] - 1, b[p].part = "feed" PROVE FALSE
  <2>1. p \in from .. last /\ p < map[f] /\ p >= start
    BY <1>2, <1>6, <1>10
  <2>2. PICK g \in Feeds(text) : map[g] = p
    BY <1>1, <1>12, <2>1
  <2>3. g \in 1 .. Len(text) /\ g < f
    <3>1. g \in 1 .. Len(text)
      BY <1>1
    <3>2. ~(f < g) /\ g # f
      BY <1>2, <1>7, <2>1, <2>2, <3>1
    <3> QED BY <1>2, <3>1, <3>2
  <2>4. g <= prev
    BY <1>3, <2>3
  <2>5. prev # 0 /\ (g = prev \/ g < prev)
    BY <1>4, <2>3, <2>4
  <2>6. p <= map[prev]
    BY <1>7, <1>8, <1>9, <2>1, <2>2, <2>3, <2>5
  <2> QED BY <1>5, <1>9, <1>6, <2>1, <2>5, <2>6
<1>13. \E part : Selects(part, Piece(text, f), b, Kept(start, map[f] - 1, halved))
  <2> DEFINE K == Selected(map, 1 + prev, f - 1)
  <2>1. 1 + prev \in 1 .. Len(text) + 1 /\ f - 1 \in 0 .. Len(text)
    BY <1>1, <1>2, <1>4
  <2>2. Piece(text, f) = SubSeq(text, 1 + prev, f - 1)
    BY DEF Piece, prev, Previous
  <2>3. Selects(map, text, b, Kept(from, last, halved))
    BY DEF TextOf
  <2>4. \E part : Selects(part, SubSeq(text, 1 + prev, f - 1), b, K)
    BY <2>1, <2>3, SelectsPart
  <2>5. ASSUME NEW h \in 1 + prev .. f - 1 PROVE map[h] \in Kept(start, map[f] - 1, halved)
    <3>1. h \in 1 .. Len(text) /\ h < f /\ prev < h
      BY <1>2, <1>4
    <3>2. map[h] \in Kept(from, last, halved)
      BY <2>3, <3>1 DEF Selects
    <3>3. map[h] < map[f] /\ map[h] \in from .. last
      BY <1>1, <1>2, <1>7, <3>1
    <3>4. map[h] >= start
      <4>1. CASE prev = 0
        BY <1>5, <3>3, <4>1
      <4>2. CASE prev # 0
        <5>1. map[prev] < map[h]
          BY <1>7, <1>8, <3>1, <4>2
        <5> QED BY <1>5, <1>6, <1>9, <3>3, <4>2, <5>1
      <4> QED BY <4>1, <4>2
    <3>5. map[h] \in start .. map[f] - 1
      BY <1>2, <1>6, <1>10, <3>3, <3>4
    <3> QED BY <3>2, <3>5 DEF Kept
  <2>6. ASSUME NEW p \in Kept(start, map[f] - 1, halved) PROVE p \in K
    <3>1. p \in start .. map[f] - 1 /\ p \in Kept(from, last, halved)
      BY <1>2, <1>6, <1>10 DEF Kept
    <3>2. PICK h \in 1 .. Len(text) : map[h] = p
      BY <2>3, <3>1 DEF Selects
    <3>3. p < map[f] /\ p >= start /\ p \in Int
      BY <1>2, <1>6, <1>10, <3>1
    <3>4. h < f
      <4>1. ~(f < h) /\ h # f
        BY <1>2, <1>7, <1>6, <3>2, <3>3
      <4> QED BY <1>2, <4>1
    <3>5. prev < h
      <4>1. CASE prev = 0
        BY <4>1
      <4>2. CASE prev # 0
        <5>1. ~(h < prev) /\ h # prev
          BY <1>5, <1>6, <1>7, <1>8, <1>9, <3>2, <3>3, <4>2
        <5> QED BY <1>4, <5>1
      <4> QED BY <4>1, <4>2
    <3>6. h \in 1 + prev .. f - 1
      BY <1>2, <1>4, <3>4, <3>5
    <3> QED BY <3>2, <3>6 DEF Selected
  <2>7. K = Kept(start, map[f] - 1, halved)
    BY <2>5, <2>6 DEF Selected
  <2> HIDE DEF K
  <2> QED BY <2>2, <2>4, <2>7
<1> QED BY <1>10, <1>11, <1>12, <1>13 DEF start

LEMMA FollowsIs ==
  ASSUME NEW lines, NEW n, NEW b, StreamShape(lines, b, n), NEW p \in 1 .. Len(b), p > 1
  PROVE  p - 1 \in 1 .. Len(b) /\ Follows(b[p - 1], b[p])
<1>1. Len(b) \in Nat
  BY LenProperties DEF StreamShape
<1>2. p - 1 \in 1 .. Len(b) /\ p - 1 < Len(b) /\ (p - 1) + 1 = p
  BY <1>1
<1>3. \A i \in 1 .. Len(b) : i < Len(b) => Follows(b[i], b[i + 1])
  BY DEF StreamShape
<1> QED BY <1>2, <1>3

(* The bytes from start to the feed z are a line, none of it missing: it is *)
(* read, and all of it but the cut characters is there.                    *)
LineBetween(bytes, start, z) ==
  /\ bytes[z].part = "feed" /\ \A p \in start .. z - 1 : bytes[p].part # "feed"
  /\ start = 1 \/ bytes[start - 1].part = "feed"

ReadWhole(lines, bytes, l, halved, lost, piece) ==
  /\ l \notin lost /\ piece # <<>> /\ Head(piece).line = l
  /\ Parses(lines, piece) <=> lines[l].event
  /\ Characters(piece) = Cardinality(Leads(bytes, l) \ halved)

LEMMA WholePiece ==
  ASSUME NEW lines, NEW b, NEW from, NEW last, NEW halved, NEW lost, NEW map, NEW text,
         TextOf(lines, b, from, last, halved, lost, map, text),
         NEW start \in from .. last, NEW z \in start .. last, LineBetween(b, start, z),
         NEW part, NEW piece, Selects(part, piece, b, Kept(start, z - 1, halved))
  PROVE  ReadWhole(lines, b, b[z].line, halved, lost, piece)
<1> USE DEF LineBetween
<1> DEFINE l == b[z].line
           n == Len(lines)
<1>1. /\ StreamShape(lines, b, n) /\ n \in Nat /\ last \in 1 .. Len(b) /\ from \in 1 .. last
      /\ Cut(b, halved, last) /\ StartsClean(b, from, lost) /\ Len(b) \in Nat
  BY LenProperties DEF TextOf, StreamShape
<1>2. start \in 1 .. Len(b) /\ z \in 1 .. Len(b) /\ start <= z /\ from <= start
  BY <1>1
<1>3. \A p \in 1 .. Len(b) : b[p].line \in Nat
  BY <1>1 DEF StreamShape
<1>4. start > 1 => /\ start - 1 \in 1 .. Len(b) /\ b[start - 1].part = "feed"
                   /\ Follows(b[start - 1], b[start])
  BY <1>1, <1>2, FollowsIs
<1>5. b[start].part = "head"
  <2>1. CASE start = 1
    BY <1>1, <2>1 DEF StreamShape
  <2>2. CASE start > 1
    BY <1>4, <2>2 DEF Follows
  <2> QED BY <1>2, <2>1, <2>2
<1>6. start < z
  BY <1>2, <1>5
<1>7. z - 1 \in start .. last /\ z - 1 \in 1 .. Len(b) /\ b[z - 1].part = "tail"
  <2>1. Follows(b[z - 1], b[z]) /\ z - 1 \in 1 .. Len(b)
    BY <1>1, <1>2, <1>6, FollowsIs
  <2> QED BY <1>1, <1>2, <1>6, <2>1 DEF Follows
<1>8. ASSUME NEW p \in start .. z PROVE p \in 1 .. Len(b) /\ b[p].line = l
  <2>1. p \in 1 .. Len(b) /\ p <= z
    BY <1>1, <1>2
  <2>2. \A k \in p .. z - 1 : b[k].part # "feed"
    BY <1>2
  <2> QED BY <1>1, <1>2, <2>1, <2>2, LinesInOrder
<1>9. ASSUME start > 1 PROVE b[start - 1].line < l
  <2>1. start - 1 < z
    BY <1>2
  <2>2. (b[start - 1].part = "feed" /\ start - 1 < z) => b[start - 1].line < b[z].line
    BY <1>1, <1>2, <1>4, <1>9, <2>1, LinesInOrder
  <2> QED BY <1>4, <1>9, <2>1, <2>2
<1>10. l \notin lost
  <2> SUFFICES ASSUME l \in lost PROVE FALSE
    OBVIOUS
  <2>1. from > 1 /\ l <= b[from - 1].line
    BY <1>1 DEF StartsClean
  <2>2. start > 1 /\ from - 1 \in 1 .. Len(b) /\ from - 1 <= start - 1
    BY <1>1, <1>2, <2>1
  <2>3. b[from - 1].line <= b[start - 1].line
    BY <1>1, <1>4, <2>2, LinesInOrder
  <2>4. b[from - 1].line \in Nat /\ b[start - 1].line \in Nat /\ b[z].line \in Nat
    BY <1>2, <1>3, <1>4, <2>2
  <2> QED BY <1>9, <2>1, <2>2, <2>3, <2>4, Z3T(30)
<1>11. start \in Kept(start, z - 1, halved) /\ z - 1 \in Kept(start, z - 1, halved)
  <2>1. start \in Kept(from, last, halved) /\ z - 1 \in Kept(from, last, halved)
    <3>1. start \in from .. last /\ z - 1 \in from .. last
      BY <1>1, <1>2, <1>7
    <3> QED BY <1>1, <1>5, <1>7, <3>1, OthersKept
  <2> QED BY <1>1, <1>2, <1>6, <2>1 DEF Kept
<1>12. piece \in Seq(Bytes) /\ Len(piece) \in Nat /\ DOMAIN piece = 1 .. Len(piece)
  BY LenProperties DEF Selects
<1>13. \A i \in 1 .. Len(piece) : part[i] \in Kept(start, z - 1, halved) /\ piece[i] = b[part[i]]
  BY DEF Selects
<1>14. \A i, j \in 1 .. Len(piece) : i < j => part[i] < part[j]
  BY DEF Selects
<1>15. \A q \in Kept(start, z - 1, halved) : \E i \in 1 .. Len(piece) : part[i] = q
  BY DEF Selects
<1>16. \A q \in Kept(start, z - 1, halved) : q \in start .. z - 1 /\ q \in Int
  BY <1>1 DEF Kept
<1>17. PICK i \in 1 .. Len(piece) : part[i] = start
  BY <1>11, <1>15
<1>18. PICK j \in 1 .. Len(piece) : part[j] = z - 1
  BY <1>11, <1>15
<1>19. 1 \in 1 .. Len(piece) /\ Len(piece) \in 1 .. Len(piece)
  BY <1>12, <1>17
<1>20. i = 1
  <2>1. part[1] >= start
    BY <1>2, <1>13, <1>16, <1>19
  <2>2. ~(1 < i)
    BY <1>13, <1>14, <1>16, <1>17, <1>19, <2>1
  <2> QED BY <1>12, <2>2
<1>21. j = Len(piece)
  <2>1. part[Len(piece)] <= z - 1
    BY <1>2, <1>13, <1>16, <1>19
  <2>2. ~(j < Len(piece))
    BY <1>13, <1>14, <1>16, <1>18, <1>19, <2>1
  <2>3. j \in 1 .. Len(piece) /\ Len(piece) \in Nat
    BY <1>12
  <2>4. j \in Int /\ j <= Len(piece)
    BY <2>3
  <2> QED BY ONLY <2>2, <2>3, <2>4
<1>22. piece # <<>> /\ Head(piece) = b[start] /\ Last(piece) = b[z - 1]
  <2>1. piece[1] = b[start] /\ piece[Len(piece)] = b[z - 1]
    BY <1>13, <1>17, <1>18, <1>20, <1>21
  <2> QED BY <1>12, <1>19, <2>1 DEF Last
<1>23. Head(piece).line = l
  BY <1>2, <1>8, <1>22
<1>24. Parses(lines, piece) <=> lines[l].event
  BY <1>5, <1>7, <1>22, <1>23 DEF Parses
<1>25. Characters(piece) = Cardinality(Leads(b, l) \ halved)
  <2> DEFINE read == {h \in DOMAIN piece : piece[h].part = "lead"}
             there == Leads(b, l) \ halved
             which == [h \in read |-> part[h]]
  <2>1. ASSUME NEW h \in read PROVE h \in 1 .. Len(piece) /\ part[h] \in there
    <3>1. h \in 1 .. Len(piece) /\ b[part[h]].part = "lead" /\ part[h] \in Kept(start, z - 1, halved)
      BY <1>12, <1>13
    <3>2. part[h] \in start .. z /\ part[h] \notin halved
      BY <1>2, <3>1 DEF Kept
    <3>3. part[h] \in 1 .. Len(b) /\ b[part[h]].line = l
      BY <1>8, <3>2
    <3> QED BY <3>1, <3>2, <3>3 DEF Leads
  <2>2. ASSUME NEW q \in there PROVE \E h \in read : part[h] = q
    <3>1. q \in 1 .. Len(b) /\ b[q].line = l /\ b[q].part = "lead" /\ q \notin halved
      BY DEF Leads
    <3>2. q >= start
      <4> SUFFICES ASSUME q < start PROVE FALSE
        BY <1>2, <3>1
      <4>1. start > 1 /\ q <= start - 1
        BY <1>2, <3>1
      <4>2. b[q].line <= b[start - 1].line
        BY <1>1, <1>4, <3>1, <4>1, LinesInOrder
      <4>3. b[q].line \in Nat /\ b[start - 1].line \in Nat
        BY <1>3, <1>4, <3>1, <4>1
      <4> QED BY <1>9, <3>1, <4>1, <4>2, <4>3, Z3T(30)
    <3>3. q < z
      <4> SUFFICES ASSUME z <= q PROVE FALSE
        BY <1>2, <3>1
      <4>1. z < q
        BY <1>2, <3>1
      <4>2. b[z].line < b[q].line
        BY <1>1, <1>2, <3>1, <4>1, LinesInOrder
      <4>3. b[z].line \in Nat
        BY <1>2, <1>3
      <4> QED BY <3>1, <4>2, <4>3
    <3>4. q - 1 \notin halved
      <4> SUFFICES ASSUME q - 1 \in halved PROVE FALSE
        OBVIOUS
      <4>1. q - 1 \in 1 .. last /\ b[q - 1].part = "lead"
        BY <1>1 DEF Cut
      <4>2. Follows(b[q - 1], b[q])
        BY <1>1, <3>1, <4>1, FollowsIs
      <4> QED BY <3>1, <4>1, <4>2 DEF Follows
    <3>5. q \in Kept(start, z - 1, halved)
      BY <1>2, <3>1, <3>2, <3>3, <3>4 DEF Kept
    <3>6. PICK h \in 1 .. Len(piece) : part[h] = q
      BY <1>15, <3>5
    <3>7. h \in read
      BY <1>12, <1>13, <3>1, <3>6
    <3> QED BY <3>6, <3>7
  <2>3. \A g, h \in read : part[g] = part[h] => g = h
    <3> SUFFICES ASSUME NEW g \in read, NEW h \in read, part[g] = part[h], g # h PROVE FALSE
      OBVIOUS
    <3>1. g \in 1 .. Len(piece) /\ h \in 1 .. Len(piece)
      BY <2>1
    <3>2. part[g] \in Int
      BY <1>13, <1>16, <3>1
    <3>3. g < h \/ h < g
      BY <1>12, <3>1
    <3> QED BY <1>14, <3>1, <3>2, <3>3
  <2>4. which \in Bijection(read, there)
    <3> HIDE DEF read, there
    <3> QED BY <2>1, <2>2, <2>3 DEF Bijection, Injection, Surjection, IsInjective
  <2>5. IsFiniteSet(read)
    <3>1. IsFiniteSet(1 .. Len(piece)) /\ read \in SUBSET (1 .. Len(piece))
      BY <1>12, FS_Interval
    <3> HIDE DEF read
    <3> QED BY <3>1, FS_Subset
  <2>6. Characters(piece) = Cardinality(read)
    BY DEF Characters
  <2> HIDE DEF read, there, which
  <2>7. ExistsBijection(read, there)
    BY <2>4 DEF ExistsBijection
  <2>8. Cardinality(there) = Cardinality(read)
    BY <2>5, <2>7, FS_Bijection
  <2> QED BY <2>6, <2>8 DEF there
<1> QED BY <1>10, <1>22, <1>23, <1>24, <1>25 DEF ReadWhole

(* A piece from the middle of its line is not. *)
LEMMA BrokenPiece ==
  ASSUME NEW lines, NEW b, NEW from, NEW last, NEW halved, NEW lost, NEW map, NEW text,
         TextOf(lines, b, from, last, halved, lost, map, text),
         NEW z \in from .. last,
         \A p \in from .. z - 1 : b[p].part # "feed",
         from > 1, b[from - 1].part # "feed",
         NEW part, NEW piece, Selects(part, piece, b, Kept(from, z - 1, halved))
  PROVE  b[z].line \in lost /\ ~Parses(lines, piece)
<1>1. /\ StreamShape(lines, b, Len(lines)) /\ Len(lines) \in Nat /\ last \in 1 .. Len(b)
      /\ from \in 1 .. last /\ StartsClean(b, from, lost) /\ Len(b) \in Nat
  BY LenProperties DEF TextOf, StreamShape
<1>2. from - 1 \in 1 .. Len(b) /\ z \in 1 .. Len(b) /\ from - 1 <= z
  BY <1>1
<1>3. \A p \in from - 1 .. z - 1 : b[p].part # "feed"
  BY <1>1
<1>4. b[from - 1].line = b[z].line
  BY <1>1, <1>2, <1>3, LinesInOrder
<1>5. b[z].line \in lost
  BY <1>1, <1>4 DEF StartsClean
<1>6. ASSUME piece # <<>>, Head(piece).part = "head" PROVE FALSE
  <2>1. piece \in Seq(Bytes) /\ Len(piece) \in Nat
    BY LenProperties DEF Selects
  <2>2. 1 \in 1 .. Len(piece) /\ Head(piece) = piece[1]
    BY <1>6, <2>1
  <2>3. part[1] \in Kept(from, z - 1, halved) /\ b[part[1]].part = "head"
    BY <1>6, <2>2 DEF Selects
  <2>4. part[1] \in 1 .. Len(b) /\ part[1] > 1 /\ part[1] - 1 \in from - 1 .. z - 1
    BY <1>1, <1>2, <2>3, Z3T(30) DEF Kept
  <2>5. Follows(b[part[1] - 1], b[part[1]])
    BY <1>1, <2>4, FollowsIs
  <2> QED BY <1>3, <2>3, <2>4, <2>5 DEF Follows
<1> QED BY <1>5, <1>6 DEF Parses

LEMMA PieceReads ==
  ASSUME NEW lines, NEW b, NEW from, NEW last, NEW halved, NEW lost, NEW map, NEW text,
         TextOf(lines, b, from, last, halved, lost, map, text), NEW f \in Feeds(text)
  PROVE  LET l == text[f].line
             piece == Piece(text, f)
         IN  /\ l \in 1 .. Len(lines) /\ lines[l].ends
             /\ Parses(lines, piece) <=> l \notin lost /\ lines[l].event
             /\ l \notin lost => /\ Head(piece).line = l
                               /\ Characters(piece) = Cardinality(Leads(b, l) \ halved)
<1> DEFINE z == map[f]
           piece == Piece(text, f)
           start == PieceStart(from, map, text, f)
<1>1. f \in 1 .. Len(text) /\ z \in from .. last /\ z \in 1 .. Len(b) /\ text[f] = b[z] /\ b[z].part = "feed"
  BY FeedsOf
<1>2. /\ start \in from .. z
      /\ start = from \/ b[start - 1].part = "feed"
      /\ \A p \in start .. z - 1 : b[p].part # "feed"
      /\ \E part : Selects(part, piece, b, Kept(start, z - 1, halved))
  BY PieceIs
<1>3. PICK part : Selects(part, piece, b, Kept(start, z - 1, halved))
  BY <1>2
<1> HIDE DEF z, piece, start
<1>4. from \in 1 .. last /\ last \in 1 .. Len(b)
  BY DEF TextOf
<1>5. b[z].line \in 1 .. Len(lines) /\ lines[b[z].line].ends
  BY <1>1 DEF TextOf, StreamShape
<1>6. CASE start = 1 \/ b[start - 1].part = "feed"
  <2>1. start \in from .. last /\ z \in start .. last
    BY <1>1, <1>2, <1>4
  <2>2. ReadWhole(lines, b, b[z].line, halved, lost, piece)
    <3>1. LineBetween(b, start, z)
      BY <1>1, <1>2, <1>6 DEF LineBetween
    <3>2. TextOf(lines, b, from, last, halved, lost, map, text)
      OBVIOUS
    <3> QED BY ONLY <1>3, <2>1, <3>1, <3>2, WholePiece
  <2> QED BY <1>1, <1>5, <2>2 DEF piece, ReadWhole
<1>7. CASE ~(start = 1 \/ b[start - 1].part = "feed")
  <2>1. start = from /\ from > 1
    BY <1>2, <1>4, <1>7
  <2>2. b[z].line \in lost /\ ~Parses(lines, piece)
    BY <1>1, <1>2, <1>3, <1>7, <2>1, BrokenPiece, Z3T(30)
  <2> QED BY <1>1, <1>5, <2>2 DEF piece
<1> QED BY <1>6, <1>7

LEMMA FeedsInOrder ==
  ASSUME NEW lines, NEW b, NEW from, NEW last, NEW halved, NEW lost, NEW map, NEW text,
         TextOf(lines, b, from, last, halved, lost, map, text),
         NEW f \in Feeds(text), NEW g \in Feeds(text), f < g
  PROVE  text[f].line < text[g].line
<1>1. /\ f \in 1 .. Len(text) /\ map[f] \in 1 .. Len(b) /\ text[f] = b[map[f]] /\ b[map[f]].part = "feed"
      /\ g \in 1 .. Len(text) /\ map[g] \in 1 .. Len(b) /\ text[g] = b[map[g]]
  BY FeedsOf
<1>2. map[f] < map[g]
  BY <1>1 DEF TextOf, Selects
<1>3. map[f] <= map[g] /\ StreamShape(lines, b, Len(lines)) /\ Len(lines) \in Nat
  BY <1>1, <1>2 DEF TextOf
<1> QED BY <1>1, <1>2, <1>3, LinesInOrder

-----------------------------------------------------------------------------
(* The lines that are complete when so many bytes have been sent. *)
LinesIn(bytes, sent) ==
  Max({0} \cup {bytes[i].line : i \in {j \in 1 .. sent : bytes[j].part = "feed"}})

LastFeedSent(bytes, sent) ==
  \/ LinesIn(bytes, sent) = 0
  \/ \E i \in 1 .. sent : bytes[i].part = "feed" /\ bytes[i].line = LinesIn(bytes, sent)

LEMMA LinesInIs ==
  ASSUME NEW lines, NEW n \in Nat, NEW b, StreamShape(lines, b, n), NEW sent \in 0 .. Len(b)
  PROVE  /\ LinesIn(b, sent) \in 0 .. n
         /\ \A i \in 1 .. sent : b[i].part = "feed" => b[i].line <= LinesIn(b, sent)
         /\ LastFeedSent(b, sent)
<1> DEFINE S == {0} \cup {b[i].line : i \in {j \in 1 .. sent : b[j].part = "feed"}}
<1>1. Len(b) \in Nat
  BY LenProperties DEF StreamShape
<1>2. \A i \in 1 .. sent : i \in 1 .. Len(b)
  BY <1>1
<1>3. \A i \in 1 .. sent : b[i].line \in 0 .. n
  BY <1>2 DEF StreamShape
<1>4. S \in SUBSET (0 .. n) /\ S # {}
  BY <1>3
<1>5. Max(S) \in S /\ \A m \in S : m <= Max(S)
  <2> HIDE DEF S
  <2> QED BY <1>4, MaxOf
<1>6. LinesIn(b, sent) = Max(S)
  BY DEF LinesIn
<1>7. \A i \in 1 .. sent : b[i].part = "feed" => b[i].line \in S
  OBVIOUS
<1>8. \A m \in S : m = 0 \/ \E i \in 1 .. sent : b[i].part = "feed" /\ b[i].line = m
  OBVIOUS
<1> HIDE DEF S
<1> QED BY <1>4, <1>5, <1>6, <1>7, <1>8 DEF LastFeedSent

ReadNow(lines, lost, text) ==
  {l \in {text[f].line : f \in Feeds(text)} : l \notin lost /\ lines[l].event}

(* What is readable of the stream when it has come to the byte last. *)
LEMMA ReadableAfter ==
  ASSUME NEW lines, NEW b, NEW from, NEW last, NEW halved, NEW lost, NEW map, NEW text,
         TextOf(lines, b, from, last, halved, lost, map, text), IsStream(lines),
         NEW sent \in Nat, sent < last, from <= sent + 1,
         \A p \in from .. sent : b[p].part # "feed"
  PROVE  LET before == Readable(lines, LinesIn(b, sent), lost)
             now == ReadNow(lines, lost, text)
         IN  /\ Readable(lines, LinesIn(b, last), lost) = before \cup now
             /\ \A l \in before, m \in now : l < m
             /\ before \subseteq 1 .. Len(lines) /\ now \subseteq 1 .. Len(lines)
<1> DEFINE before == Readable(lines, LinesIn(b, sent), lost)
           now == ReadNow(lines, lost, text)
           upto == LinesIn(b, sent)
           after == LinesIn(b, last)
           n == Len(lines)
<1>1. /\ StreamShape(lines, b, n) /\ n \in Nat /\ last \in 1 .. Len(b) /\ from \in 1 .. last
      /\ Len(b) \in Nat /\ DOMAIN lines = 1 .. n
  BY LenProperties, LinesOf DEF TextOf, StreamShape
<1>2. sent \in 0 .. Len(b) /\ last \in 0 .. Len(b)
  BY <1>1
<1> HIDE DEF upto, after, n
<1>3. /\ upto \in 0 .. n
      /\ \A i \in 1 .. sent : b[i].part = "feed" => b[i].line <= upto
      /\ upto = 0 \/ \E i \in 1 .. sent : b[i].part = "feed" /\ b[i].line = upto
  <2>1. /\ LinesIn(b, sent) \in 0 .. n
        /\ \A i \in 1 .. sent : b[i].part = "feed" => b[i].line <= LinesIn(b, sent)
        /\ LinesIn(b, sent) = 0 \/ \E i \in 1 .. sent : b[i].part = "feed" /\ b[i].line = LinesIn(b, sent)
    BY ONLY <1>1, <1>2, LinesInIs, ZenonT(30) DEF LastFeedSent
  <2> QED BY <2>1 DEF upto
<1>4. /\ after \in 0 .. n
      /\ \A i \in 1 .. last : b[i].part = "feed" => b[i].line <= after
      /\ after = 0 \/ \E i \in 1 .. last : b[i].part = "feed" /\ b[i].line = after
  <2>1. /\ LinesIn(b, last) \in 0 .. n
        /\ \A i \in 1 .. last : b[i].part = "feed" => b[i].line <= LinesIn(b, last)
        /\ LinesIn(b, last) = 0 \/ \E i \in 1 .. last : b[i].part = "feed" /\ b[i].line = LinesIn(b, last)
    BY ONLY <1>1, <1>2, LinesInIs, ZenonT(30) DEF LastFeedSent
  <2> QED BY <2>1 DEF after
<1>5. upto <= after
  <2>1. \A i \in 1 .. sent : i \in 1 .. last
    BY <1>1
  <2> QED BY <1>3, <1>4, <2>1
<1>6. \A p \in 1 .. Len(b) : b[p].line \in 1 .. n /\ (b[p].part = "feed" => lines[b[p].line].ends)
  BY <1>1 DEF StreamShape
<1>7. ASSUME NEW f \in Feeds(text)
      PROVE  /\ text[f].line \in 1 .. n /\ lines[text[f].line].ends
             /\ upto < text[f].line /\ text[f].line <= after
  <2>1. /\ map[f] \in from .. last /\ map[f] \in 1 .. Len(b) /\ text[f] = b[map[f]]
        /\ b[map[f]].part = "feed"
    BY FeedsOf
  <2>2. map[f] > sent /\ map[f] \in 1 .. last
    BY <1>1, <2>1
  <2>3. b[map[f]].line <= after
    BY <1>4, <2>1, <2>2
  <2>4. b[map[f]].line \in 1 .. n /\ lines[b[map[f]].line].ends
    BY <1>6, <2>1
  <2>5. upto < b[map[f]].line
    <3>1. CASE upto = 0
      BY <2>4, <3>1
    <3>2. CASE upto # 0
      <4>1. PICK i \in 1 .. sent : b[i].part = "feed" /\ b[i].line = upto
        BY <1>3, <3>2
      <4>2. i \in 1 .. Len(b) /\ i < map[f]
        BY <1>1, <2>2
      <4> QED BY <1>1, <2>1, <4>1, <4>2, LinesInOrder
    <3> QED BY <3>1, <3>2
  <2> QED BY <2>1, <2>3, <2>4, <2>5
<1>8. ASSUME NEW l \in Readable(lines, after, lost), l \notin before PROVE l \in now
  <2>1. l \in 1 .. n /\ lines[l].event /\ lines[l].ends /\ l <= after /\ l \notin lost
    BY <1>1 DEF Readable
  <2>2. upto < l
    BY <1>1, <1>3, <1>8, <2>1 DEF Readable, upto
  <2>3. PICK i \in 1 .. last : b[i].part = "feed" /\ b[i].line = l
    <3>1. PICK j \in 1 .. last : b[j].part = "feed" /\ b[j].line = after
      BY <1>3, <1>4, <2>1
    <3>2. CASE l = after
      BY <3>1, <3>2
    <3>3. CASE l < after
      <4>1. j \in 1 .. Len(b) /\ l \in Nat \ {0} /\ l < b[j].line
        BY <1>1, <2>1, <3>1, <3>3
      <4>2. PICK i \in 1 .. j - 1 : b[i].part = "feed" /\ b[i].line = l
        BY ONLY <1>1, <4>1, FeedBefore
      <4>3. i \in 1 .. last
        BY <1>1
      <4> QED BY <4>2, <4>3
    <3> QED BY <1>4, <2>1, <3>2, <3>3
  <2>4. i \in from .. last
    <3>1. ~(i \in 1 .. sent)
      BY <1>3, <2>1, <2>2, <2>3
    <3> QED BY <1>1, <3>1
  <2>5. PICK f \in Feeds(text) : map[f] = i
    BY <2>3, <2>4, FeedsOf
  <2>6. text[f].line = l
    BY <2>3, <2>5, FeedsOf
  <2> QED BY <2>1, <2>6 DEF ReadNow
<1>9. ASSUME NEW l \in now
      PROVE  l \in Readable(lines, after, lost) /\ upto < l /\ l \in 1 .. n
  <2>1. PICK f \in Feeds(text) : l = text[f].line
    BY DEF ReadNow
  <2> QED BY <1>1, <1>7, <2>1 DEF ReadNow, Readable
<1>10. ASSUME NEW l \in before PROVE l \in Readable(lines, after, lost) /\ l <= upto /\ l \in 1 .. n
  <2>1. l \in 1 .. n /\ lines[l].event /\ lines[l].ends /\ l <= upto /\ l \notin lost
    BY <1>1 DEF Readable, upto
  <2>2. l <= after
    BY <1>3, <1>4, <1>5, <2>1
  <2> QED BY <1>1, <2>1, <2>2 DEF Readable
<1>11. \A l \in before, m \in now : l < m
  BY <1>3, <1>9, <1>10
<1>12. Readable(lines, after, lost) = before \cup now
  BY <1>8, <1>9, <1>10
<1> QED BY <1>9, <1>10, <1>11, <1>12 DEF after, n

-----------------------------------------------------------------------------
(* The last of the lines that carry something, by the feeds of the text.   *)
Renamed(m, E) == {m[f] : f \in E}

(* The numbers in A come before those that m gives the members of E. *)
InOrder(n, A, k, E, m) ==
  /\ n \in Nat /\ A \in SUBSET (1 .. n) /\ k \in Nat /\ E \in SUBSET (1 .. k)
  /\ \A f \in E : m[f] \in 1 .. n
  /\ \A f, g \in E : f < g => m[f] < m[g]
  /\ \A a \in A, f \in E : a < m[f]

LEMMA LastOfMore ==
  ASSUME NEW n, NEW A, NEW k, NEW E, NEW m, InOrder(n, A, k, E, m), E # {}
  PROVE  Max(A \cup Renamed(m, E)) = m[Max(E)]
<1> DEFINE B == A \cup Renamed(m, E)
<1>0. /\ n \in Nat /\ A \in SUBSET (1 .. n) /\ k \in Nat /\ E \in SUBSET (1 .. k)
      /\ \A f \in E : m[f] \in 1 .. n
      /\ \A f, g \in E : f < g => m[f] < m[g]
      /\ \A a \in A, f \in E : a < m[f]
  BY DEF InOrder
<1>1. E \in SUBSET (0 .. k) /\ k \in Nat
  BY <1>0
<1>2. Max(E) \in E /\ \A f \in E : f <= Max(E)
  BY <1>1, MaxOf
<1>3. B \in SUBSET (0 .. n) /\ m[Max(E)] \in B
  <2>1. \A x \in Renamed(m, E) : x \in 1 .. n
    BY <1>0 DEF Renamed
  <2>2. m[Max(E)] \in Renamed(m, E)
    BY <1>2 DEF Renamed
  <2>3. A \subseteq 0 .. n
    BY <1>0
  <2>4. Renamed(m, E) \subseteq 0 .. n
    BY <1>0, <2>1
  <2> HIDE DEF B
  <2>5. B = A \cup Renamed(m, E)
    BY DEF B
  <2>6. B \subseteq 0 .. n
    BY <2>3, <2>4, <2>5, Zenon
  <2>7. m[Max(E)] \in B
    BY <2>2, <2>5, Zenon
  <2> QED BY <2>6, <2>7, Zenon
<1>4. Max(B) \in B /\ \A x \in B : x <= Max(B)
  <2>1. B # {}
    BY <1>3
  <2> HIDE DEF B
  <2> QED BY <1>0, <1>3, <2>1, MaxOf
<1>5. m[Max(E)] <= Max(B) /\ m[Max(E)] \in Int /\ Max(B) \in Int
  <2> HIDE DEF B
  <2>1. m[Max(E)] \in 0 .. n /\ Max(B) \in 0 .. n
    BY <1>3, <1>4
  <2> QED BY <1>0, <1>3, <1>4, <2>1
<1>6. Max(B) <= m[Max(E)]
  <2>1. CASE Max(B) \in A
    <3>1. Max(B) < m[Max(E)]
      BY <1>0, <1>2, <2>1
    <3> QED BY <1>5, <3>1
  <2>2. CASE Max(B) \in Renamed(m, E)
    <3>1. PICK f \in E : Max(B) = m[f]
      BY <2>2 DEF Renamed
    <3>2. f \in 1 .. k /\ Max(E) \in 1 .. k /\ f <= Max(E)
      BY <1>0, <1>2
    <3>3. f = Max(E) \/ f < Max(E)
      BY <1>0, <3>2
    <3>4. f = Max(E) \/ m[f] < m[Max(E)]
      BY <1>0, <1>2, <3>3
    <3> HIDE DEF B
    <3> QED BY <1>5, <3>1, <3>4
  <2> QED BY <1>4, <2>1, <2>2
<1> HIDE DEF B
<1>7. Max(B) = m[Max(E)]
  BY <1>5, <1>6
<1> QED BY <1>7 DEF B

With(val, none, S) == {l \in S : val[l] # none}
FeedsWith(val, none, m, E) == {f \in E : val[m[f]] # none}

LEMMA LastValue ==
  ASSUME NEW n, NEW before, NEW k, NEW E, NEW m, InOrder(n, before, k, E, m), NEW val, NEW none
  PROVE  LET all == With(val, none, before \cup Renamed(m, E))
             old == With(val, none, before)
             new == FeedsWith(val, none, m, E)
         IN  /\ new = {} => all = old
             /\ new # {} => all # {} /\ Max(all) = m[Max(new)] /\ Max(new) \in E
             /\ old # {} => Max(old) \in before
<1> DEFINE all == With(val, none, before \cup Renamed(m, E))
           old == With(val, none, before)
           new == {f \in E : val[m[f]] # none}
<1>1. all = old \cup Renamed(m, new)
  BY DEF With, Renamed
<1>2. new = {} => all = old
  BY <1>1 DEF Renamed
<1>3. ASSUME new # {} PROVE all # {} /\ Max(all) = m[Max(new)] /\ Max(new) \in E
  <2>1. InOrder(n, old, k, new, m)
    BY DEF InOrder, With
  <2>2. new \in SUBSET E /\ new \in SUBSET (0 .. k) /\ k \in Nat
    <3>1. k \in Nat /\ E \subseteq 0 .. k
      BY DEF InOrder
    <3>2. new \subseteq E
      OBVIOUS
    <3> HIDE DEF new
    <3> QED BY <3>1, <3>2, Zenon
  <2>3. Renamed(m, new) # {}
    BY <1>3 DEF Renamed
  <2> HIDE DEF all, old, new
  <2>4. Max(new) \in new
    BY <1>3, <2>2, MaxOf
  <2>5. Max(old \cup Renamed(m, new)) = m[Max(new)]
    BY <1>3, <2>1, LastOfMore
  <2> QED BY <1>1, <2>2, <2>3, <2>4, <2>5
<1>4. ASSUME old # {} PROVE Max(old) \in before
  <2>1. \A a \in old : a \in before
    BY DEF With
  <2>2. before \subseteq 0 .. n /\ n \in Nat
    BY DEF InOrder
  <2> HIDE DEF old
  <2>3. old \in SUBSET (0 .. n)
    BY <2>1, <2>2, Zenon
  <2>4. Max(old) \in old
    BY <1>4, <2>2, <2>3, MaxOf
  <2> QED BY <2>1, <2>4
<1>5. FeedsWith(val, none, m, E) = new
  BY DEF FeedsWith
<1> HIDE DEF new, old, all
<1> QED BY <1>2, <1>3, <1>4, <1>5 DEF all, old

CharactersKept(lines, bytes, halved) ==
  [l \in DOMAIN lines |-> Cardinality(Leads(bytes, l) \ halved)]

(* The reader has the id, the usage and, but for cut characters, the text  *)
(* of the complete lines that are not lost.                                *)
ReadSoFar(lines, bytes, sent, reader, lost, halved) ==
  LET upto == LinesIn(bytes, sent) IN
  /\ reader.id = LastId(lines, upto, lost)
  /\ reader.usage = LastUsage(lines, upto, lost)
  /\ reader.text = Sum(CharactersKept(lines, bytes, halved), Readable(lines, upto, lost))

LEMMA KeptNumbers ==
  ASSUME NEW lines, IsStream(lines), NEW b, StreamShape(lines, b, Len(lines)), NEW halved, NEW l \in 1 .. Len(lines)
  PROVE  /\ IsFiniteSet(Leads(b, l) \ halved)
         /\ CharactersKept(lines, b, halved)[l] = Cardinality(Leads(b, l) \ halved)
         /\ CharactersKept(lines, b, halved)[l] \in Nat
<1>1. IsFiniteSet(Leads(b, l)) /\ DOMAIN lines = 1 .. Len(lines)
  BY LinesOf DEF StreamShape
<1>2. IsFiniteSet(Leads(b, l) \ halved)
  BY <1>1, FS_Difference
<1> QED BY <1>1, <1>2, FS_CardinalityType DEF CharactersKept

(* What a reader makes of the feeds of a text that end an event. *)
EventsIn(lines, text) == {f \in Feeds(text) : Parses(lines, Piece(text, f))}
LinesOfFeeds(text) == [f \in Feeds(text) |-> text[f].line]

LEMMA EventsAre ==
  ASSUME NEW lines, NEW b, NEW from, NEW last, NEW halved, NEW lost, NEW map, NEW text,
         TextOf(lines, b, from, last, halved, lost, map, text), IsStream(lines)
  PROVE  LET m == LinesOfFeeds(text)
             events == EventsIn(lines, text)
         IN  /\ Len(text) \in Nat /\ events \in SUBSET (1 .. Len(text))
             /\ \A f \in events : m[f] \in 1 .. Len(lines)
             /\ \A f, g \in events : f < g => m[f] < m[g]
             /\ ReadNow(lines, lost, text) = Renamed(m, events)
             /\ \A f \in events :
                  /\ Head(Piece(text, f)).line = m[f]
                  /\ Characters(Piece(text, f)) = Cardinality(Leads(b, m[f]) \ halved)
<1> DEFINE m == LinesOfFeeds(text)
           events == EventsIn(lines, text)
<1>1. Len(text) \in Nat /\ Feeds(text) \subseteq 1 .. Len(text)
  BY FeedsOf
<1>2. \A f \in Feeds(text) : m[f] = text[f].line
  BY DEF LinesOfFeeds
<1>3. ASSUME NEW f \in Feeds(text)
      PROVE  /\ m[f] \in 1 .. Len(lines)
             /\ f \in events <=> m[f] \notin lost /\ lines[m[f]].event
             /\ m[f] \notin lost => /\ Head(Piece(text, f)).line = m[f]
                                  /\ Characters(Piece(text, f)) = Cardinality(Leads(b, m[f]) \ halved)
  <2>1. /\ text[f].line \in 1 .. Len(lines)
        /\ Parses(lines, Piece(text, f)) <=> text[f].line \notin lost /\ lines[text[f].line].event
        /\ text[f].line \notin lost =>
             /\ Head(Piece(text, f)).line = text[f].line
             /\ Characters(Piece(text, f)) = Cardinality(Leads(b, text[f].line) \ halved)
    BY PieceReads
  <2> QED BY <1>2, <2>1 DEF EventsIn
<1>4. ASSUME NEW f \in Feeds(text), NEW g \in Feeds(text), f < g PROVE m[f] < m[g]
  BY <1>2, <1>4, FeedsInOrder
<1>5. \A f \in events : f \in Feeds(text)
  BY DEF EventsIn
<1>6. ReadNow(lines, lost, text) = Renamed(m, events)
  <2>1. ASSUME NEW l \in ReadNow(lines, lost, text) PROVE l \in Renamed(m, events)
    <3>1. PICK f \in Feeds(text) : l = text[f].line /\ l \notin lost /\ lines[l].event
      BY DEF ReadNow
    <3> HIDE DEF m, events
    <3>2. f \in events /\ m[f] = l
      BY <1>2, <1>3, <3>1
    <3> QED BY <3>2 DEF Renamed
  <2>2. ASSUME NEW l \in Renamed(m, events) PROVE l \in ReadNow(lines, lost, text)
    <3>1. PICK f \in events : l = m[f]
      BY DEF Renamed
    <3> HIDE DEF m, events
    <3>2. f \in Feeds(text) /\ m[f] \notin lost /\ lines[m[f]].event
      BY <1>3, <1>5
    <3> QED BY <1>2, <3>1, <3>2 DEF ReadNow
  <2> QED BY <2>1, <2>2
<1> HIDE DEF m, events
<1>7. events \in SUBSET (1 .. Len(text))
  BY <1>1, <1>5
<1>8. \A f \in events : m[f] \in 1 .. Len(lines) /\ m[f] \notin lost
  BY <1>3, <1>5
<1>9. \A f, g \in events : f < g => m[f] < m[g]
  BY <1>4, <1>5
<1>10. \A f \in events : /\ Head(Piece(text, f)).line = m[f]
                        /\ Characters(Piece(text, f)) = Cardinality(Leads(b, m[f]) \ halved)
  BY <1>3, <1>5, <1>8
<1> QED BY <1>1, <1>6, <1>7, <1>8, <1>9, <1>10 DEF m, events

LEMMA LinesRead ==
  ASSUME NEW lines, NEW b, NEW from, NEW last, NEW halved, NEW lost, NEW map, NEW text,
         TextOf(lines, b, from, last, halved, lost, map, text), IsStream(lines),
         NEW sent \in Nat, sent < last, from <= sent + 1,
         \A p \in from .. sent : b[p].part # "feed",
         NEW reader, ReadSoFar(lines, b, sent, reader, lost, halved)
  PROVE  ReadSoFar(lines, b, last, ReadLines(lines, reader, text), lost, halved)
<1> DEFINE m == LinesOfFeeds(text)
           events == EventsIn(lines, text)
           before == Readable(lines, LinesIn(b, sent), lost)
           all == Readable(lines, LinesIn(b, last), lost)
           now == Renamed(m, events)
           ids == [l \in 1 .. Len(lines) |-> lines[l].id]
           usages == [l \in 1 .. Len(lines) |-> lines[l].usage]
           kept == CharactersKept(lines, b, halved)
           line(f) == lines[Head(Piece(text, f)).line]
           named == {f \in events : line(f).id # "none"}
           metered == {f \in events : line(f).usage # NoUsage}
           characters == [f \in events |-> Characters(Piece(text, f))]
           after == ReadLines(lines, reader, text)
<1>1. /\ Len(text) \in Nat /\ events \in SUBSET (1 .. Len(text))
      /\ \A f \in events : m[f] \in 1 .. Len(lines)
      /\ \A f, g \in events : f < g => m[f] < m[g]
      /\ ReadNow(lines, lost, text) = now
      /\ \A f \in events :
           /\ Head(Piece(text, f)).line = m[f]
           /\ Characters(Piece(text, f)) = Cardinality(Leads(b, m[f]) \ halved)
  BY EventsAre
<1>2. /\ all = before \cup ReadNow(lines, lost, text)
      /\ \A l \in before, k \in ReadNow(lines, lost, text) : l < k
      /\ before \subseteq 1 .. Len(lines) /\ ReadNow(lines, lost, text) \subseteq 1 .. Len(lines)
  BY ReadableAfter
<1>3. Len(lines) \in Nat /\ DOMAIN lines = 1 .. Len(lines) /\ StreamShape(lines, b, Len(lines))
  BY LinesOf DEF TextOf
<1>4. /\ after.id = IF named = {} THEN reader.id ELSE line(Max(named)).id
      /\ after.usage = IF metered = {} THEN reader.usage ELSE line(Max(metered)).usage
      /\ after.text = reader.text + Sum(characters, events)
  <2> DEFINE pieces == [f \in Feeds(text) |-> Piece(text, f)]
             line2(f) == lines[Head(pieces[f]).line]
             found == {f \in Feeds(text) : Parses(lines, pieces[f])}
             named2 == {f \in found : line2(f).id # "none"}
             metered2 == {f \in found : line2(f).usage # NoUsage}
  <2>1. \A f \in Feeds(text) : pieces[f] = Piece(text, f)
    OBVIOUS
  <2>2. found = events
    BY <2>1 DEF EventsIn
  <2>3. \A f \in found : f \in Feeds(text)
    OBVIOUS
  <2> HIDE DEF pieces
  <2>4. named2 = named /\ metered2 = metered
    BY <2>1, <2>2, <2>3
  <2>5. \A f \in events : line2(f) = line(f)
    BY <2>1, <2>2, <2>3
  <2>6. [f \in found |-> Characters(pieces[f])] = characters
    BY <2>1, <2>2, <2>3
  <2>7. /\ after.id = IF named2 = {} THEN reader.id ELSE line2(Max(named2)).id
        /\ after.usage = IF metered2 = {} THEN reader.usage ELSE line2(Max(metered2)).usage
        /\ after.text = reader.text + Sum([f \in found |-> Characters(pieces[f])], found)
    BY DEF ReadLines, pieces
  <2>8. named # {} => Max(named) \in events
    <3>1. named \in SUBSET (0 .. Len(text))
      BY <1>1
    <3>2. \A f \in named : f \in events
      OBVIOUS
    <3> HIDE DEF named
    <3> QED BY <1>1, <3>1, <3>2, MaxOf
  <2>9. metered # {} => Max(metered) \in events
    <3>1. metered \in SUBSET (0 .. Len(text))
      BY <1>1
    <3>2. \A f \in metered : f \in events
      OBVIOUS
    <3> HIDE DEF metered
    <3> QED BY <1>1, <3>1, <3>2, MaxOf
  <2> HIDE DEF after, line, line2, named, metered, named2, metered2, found, characters, events
  <2> QED BY <2>2, <2>4, <2>5, <2>6, <2>7, <2>8, <2>9
<1>5. /\ reader.id = LastId(lines, LinesIn(b, sent), lost)
      /\ reader.usage = LastUsage(lines, LinesIn(b, sent), lost)
      /\ reader.text = Sum(kept, before)
  BY DEF ReadSoFar
<1> HIDE DEF after, m, events, all, before, now
<1>6. InOrder(Len(lines), before, Len(text), events, m)
  <2>1. \A f \in events : m[f] \in now
    BY DEF now, Renamed
  <2> QED BY <1>1, <1>2, <1>3, <2>1 DEF InOrder
<1>7. after.id = LastId(lines, LinesIn(b, last), lost)
  <2> DEFINE old == With(ids, "none", before)
             new == FeedsWith(ids, "none", m, events)
             both == With(ids, "none", before \cup now)
  <2>1. /\ new = {} => both = old
        /\ new # {} => both # {} /\ Max(both) = m[Max(new)] /\ Max(new) \in events
    <3> DEFINE none == "none"
    <3> HIDE DEF ids, none
    <3>1. /\ FeedsWith(ids, none, m, events) = {} => With(ids, none, before \cup Renamed(m, events)) = With(ids, none, before)
          /\ FeedsWith(ids, none, m, events) # {} =>
               /\ With(ids, none, before \cup Renamed(m, events)) # {}
               /\ Max(With(ids, none, before \cup Renamed(m, events))) = m[Max(FeedsWith(ids, none, m, events))]
               /\ Max(FeedsWith(ids, none, m, events)) \in events
      BY ONLY <1>6, LastValue, SMTT(30)
    <3> QED BY <3>1 DEF now, none
  <2>2. \A l \in 1 .. Len(lines) : ids[l] = lines[l].id
    OBVIOUS
  <2>3. \A f \in events : line(f).id = ids[m[f]]
    BY <1>1, <2>2
  <2>4. named = new
    BY <2>3 DEF FeedsWith
  <2>5. reader.id = IF old = {} THEN "none" ELSE lines[Max(old)].id
    BY <1>2, <1>5, <2>2 DEF LastId, With, before
  <2>6. LastId(lines, LinesIn(b, last), lost) = IF both = {} THEN "none" ELSE lines[Max(both)].id
    <3>1. before \cup now = all /\ all \subseteq 1 .. Len(lines)
      BY <1>1, <1>2
    <3>2. {l \in all : lines[l].id # "none"} = both
      BY <2>2, <3>1 DEF With
    <3> QED BY <3>2 DEF LastId, all
  <2>7. \A f \in events : line(f).id = lines[m[f]].id
    BY <1>1
  <2> HIDE DEF old, new, both, named, line, ids
  <2> QED BY <1>4, <2>1, <2>4, <2>5, <2>6, <2>7
<1>8. after.usage = LastUsage(lines, LinesIn(b, last), lost)
  <2> DEFINE old == With(usages, NoUsage, before)
             new == FeedsWith(usages, NoUsage, m, events)
             both == With(usages, NoUsage, before \cup now)
  <2>1. /\ new = {} => both = old
        /\ new # {} => both # {} /\ Max(both) = m[Max(new)] /\ Max(new) \in events
    <3> HIDE DEF usages
    <3>1. /\ FeedsWith(usages, NoUsage, m, events) = {} => With(usages, NoUsage, before \cup Renamed(m, events)) = With(usages, NoUsage, before)
          /\ FeedsWith(usages, NoUsage, m, events) # {} =>
               /\ With(usages, NoUsage, before \cup Renamed(m, events)) # {}
               /\ Max(With(usages, NoUsage, before \cup Renamed(m, events))) = m[Max(FeedsWith(usages, NoUsage, m, events))]
               /\ Max(FeedsWith(usages, NoUsage, m, events)) \in events
      BY ONLY <1>6, LastValue, SMTT(30)
    <3> QED BY <3>1 DEF now
  <2>2. \A l \in 1 .. Len(lines) : usages[l] = lines[l].usage
    OBVIOUS
  <2>3. \A f \in events : line(f).usage = usages[m[f]]
    BY <1>1, <2>2
  <2>4. metered = new
    BY <2>3 DEF FeedsWith
  <2>5. reader.usage = IF old = {} THEN NoUsage ELSE lines[Max(old)].usage
    BY <1>2, <1>5, <2>2 DEF LastUsage, With, before
  <2>6. LastUsage(lines, LinesIn(b, last), lost) = IF both = {} THEN NoUsage ELSE lines[Max(both)].usage
    <3>1. before \cup now = all /\ all \subseteq 1 .. Len(lines)
      BY <1>1, <1>2
    <3>2. {l \in all : lines[l].usage # NoUsage} = both
      BY <2>2, <3>1 DEF With
    <3> QED BY <3>2 DEF LastUsage, all
  <2>7. \A f \in events : line(f).usage = lines[m[f]].usage
    BY <1>1
  <2> HIDE DEF old, new, both, metered, line, usages
  <2> QED BY <1>4, <2>1, <2>4, <2>5, <2>6, <2>7
<1>9. after.text = Sum(kept, all)
  <2>1. IsFiniteSet(before) /\ IsFiniteSet(now) /\ IsFiniteSet(events)
    <3>1. IsFiniteSet(1 .. Len(lines)) /\ IsFiniteSet(1 .. Len(text))
      BY <1>1, <1>3, FS_Interval
    <3> QED BY <1>1, <1>2, <3>1, FS_Subset
  <2>2. \A l \in 1 .. Len(lines) : kept[l] = Cardinality(Leads(b, l) \ halved) /\ kept[l] \in Int
    <3> SUFFICES ASSUME NEW l \in 1 .. Len(lines)
                 PROVE  kept[l] = Cardinality(Leads(b, l) \ halved) /\ kept[l] \in Int
      OBVIOUS
    <3>1. kept[l] = Cardinality(Leads(b, l) \ halved) /\ kept[l] \in Nat
      BY <1>3, KeptNumbers
    <3> QED BY <3>1
  <2> DEFINE g == [f \in events |-> m[f]]
  <2>3. g \in Bijection(events, now)
    <3>1. \A f \in events : g[f] = m[f]
      OBVIOUS
    <3>2. g \in [events -> now]
      BY DEF now, Renamed
    <3>3. \A f, h \in events : f # h => g[f] # g[h]
      <4> SUFFICES ASSUME NEW f \in events, NEW h \in events, f # h PROVE m[f] # m[h]
        BY <3>1
      <4>1. f \in 1 .. Len(text) /\ h \in 1 .. Len(text) /\ m[f] \in Int /\ m[h] \in Int
        BY <1>1
      <4>2. f < h \/ h < f
        BY <4>1
      <4> QED BY <1>1, <4>1, <4>2
    <3>4. \A l \in now : \E f \in events : g[f] = l
      BY DEF now, Renamed
    <3>5. DOMAIN g = events
      OBVIOUS
    <3> HIDE DEF g
    <3>6. IsInjective(g)
      BY <3>3, <3>5 DEF IsInjective
    <3> QED BY <3>2, <3>4, <3>6 DEF Bijection, Injection, Surjection
  <2>4. \A f \in events : characters[f] \in Int /\ kept[g[f]] = characters[f]
    <3> HIDE DEF kept
    <3> QED BY <1>1, <2>2
  <2>5. Sum(characters, events) = Sum(kept, now)
    <3> HIDE DEF kept, characters, g
    <3> QED BY <2>1, <2>3, <2>4, SumImage
  <2>6. before \cap now = {} /\ \A l \in before \cup now : kept[l] \in Int
    <3> HIDE DEF kept
    <3>1. \A l \in before, k \in now : l \in Int /\ l < k
      BY <1>1, <1>2
    <3>2. before \cap now = {}
      BY <3>1
    <3> QED BY <1>1, <1>2, <2>2, <3>2
  <2>7. Sum(kept, before \cup now) = Sum(kept, before) + Sum(kept, now)
    <3> HIDE DEF kept
    <3> QED BY <2>1, <2>6, SumUnion
  <2> QED BY <1>1, <1>2, <1>4, <1>5, <2>5, <2>7
<1> QED BY <1>7, <1>8, <1>9 DEF ReadSoFar, after, all

-----------------------------------------------------------------------------
(* One chunk after another.                                                *)

(* What is pending begins at the byte from and has come to the byte sent,  *)
(* without a line feed.                                                    *)
Unfinished(b, from, sent, pending, lost, halved) ==
  /\ from \in 1 .. sent + 1
  /\ \A p \in from .. sent : b[p].part # "feed"
  /\ StartsClean(b, from, lost)
  /\ \E map : Selects(map, pending, b, Kept(from, sent, halved))

ReadInv(lines, b, sent, reader, lost, halved) ==
  /\ sent \in 0 .. Len(b) /\ Cut(b, halved, sent) /\ "pending" \in DOMAIN reader
  /\ \E from : Unfinished(b, from, sent, reader.pending, lost, halved)
  /\ ReadSoFar(lines, b, sent, reader, lost, halved)

(* A character that the next chunk cuts is of no complete line. *)
LEMMA CutLater ==
  ASSUME NEW lines, IsStream(lines), NEW b, StreamShape(lines, b, Len(lines)),
         NEW sent \in 0 .. Len(b), NEW last \in sent + 1 .. Len(b), NEW halved, NEW lost,
         NEW reader, ReadSoFar(lines, b, sent, reader, lost, halved)
  PROVE  ReadSoFar(lines, b, sent, reader, lost, CutAlso(b, halved, last))
<1> DEFINE upto == LinesIn(b, sent)
           R == Readable(lines, upto, lost)
           more == CutAlso(b, halved, last)
           old == CharactersKept(lines, b, halved)
           new == CharactersKept(lines, b, more)
<1>1. Len(lines) \in Nat /\ DOMAIN lines = 1 .. Len(lines) /\ Len(b) \in Nat
  BY LenProperties, LinesOf DEF StreamShape
<1>2. last \in 1 .. Len(b) /\ \A i \in 1 .. sent : i \in 1 .. Len(b) /\ i < last
  BY <1>1
<1>3. /\ upto \in 0 .. Len(lines)
      /\ upto = 0 \/ \E i \in 1 .. sent : b[i].part = "feed" /\ b[i].line = upto
  BY <1>1, LinesInIs, ZenonT(30) DEF LastFeedSent
<1> HIDE DEF upto
<1>4. \A l \in R : l \in 1 .. Len(lines) /\ l <= upto
  BY <1>1 DEF Readable
<1>5. ASSUME upto # 0 PROVE upto < b[last].line
  <2>1. PICK i \in 1 .. sent : b[i].part = "feed" /\ b[i].line = upto
    BY <1>3, <1>5
  <2>2. i \in 1 .. Len(b) /\ i < last /\ i <= last
    BY <1>2
  <2> QED BY <1>1, <1>2, <2>1, <2>2, LinesInOrder
<1>6. ASSUME NEW l \in R PROVE Leads(b, l) \ halved = Leads(b, l) \ more
  <2>1. l \in 1 .. Len(lines) /\ l <= upto /\ upto # 0
    BY <1>3, <1>4
  <2>2. b[last].line \in 1 .. Len(lines)
    BY <1>2 DEF StreamShape
  <2>3. b[last].line # l
    BY <1>3, <1>5, <2>1, <2>2
  <2>4. last \notin Leads(b, l)
    BY <2>3 DEF Leads
  <2> QED BY <2>4 DEF CutAlso
<1>7. IsFiniteSet(R)
  <2>1. IsFiniteSet(1 .. Len(lines)) /\ R \subseteq 1 .. Len(lines)
    BY <1>1, <1>4, FS_Interval
  <2> QED BY <2>1, FS_Subset
<1>8. \A l \in R : old[l] = new[l]
  BY <1>1, <1>4, <1>6 DEF CharactersKept
<1>9. Sum(old, R) = Sum(new, R)
  <2> HIDE DEF old, new, R
  <2> QED BY <1>7, <1>8, SumEqual
<1> QED BY <1>9 DEF ReadSoFar, upto

(* A chunk whose lines are read. *)
LEMMA ChunkRead ==
  ASSUME NEW lines, IsStream(lines), NEW b, StreamShape(lines, b, Len(lines)),
         NEW sent, NEW last \in sent + 1 .. Len(b), NEW halved, NEW lost, NEW reader,
         ReadInv(lines, b, sent, reader, lost, halved)
  PROVE  ReadInv(lines, b, last,
                 ReadLines(lines, reader, reader.pending \o Decoded(SubSeq(b, sent + 1, last))),
                 lost, CutAlso(b, halved, last))
<1> DEFINE more == CutAlso(b, halved, last)
           text == reader.pending \o Decoded(SubSeq(b, sent + 1, last))
           n == Len(lines)
<1>1. /\ n \in Nat /\ Len(b) \in Nat /\ sent \in 0 .. Len(b) /\ Cut(b, halved, sent)
      /\ ReadSoFar(lines, b, sent, reader, lost, halved)
  BY LenProperties, LinesOf DEF StreamShape, ReadInv
<1>2. PICK from : Unfinished(b, from, sent, reader.pending, lost, halved)
  BY DEF ReadInv
<1>3. /\ from \in 1 .. sent + 1 /\ StartsClean(b, from, lost)
      /\ \A p \in from .. sent : b[p].part # "feed"
  BY <1>2 DEF Unfinished
<1>4. PICK old : Selects(old, reader.pending, b, Kept(from, sent, halved))
  BY <1>2 DEF Unfinished
<1>5. /\ sent \in Nat /\ last \in 1 .. Len(b) /\ sent < last /\ from \in 1 .. last
      /\ from <= sent + 1 /\ last \in 0 .. Len(b)
  BY <1>1, <1>3
<1>6. /\ Cut(b, more, last)
      /\ \E all : Selects(all, text, b, Kept(from, last, more))
  BY ONLY <1>1, <1>3, <1>4, <1>5, TextIs, StreamShape(lines, b, Len(lines)), last \in sent + 1 .. Len(b)
<1>7. PICK map : Selects(map, text, b, Kept(from, last, more))
  BY <1>6
<1>8. ReadSoFar(lines, b, sent, reader, lost, more)
  BY <1>1, CutLater
<1> HIDE DEF more, text, n
<1>9. TextOf(lines, b, from, last, more, lost, map, text)
  BY <1>1, <1>3, <1>5, <1>6, <1>7 DEF TextOf, n
<1>10. ReadSoFar(lines, b, last, ReadLines(lines, reader, text), lost, more)
  BY ONLY <1>3, <1>5, <1>8, <1>9, LinesRead, IsStream(lines)
<1>11. /\ Len(text) \in Nat /\ DOMAIN text = 1 .. Len(text)
       /\ Feeds(text) \subseteq 1 .. Len(text)
       /\ \A f \in 1 .. Len(text) : map[f] \in from .. last /\ map[f] \in 1 .. Len(b) /\ text[f] = b[map[f]]
       /\ \A f \in Feeds(text) : b[map[f]].part = "feed"
       /\ \A p \in from .. last : b[p].part = "feed" => \E f \in Feeds(text) : map[f] = p
  BY <1>9, FeedsOf
<1>12. \E next : Unfinished(b, next, last, Rest(text), lost, more)
  <2> DEFINE T == {0} \cup Feeds(text)
             g == Max(T)
             next == IF g = 0 THEN from ELSE map[g] + 1
             K == Selected(map, 1 + g, Len(text))
  <2>1. g \in T /\ \A i \in T : i <= g
    <3>1. T \in SUBSET (0 .. Len(text)) /\ T # {}
      BY <1>11
    <3> HIDE DEF T
    <3> QED BY <1>11, <3>1, MaxOf
  <2> HIDE DEF g
  <2>2. g \in 0 .. Len(text) /\ (g # 0 => g \in Feeds(text) /\ g \in 1 .. Len(text))
    BY <1>11, <2>1
  <2>3. Rest(text) = SubSeq(text, 1 + g, Len(text))
    BY DEF Rest, g
  <2>4. \A i, j \in 1 .. Len(text) : i < j => map[i] < map[j]
    BY <1>7 DEF Selects
  <2>5. \A p \in from .. last : b[p].part = "feed" => p < next
    <3> SUFFICES ASSUME NEW p \in from .. last, b[p].part = "feed" PROVE p < next
      OBVIOUS
    <3>1. PICK f \in Feeds(text) : map[f] = p
      BY <1>11
    <3>2. f <= g /\ f \in 1 .. Len(text)
      BY <1>11, <2>1, <3>1
    <3>3. g \in 1 .. Len(text) /\ g # 0 /\ (f = g \/ f < g)
      BY <2>2, <3>2
    <3>4. map[f] <= map[g] /\ map[f] \in Int /\ map[g] \in Int
      BY <1>1, <1>5, <1>11, <2>4, <3>2, <3>3
    <3> QED BY <1>5, <3>1, <3>3, <3>4
  <2>6. next \in 1 .. last + 1 /\ next >= from
    BY <1>5, <1>11, <2>2
  <2>7. \A p \in next .. last : b[p].part # "feed"
    BY <1>5, <2>5, <2>6
  <2>8. StartsClean(b, next, lost)
    <3>1. CASE g = 0
      BY <1>3, <3>1
    <3>2. CASE g # 0
      <4>1. /\ next = map[g] + 1 /\ next - 1 = map[g] /\ b[map[g]].part = "feed"
            /\ map[g] \in from .. last /\ map[g] \in 1 .. Len(b)
        BY <1>1, <1>5, <1>11, <2>2, <3>2
      <4>2. next > 1
        BY <1>5, <4>1
      <4>3. ASSUME NEW l \in lost PROVE l \in Nat /\ l <= b[map[g]].line
        <5>1. from > 1 /\ l <= b[from - 1].line
          BY <1>3 DEF StartsClean
        <5>2. from - 1 \in 1 .. Len(b) /\ from - 1 <= map[g]
          BY <1>1, <1>5, <4>1, <5>1
        <5>3. b[from - 1].line <= b[map[g]].line
          BY <1>1, <4>1, <5>2, LinesInOrder DEF n
        <5>4. b[from - 1].line \in Int /\ b[map[g]].line \in Int
          BY <1>1, <4>1, <5>2 DEF StreamShape
        <5>5. l \in Nat
          BY <1>3 DEF StartsClean
        <5> QED BY <5>1, <5>3, <5>4, <5>5
      <4> HIDE DEF next
      <4> QED BY <4>1, <4>2, <4>3 DEF StartsClean
    <3> QED BY <3>1, <3>2
  <2>9. K = Kept(next, last, more)
    <3>1. ASSUME NEW h \in 1 + g .. Len(text) PROVE map[h] \in Kept(next, last, more)
      <4>1. h \in 1 .. Len(text) /\ g < h
        BY <1>11, <2>2
      <4>2. map[h] \in Kept(from, last, more) /\ map[h] \in from .. last
        BY <1>7, <1>11, <4>1 DEF Selects
      <4>3. map[h] >= next
        <5>1. g # 0 => map[g] < map[h] /\ map[g] \in from .. last
          BY <1>11, <2>2, <2>4, <4>1
        <5> QED BY <1>5, <4>2, <5>1
      <4> QED BY <2>6, <4>2, <4>3 DEF Kept
    <3>2. ASSUME NEW p \in Kept(next, last, more) PROVE p \in K
      <4>1. p \in next .. last /\ p \in from .. last /\ p \in Kept(from, last, more)
        BY <1>5, <2>6 DEF Kept
      <4>2. PICK h \in 1 .. Len(text) : map[h] = p
        BY <1>7, <4>1 DEF Selects
      <4>3. g < h
        <5>1. CASE g = 0
          BY <5>1
        <5>2. CASE g # 0
          <6>1. map[g] < map[h] /\ map[g] \in Int
            BY <1>5, <1>11, <2>2, <4>1, <4>2, <5>2
          <6>2. ~(h < g) /\ h # g
            BY <1>5, <2>2, <2>4, <4>1, <4>2, <5>2, <6>1
          <6> QED BY <2>2, <6>2
        <5> QED BY <5>1, <5>2
      <4>4. h \in 1 + g .. Len(text)
        BY <2>2, <4>3
      <4> QED BY <4>2, <4>4 DEF Selected
    <3> HIDE DEF next
    <3> QED BY <3>1, <3>2 DEF Selected
  <2>10. \E part : Selects(part, SubSeq(text, 1 + g, Len(text)), b, K)
    <3>1. 1 + g \in 1 .. Len(text) + 1 /\ Len(text) \in 0 .. Len(text)
      BY <1>11, <2>2
    <3> QED BY <1>7, <3>1, SelectsPart
  <2> HIDE DEF next, K
  <2>11. Unfinished(b, next, last, Rest(text), lost, more)
    BY <2>3, <2>6, <2>7, <2>8, <2>9, <2>10 DEF Unfinished
  <2> QED BY <2>11
<1>13. /\ ReadLines(lines, reader, text).pending = Rest(text)
       /\ "pending" \in DOMAIN ReadLines(lines, reader, text)
  BY DEF ReadLines
<1> QED BY <1>5, <1>6, <1>10, <1>12, <1>13 DEF ReadInv, text, more

(* The lines up to the last complete one have their line feeds. *)
LEMMA LineFeedOf ==
  ASSUME NEW lines, Len(lines) \in Nat, NEW b, StreamShape(lines, b, Len(lines)),
         NEW sent \in 0 .. Len(b), NEW l \in Nat \ {0}, l <= LinesIn(b, sent)
  PROVE  \E i \in 1 .. sent : b[i].part = "feed" /\ b[i].line = l
<1> DEFINE n == Len(lines)
<1>1. Len(b) \in Nat /\ n \in Nat /\ StreamShape(lines, b, n) /\ sent \in 0 .. Len(b)
  BY LenProperties DEF StreamShape
<1> HIDE DEF n
<1>2. LinesIn(b, sent) \in 0 .. n /\ LastFeedSent(b, sent)
  BY ONLY <1>1, LinesInIs
<1>3. PICK j \in 1 .. sent : b[j].part = "feed" /\ b[j].line = LinesIn(b, sent)
  BY <1>2 DEF LastFeedSent
<1>4. CASE l = LinesIn(b, sent)
  BY <1>3, <1>4
<1>5. CASE l < LinesIn(b, sent)
  <2>1. j \in 1 .. Len(b) /\ l < b[j].line
    BY <1>1, <1>3, <1>5
  <2>2. PICK i \in 1 .. j - 1 : b[i].part = "feed" /\ b[i].line = l
    BY <2>1, FeedBefore
  <2>3. i \in 1 .. sent
    BY <1>1
  <2> QED BY <2>2, <2>3
<1> QED BY <1>2, <1>4, <1>5

LinesOfBytes(bytes) == {byte.line : byte \in Range(bytes)}

(* The bytes of a buffer that is dropped. *)
LEMMA DroppedLines ==
  ASSUME NEW b \in Seq(Bytes), NEW sent \in 0 .. Len(b), NEW last \in sent + 1 .. Len(b),
         NEW from \in 1 .. sent + 1, NEW map, NEW pending, NEW halved,
         Selects(map, pending, b, Kept(from, sent, halved))
  PROVE  LET dropped == LinesOfBytes(pending \o SubSeq(b, sent + 1, last)) IN
         /\ \A l \in dropped : \E p \in from .. last : l = b[p].line
         /\ \A p \in sent + 1 .. last : b[p].line \in dropped
<1> DEFINE chunk == SubSeq(b, sent + 1, last)
           text == pending \o chunk
           dropped == LinesOfBytes(text)
<1>1. Len(b) \in Nat /\ sent + 1 \in 1 .. Len(b) + 1 /\ last \in 0 .. Len(b)
  BY LenProperties
<1>2. PICK seg : Selects(seg, chunk, b, sent + 1 .. last)
  BY <1>1, SelectsSegment
<1> HIDE DEF chunk
<1>3. /\ pending \in Seq(Bytes) /\ chunk \in Seq(Bytes)
      /\ Len(pending) \in Nat /\ Len(chunk) \in Nat
  BY <1>2, LenProperties DEF Selects
<1>4. /\ text \in Seq(Bytes) /\ Len(text) = Len(pending) + Len(chunk) /\ DOMAIN text = 1 .. Len(text)
      /\ \A i \in 1 .. Len(pending) + Len(chunk) :
           text[i] = IF i <= Len(pending) THEN pending[i] ELSE chunk[i - Len(pending)]
  BY <1>3, ConcatProperties, LenProperties
<1> HIDE DEF text
<1>5. \A l : l \in dropped <=> \E i \in 1 .. Len(text) : l = text[i].line
  BY <1>4 DEF LinesOfBytes, Range
<1> HIDE DEF dropped
<1>6. ASSUME NEW l \in dropped PROVE \E p \in from .. last : l = b[p].line
  <2>1. PICK i \in 1 .. Len(text) : l = text[i].line
    BY <1>5
  <2>2. CASE i <= Len(pending)
    <3>1. i \in 1 .. Len(pending) /\ text[i] = pending[i]
      BY <1>3, <1>4, <2>2
    <3>2. map[i] \in Kept(from, sent, halved) /\ pending[i] = b[map[i]]
      BY <3>1 DEF Selects
    <3>3. map[i] \in from .. last
      BY <1>1, <3>2 DEF Kept
    <3> QED BY <2>1, <3>1, <3>2, <3>3
  <2>3. CASE ~(i <= Len(pending))
    <3>1. i - Len(pending) \in 1 .. Len(chunk) /\ text[i] = chunk[i - Len(pending)]
      BY <1>3, <1>4, <2>3
    <3>2. seg[i - Len(pending)] \in sent + 1 .. last /\ chunk[i - Len(pending)] = b[seg[i - Len(pending)]]
      BY <1>2, <3>1 DEF Selects
    <3>3. seg[i - Len(pending)] \in from .. last
      BY <1>1, <3>2
    <3> QED BY <2>1, <3>1, <3>2, <3>3
  <2> QED BY <2>2, <2>3
<1>7. ASSUME NEW p \in sent + 1 .. last PROVE b[p].line \in dropped
  <2>1. PICK i \in 1 .. Len(chunk) : seg[i] = p
    BY <1>2 DEF Selects
  <2>2. chunk[i] = b[p]
    BY <1>2, <2>1 DEF Selects
  <2>3. /\ Len(pending) + i \in 1 .. Len(text) /\ ~(Len(pending) + i <= Len(pending))
        /\ (Len(pending) + i) - Len(pending) = i
    BY <1>3, <1>4
  <2>4. text[Len(pending) + i] = chunk[i]
    BY <1>4, <2>3
  <2> QED BY <1>5, <2>2, <2>3, <2>4
<1> QED BY <1>6, <1>7 DEF dropped, text, chunk

(* A chunk with which the buffer overflows: its lines are lost. *)
LEMMA ChunkDropped ==
  ASSUME NEW lines, IsStream(lines), NEW b, StreamShape(lines, b, Len(lines)),
         NEW sent, NEW last \in sent + 1 .. Len(b), NEW halved, NEW lost, NEW reader,
         ReadInv(lines, b, sent, reader, lost, halved)
  PROVE  ReadInv(lines, b, last, [reader EXCEPT !.pending = <<>>],
                 lost \cup LinesOfBytes(reader.pending \o SubSeq(b, sent + 1, last)),
                 CutAlso(b, halved, last))
<1> DEFINE more == CutAlso(b, halved, last)
           dropped == LinesOfBytes(reader.pending \o SubSeq(b, sent + 1, last))
           gone == lost \cup dropped
           upto == LinesIn(b, sent)
           after == LinesIn(b, last)
           n == Len(lines)
<1>1. /\ n \in Nat /\ DOMAIN lines = 1 .. n /\ b \in Seq(Bytes) /\ Len(b) \in Nat
      /\ sent \in 0 .. Len(b) /\ Cut(b, halved, sent)
      /\ ReadSoFar(lines, b, sent, reader, lost, halved)
  BY LenProperties, LinesOf DEF StreamShape, ReadInv
<1>2. PICK from : Unfinished(b, from, sent, reader.pending, lost, halved)
  BY DEF ReadInv
<1>3. /\ from \in 1 .. sent + 1 /\ StartsClean(b, from, lost)
      /\ \A p \in from .. sent : b[p].part # "feed"
  BY <1>2 DEF Unfinished
<1>4. PICK map : Selects(map, reader.pending, b, Kept(from, sent, halved))
  BY <1>2 DEF Unfinished
<1>5. last \in 1 .. Len(b) /\ last \in 0 .. Len(b) /\ sent < last /\ from \in 1 .. last
  BY <1>1, <1>3
<1>6. /\ \A l \in dropped : \E p \in from .. last : l = b[p].line
      /\ \A p \in sent + 1 .. last : b[p].line \in dropped
  BY <1>1, <1>3, <1>4, DroppedLines
<1>7. Cut(b, more, last)
  BY <1>1, <1>5 DEF Cut, CutAlso
<1> HIDE DEF more, dropped, upto, after, n
<1>8. \A p \in 1 .. Len(b) : b[p].line \in 1 .. n
  BY DEF StreamShape, n
<1>9. /\ upto \in 0 .. n
      /\ \A i \in 1 .. sent : b[i].part = "feed" => b[i].line <= upto
      /\ upto = 0 \/ \E i \in 1 .. sent : b[i].part = "feed" /\ b[i].line = upto
  BY <1>1, LinesInIs, ZenonT(30) DEF n, upto, LastFeedSent
<1>10. /\ after \in 0 .. n
       /\ \A i \in 1 .. last : b[i].part = "feed" => b[i].line <= after
  BY <1>1, <1>5, LinesInIs DEF n, after
<1>11. upto <= after
  <2>1. \A i \in 1 .. sent : i \in 1 .. last
    BY <1>1, <1>5
  <2> QED BY <1>9, <1>10, <2>1
<1>12. ASSUME NEW p \in from .. last PROVE upto < b[p].line
  <2>1. p \in 1 .. Len(b)
    BY <1>5
  <2>2. CASE upto = 0
    BY <1>8, <2>1, <2>2
  <2>3. CASE upto # 0
    <3>1. PICK i \in 1 .. sent : b[i].part = "feed" /\ b[i].line = upto
      BY <1>9, <2>3
    <3>2. ~(i \in from .. sent)
      BY <1>3, <3>1
    <3>3. i \in 1 .. Len(b) /\ i < p /\ i <= p
      BY <1>1, <1>3, <3>2
    <3> QED BY <1>1, <2>1, <3>1, <3>3, LinesInOrder DEF n
  <2> QED BY <2>2, <2>3
<1>13. Readable(lines, after, gone) = Readable(lines, upto, lost)
  <2>1. ASSUME NEW l \in Readable(lines, after, gone) PROVE l \in Readable(lines, upto, lost)
    <3>1. l \in 1 .. n /\ lines[l].event /\ lines[l].ends /\ l <= after /\ l \notin lost /\ l \notin dropped
      BY <1>1 DEF Readable
    <3>2. PICK i \in 1 .. last : b[i].part = "feed" /\ b[i].line = l
      BY <1>1, <1>5, <3>1, LineFeedOf DEF n, after
    <3>3. i \in 1 .. sent
      BY <1>1, <1>6, <3>1, <3>2
    <3>4. l <= upto
      BY <1>9, <3>2, <3>3
    <3> QED BY <1>1, <3>1, <3>4 DEF Readable
  <2>2. ASSUME NEW l \in Readable(lines, upto, lost) PROVE l \in Readable(lines, after, gone)
    <3>1. l \in 1 .. n /\ lines[l].event /\ lines[l].ends /\ l <= upto /\ l \notin lost
      BY <1>1 DEF Readable
    <3>2. l \notin dropped
      <4> SUFFICES ASSUME NEW p \in from .. last, l = b[p].line PROVE FALSE
        BY <1>6
      <4>1. upto < l
        BY <1>12
      <4> QED BY <1>9, <3>1, <4>1
    <3>3. l <= after
      BY <1>9, <1>10, <1>11, <3>1
    <3> QED BY <1>1, <3>1, <3>2, <3>3 DEF Readable
  <2> QED BY <2>1, <2>2
<1> DEFINE next == [reader EXCEPT !.pending = <<>>]
<1>14. next.id = reader.id /\ next.usage = reader.usage /\ next.text = reader.text
  OBVIOUS
<1>15. ReadSoFar(lines, b, sent, reader, lost, more)
  BY <1>1, CutLater DEF more
<1>16. ReadSoFar(lines, b, last, next, gone, more)
  BY <1>13, <1>14, <1>15 DEF ReadSoFar, LastId, LastUsage, upto, after
<1>17. Unfinished(b, last + 1, last, <<>>, gone, more)
  <2>1. last + 1 \in 1 .. last + 1 /\ last + 1 > 1 /\ (last + 1) - 1 = last /\ (last + 1) .. last = {}
    BY <1>5
  <2>2. b[last].line \in dropped
    BY <1>1, <1>5, <1>6
  <2>3. ASSUME NEW l \in gone PROVE l \in Nat /\ l <= b[last].line
    <3>1. CASE l \in lost
      <4>1. l \in Nat /\ from > 1 /\ l <= b[from - 1].line
        BY <1>3, <3>1 DEF StartsClean
      <4>2. from - 1 \in 1 .. Len(b) /\ from - 1 <= last
        BY <1>1, <1>5, <4>1
      <4>3. b[from - 1].line <= b[last].line
        BY <1>1, <1>5, <4>2, LinesInOrder DEF n
      <4> QED BY <1>5, <1>8, <4>1, <4>2, <4>3
    <3>2. CASE l \in dropped
      <4>1. PICK p \in from .. last : l = b[p].line
        BY <1>6, <3>2
      <4>2. p \in 1 .. Len(b) /\ p <= last
        BY <1>5
      <4>3. b[p].line <= b[last].line
        BY <1>1, <1>5, <4>2, LinesInOrder DEF n
      <4> QED BY <1>8, <4>1, <4>2, <4>3
    <3> QED BY <3>1, <3>2
  <2>4. StartsClean(b, last + 1, gone)
    BY <2>1, <2>2, <2>3 DEF StartsClean
  <2>5. Kept(last + 1, last, more) = {}
    BY <2>1 DEF Kept
  <2>6. \E none : Selects(none, <<>>, b, Kept(last + 1, last, more))
    BY <2>5, SelectsNothing
  <2> HIDE DEF gone
  <2> QED BY <2>1, <2>4, <2>6 DEF Unfinished
<1>18. next.pending = <<>> /\ "pending" \in DOMAIN next
  BY DEF ReadInv
<1> QED BY <1>5, <1>7, <1>16, <1>17, <1>18 DEF ReadInv, more, dropped

-----------------------------------------------------------------------------
(* The stream of a call, from its first chunk to its last.                 *)
StreamInv(lines, sent, reader, lost, halved) ==
  /\ IsStream(lines)
  /\ ReadSoFar(lines, StreamBytes(lines), sent, reader, lost, halved)
  /\ Len(lines) > 0 => ReadInv(lines, StreamBytes(lines), sent, reader, lost, halved)
  /\ Len(lines) = 0 => sent = 0 /\ halved = {}

LEMMA NoBytes ==
  ASSUME NEW lines, IsStream(lines), Len(lines) = 0
  PROVE  Len(StreamBytes(lines)) = 0
<1> DEFINE seqs == [l \in DOMAIN lines |-> LineBytes(lines, l)]
<1>1. DOMAIN lines = 1 .. 0
  BY LinesOf
<1>2. seqs = [l \in 1 .. 0 |-> LineBytes(lines, l)]
  BY <1>1
<1>3. Len(seqs) = 0
  BY <1>2
<1> HIDE DEF seqs
<1>4. FlattenSeq(seqs) = seqs
  BY <1>3 DEF FlattenSeq
<1> QED BY <1>3, <1>4 DEF StreamBytes, seqs

LEMMA StreamStarts ==
  ASSUME NEW lines, IsStream(lines)
  PROVE  StreamInv(lines, 0, Start, {}, {})
<1> DEFINE b == StreamBytes(lines)
<1>1. LinesIn(b, 0) = 0
  <2>1. {0} \cup {b[i].line : i \in {j \in 1 .. 0 : b[j].part = "feed"}} = {0}
    OBVIOUS
  <2>2. 0 \in Nat /\ {0} \in SUBSET (0 .. 0) /\ {0} # {}
    OBVIOUS
  <2>3. Max({0}) \in {0}
    BY ONLY <2>2, MaxOf
  <2> QED BY <2>1, <2>3 DEF LinesIn
<1>2. Readable(lines, 0, {}) = {}
  BY LinesOf DEF Readable
<1>3. ReadSoFar(lines, b, 0, Start, {}, {})
  <2>1. {l \in Readable(lines, 0, {}) : lines[l].id # "none"} = {}
    BY <1>2
  <2>2. {l \in Readable(lines, 0, {}) : lines[l].usage # NoUsage} = {}
    BY <1>2
  <2> HIDE DEF b
  <2> QED BY <1>1, <1>2, <2>1, <2>2, SumEmpty DEF ReadSoFar, LastId, LastUsage, Start
<1>4. ASSUME Len(lines) > 0 PROVE ReadInv(lines, b, 0, Start, {}, {})
  <2>1. Len(b) \in Nat
    BY <1>4, StreamBytesShape, LenProperties DEF StreamShape
  <2>2. Start.pending = <<>> /\ "pending" \in DOMAIN Start
    BY DEF Start
  <2>3. Kept(1, 0, {}) = {}
    BY DEF Kept
  <2> HIDE DEF b
  <2>4. Unfinished(b, 1, 0, <<>>, {}, {})
    <3>1. \E map : Selects(map, <<>>, b, Kept(1, 0, {}))
      BY <2>3, SelectsNothing
    <3>2. StartsClean(b, 1, {})
      BY DEF StartsClean
    <3>3. 1 \in 1 .. 0 + 1 /\ \A p \in 1 .. 0 : FALSE
      OBVIOUS
    <3> QED BY <3>1, <3>2, <3>3 DEF Unfinished
  <2> QED BY <1>3, <2>1, <2>2, <2>4 DEF ReadInv, Cut
<1> QED BY <1>3, <1>4 DEF StreamInv

LEMMA StreamGoesOn ==
  ASSUME NEW lines, NEW sent, NEW reader, NEW lost, NEW halved, NEW limit,
         StreamInv(lines, sent, reader, lost, halved),
         NEW last \in sent + 1 .. Len(StreamBytes(lines))
  PROVE  LET bytes == StreamBytes(lines)
             chunk == SubSeq(bytes, sent + 1, last)
         IN  StreamInv(lines, last, Read(lines, reader, chunk, limit),
               lost \cup IF Overflows(reader, chunk, limit)
                          THEN LinesOfBytes(reader.pending \o chunk) ELSE {},
               CutAlso(bytes, halved, last))
<1> DEFINE b == StreamBytes(lines)
           chunk == SubSeq(b, sent + 1, last)
           now == lost \cup IF Overflows(reader, chunk, limit)
                            THEN LinesOfBytes(reader.pending \o chunk) ELSE {}
<1>1. IsStream(lines) /\ Len(lines) \in Nat
  BY LinesOf DEF StreamInv
<1>2. Len(lines) > 0
  <2> SUFFICES ASSUME Len(lines) = 0 PROVE FALSE
    BY <1>1
  <2>1. sent = 0 /\ Len(b) = 0
    BY <1>1, NoBytes DEF StreamInv
  <2> QED BY <2>1
<1>3. ReadInv(lines, b, sent, reader, lost, halved) /\ StreamShape(lines, b, Len(lines))
  BY <1>1, <1>2, StreamBytesShape DEF StreamInv
<1>4. last \in sent + 1 .. Len(b)
  OBVIOUS
<1> HIDE DEF b
<1>5. CASE Overflows(reader, chunk, limit)
  <2>1. ReadInv(lines, b, last, [reader EXCEPT !.pending = <<>>],
                lost \cup LinesOfBytes(reader.pending \o chunk), CutAlso(b, halved, last))
    BY ONLY <1>1, <1>3, <1>4, ChunkDropped
  <2>2. Read(lines, reader, chunk, limit) = [reader EXCEPT !.pending = <<>>]
    BY <1>5 DEF Read
  <2>3. now = lost \cup LinesOfBytes(reader.pending \o chunk)
    BY <1>5
  <2> HIDE DEF chunk, now
  <2>4. ReadInv(lines, b, last, Read(lines, reader, chunk, limit), now, CutAlso(b, halved, last))
    BY <2>1, <2>2, <2>3
  <2>5. ReadSoFar(lines, b, last, Read(lines, reader, chunk, limit), now, CutAlso(b, halved, last))
    BY <2>4 DEF ReadInv
  <2>6. StreamInv(lines, last, Read(lines, reader, chunk, limit), now, CutAlso(b, halved, last))
    BY <1>1, <1>2, <2>4, <2>5 DEF StreamInv, b
  <2> QED BY <2>6 DEF now, chunk, b
<1>6. CASE ~Overflows(reader, chunk, limit)
  <2>1. ReadInv(lines, b, last, ReadLines(lines, reader, reader.pending \o Decoded(chunk)),
                lost, CutAlso(b, halved, last))
    BY ONLY <1>1, <1>3, <1>4, ChunkRead
  <2>2. Read(lines, reader, chunk, limit) = ReadLines(lines, reader, reader.pending \o Decoded(chunk))
    BY <1>6 DEF Read
  <2>3. now = lost
    BY <1>6
  <2> HIDE DEF chunk, now
  <2>4. ReadInv(lines, b, last, Read(lines, reader, chunk, limit), now, CutAlso(b, halved, last))
    BY <2>1, <2>2, <2>3
  <2>5. ReadSoFar(lines, b, last, Read(lines, reader, chunk, limit), now, CutAlso(b, halved, last))
    BY <2>4 DEF ReadInv
  <2>6. StreamInv(lines, last, Read(lines, reader, chunk, limit), now, CutAlso(b, halved, last))
    BY <1>1, <1>2, <2>4, <2>5 DEF StreamInv, b
  <2> QED BY <2>6 DEF now, chunk, b
<1> QED BY <1>5, <1>6

(* The characters that a cut cost the reader, line by line. *)
CharactersCut(b, halved, n) == [l \in 1 .. n |-> Cardinality(Leads(b, l) \cap halved)]
CutIn(b, halved, R) == {i \in halved : b[i].line \in R}

LEMMA CutCharacters ==
  ASSUME NEW b, NEW halved, IsFiniteSet(halved), NEW n \in Nat,
         \A i \in halved : i \in 1 .. Len(b) /\ b[i].part = "lead",
         \A l \in 1 .. n : IsFiniteSet(Leads(b, l)),
         NEW R \in SUBSET (1 .. n)
  PROVE  Sum(CharactersCut(b, halved, n), R) = Cardinality(CutIn(b, halved, R))
<1> DEFINE f == CharactersCut(b, halved, n)
           C(T) == CutIn(b, halved, T)
           F == {T \in SUBSET R : Sum(f, T) # Cardinality(C(T))}
<1> SUFFICES ASSUME F # {} PROVE FALSE
  OBVIOUS
<1>1. IsFiniteSet(R)
  <2>1. IsFiniteSet(1 .. n)
    BY FS_Interval
  <2> QED BY <2>1, FS_Subset
<1>2. \A T \in F : IsFiniteSet(T)
  BY <1>1, FS_Subset
<1>3. PICK T : T \in F /\ \A U \in F : U \subseteq T => U = T
  <2> HIDE DEF F
  <2> QED BY <1>2, SmallestSet
<1>4. T \in SUBSET R /\ Sum(f, T) # Cardinality(C(T)) /\ IsFiniteSet(T)
  BY <1>2, <1>3
<1>5. T # {}
  <2> SUFFICES ASSUME T = {} PROVE FALSE
    OBVIOUS
  <2>1. C(T) = {}
    BY DEF CutIn
  <2> HIDE DEF f, C
  <2> QED BY <1>4, <2>1, SumEmpty, FS_EmptySet
<1>6. PICK x : x \in T
  BY <1>5
<1> DEFINE U == T \ {x}
<1>7. U \in SUBSET R /\ U \subseteq T /\ U # T
  BY <1>4, <1>6
<1>8. Sum(f, U) = Cardinality(C(U))
  <2>1. U \notin F
    BY <1>3, <1>7
  <2> HIDE DEF f, C, U
  <2> QED BY <1>7, <2>1
<1>9. \A l \in 1 .. n : f[l] = Cardinality(Leads(b, l) \cap halved) /\ f[l] \in Int
  <2> SUFFICES ASSUME NEW l \in 1 .. n
               PROVE  f[l] = Cardinality(Leads(b, l) \cap halved) /\ f[l] \in Int
    OBVIOUS
  <2>1. f[l] = Cardinality(Leads(b, l) \cap halved)
    BY DEF CharactersCut
  <2>2. IsFiniteSet(Leads(b, l) \cap halved)
    BY FS_Subset
  <2>3. Cardinality(Leads(b, l) \cap halved) \in Nat
    BY <2>2, FS_CardinalityType
  <2> HIDE DEF f
  <2> QED BY <2>1, <2>3
<1> DEFINE L == Leads(b, x) \cap halved
<1>10. x \in 1 .. n /\ \A l \in T : l \in 1 .. n
  BY <1>4, <1>6
<1>11. Sum(f, T) = f[x] + Sum(f, U)
  <2>1. \A l \in T : f[l] \in Int
    BY <1>9, <1>10
  <2> HIDE DEF f, U
  <2>2. IsFiniteSet(T) /\ x \in T
    BY <1>4, <1>6
  <2>3. Sum(f, T) = f[x] + Sum(f, T \ {x})
    BY ONLY <2>1, <2>2, SumRemove
  <2> QED BY <2>3 DEF U
<1>12. C(T) = C(U) \cup L
  BY <1>6 DEF Leads, CutIn
<1>13. C(U) \cap L = {}
  BY DEF Leads, CutIn
<1>14. IsFiniteSet(C(U)) /\ IsFiniteSet(L)
  <2>1. C(U) \subseteq halved /\ L \subseteq halved
    BY DEF CutIn
  <2> HIDE DEF C, L
  <2> QED BY <2>1, FS_Subset
<1> HIDE DEF C, L, U
<1>15. Cardinality(C(T)) = Cardinality(C(U)) + Cardinality(L)
  <2>1. Cardinality(C(U) \cup L) = Cardinality(C(U)) + Cardinality(L) - Cardinality(C(U) \cap L)
    BY <1>14, FS_Union
  <2>2. Cardinality({}) = 0
    BY FS_EmptySet
  <2>3. Cardinality(C(U)) \in Int /\ Cardinality(L) \in Int
    BY <1>14, FS_CardinalityType
  <2>4. Cardinality(C(T)) = Cardinality(C(U)) + Cardinality(L) - Cardinality({})
    BY ONLY <1>12, <1>13, <2>1, Zenon
  <2> QED BY ONLY <2>2, <2>3, <2>4
<1>16. f[x] = Cardinality(L)
  BY <1>9, <1>10 DEF L
<1> HIDE DEF f
<1>17. Cardinality(L) \in Int /\ Cardinality(C(U)) \in Int
  BY <1>14, FS_CardinalityType
<1> QED BY <1>4, <1>8, <1>11, <1>15, <1>16, <1>17

LEMMA TextIsWhole ==
  ASSUME NEW lines, NEW sent, NEW reader, NEW lost, NEW halved,
         StreamInv(lines, sent, reader, lost, halved)
  PROVE  LET upto == LinesIn(StreamBytes(lines), sent)
             cut == CutIn(StreamBytes(lines), halved, Readable(lines, upto, lost))
         IN  /\ reader.text + Cardinality(cut) = TextLength(lines, upto, lost)
             /\ reader.text \in Nat
<1> DEFINE b == StreamBytes(lines)
           R == Readable(lines, LinesIn(b, sent), lost)
           cut == CutIn(b, halved, R)
           n == Len(lines)
           kept == CharactersKept(lines, b, halved)
           gone == CharactersCut(b, halved, n)
           whole == [l \in DOMAIN lines |-> lines[l].chars]
<1>1. n \in Nat /\ DOMAIN lines = 1 .. n /\ IsStream(lines)
  BY LinesOf DEF StreamInv
<1>2. R \in SUBSET (1 .. n)
  BY <1>1 DEF Readable
<1>3. IsFiniteSet(R)
  <2>1. IsFiniteSet(1 .. n)
    BY <1>1, FS_Interval
  <2> QED BY <1>2, <2>1, FS_Subset
<1>4. reader.text = Sum(kept, R)
  BY DEF StreamInv, ReadSoFar
<1>5. CASE n > 0
  <2>1. StreamShape(lines, b, n) /\ Cut(b, halved, sent) /\ sent \in 0 .. Len(b) /\ Len(b) \in Nat
    BY <1>1, <1>5, StreamBytesShape, LenProperties DEF StreamInv, ReadInv, StreamShape
  <2> HIDE DEF b, R, n
  <2>2. \A i \in halved : i \in 1 .. Len(b) /\ i \in 1 .. sent /\ b[i].part = "lead"
    BY <2>1 DEF Cut
  <2>3. IsFiniteSet(halved)
    <3>1. IsFiniteSet(1 .. sent) /\ halved \subseteq 1 .. sent
      BY <2>1, <2>2, FS_Interval
    <3> QED BY <3>1, FS_Subset
  <2>4. \A l \in 1 .. n : IsFiniteSet(Leads(b, l)) /\ Cardinality(Leads(b, l)) = lines[l].chars
    BY <2>1 DEF StreamShape
  <2>5. Sum(gone, R) = Cardinality(cut)
    BY <1>1, <1>2, <2>2, <2>3, <2>4, CutCharacters
  <2>6. ASSUME NEW l \in R
        PROVE  kept[l] \in Nat /\ gone[l] \in Nat /\ whole[l] = kept[l] + gone[l]
    <3> DEFINE L == Leads(b, l)
    <3>1. l \in 1 .. n
      BY <1>2
    <3>2. /\ kept[l] = Cardinality(L \ halved) /\ gone[l] = Cardinality(L \cap halved)
          /\ whole[l] = Cardinality(L) /\ IsFiniteSet(L)
      BY <1>1, <2>4, <3>1 DEF CharactersKept, CharactersCut
    <3> HIDE DEF L
    <3>3. IsFiniteSet(L \ halved) /\ IsFiniteSet(L \cap halved)
      BY <3>2, FS_Subset
    <3>4. (L \ halved) \cup (L \cap halved) = L /\ (L \ halved) \cap (L \cap halved) = {}
      OBVIOUS
    <3>5. Cardinality((L \ halved) \cup (L \cap halved)) =
            Cardinality(L \ halved) + Cardinality(L \cap halved)
              - Cardinality((L \ halved) \cap (L \cap halved))
      BY <3>3, FS_Union
    <3>6. Cardinality({}) = 0
      BY FS_EmptySet
    <3>7. Cardinality(L \ halved) \in Nat /\ Cardinality(L \cap halved) \in Nat
      BY <3>3, FS_CardinalityType
    <3>8. Cardinality(L) = Cardinality(L \ halved) + Cardinality(L \cap halved)
      <4> DEFINE A == L \ halved
                 B == L \cap halved
      <4> HIDE DEF A, B
      <4>1. A \cup B = L /\ A \cap B = {} /\ Cardinality(A) \in Nat /\ Cardinality(B) \in Nat
        BY <3>4, <3>7 DEF A, B
      <4>2. Cardinality(A \cup B) = Cardinality(A) + Cardinality(B) - Cardinality(A \cap B)
        BY <3>5 DEF A, B
      <4>3. Cardinality(L) = Cardinality(A) + Cardinality(B) - Cardinality({})
        BY ONLY <4>1, <4>2, Zenon
      <4>4. Cardinality(L) = Cardinality(A) + Cardinality(B)
        BY ONLY <3>6, <4>1, <4>3
      <4> QED BY <4>4 DEF A, B
    <3> HIDE DEF kept, gone, whole
    <3> QED BY <3>2, <3>7, <3>8
  <2> HIDE DEF kept, gone, whole
  <2>7. Sum(whole, R) = Sum(kept, R) + Sum(gone, R)
    <3>1. \A l \in R : kept[l] \in Int /\ gone[l] \in Int /\ whole[l] = kept[l] + gone[l]
      BY <2>6
    <3> QED BY <1>3, <3>1, SumOfSums
  <2>8. Sum(kept, R) \in Nat
    BY <1>3, <2>6, SumNat
  <2> HIDE DEF cut
  <2>9. reader.text + Cardinality(cut) = Sum(whole, R) /\ reader.text \in Nat
    BY <1>4, <2>5, <2>7, <2>8
  <2> QED BY <2>9 DEF TextLength, b, R, cut, whole
<1>6. CASE n = 0
  <2>1. R = {} /\ halved = {}
    BY <1>2, <1>6 DEF StreamInv
  <2>2. cut = {}
    BY <2>1 DEF CutIn
  <2> HIDE DEF kept, cut, R, n
  <2>3. Sum(kept, R) = 0 /\ Sum(whole, R) = 0 /\ Cardinality(cut) = 0
    <3> HIDE DEF whole
    <3> QED BY <2>1, <2>2, SumEmpty, FS_EmptySet
  <2>4. reader.text + Cardinality(cut) = Sum(whole, R) /\ reader.text \in Nat
    BY <1>4, <2>3
  <2> QED BY <2>4 DEF TextLength, b, R, cut, whole
<1> QED BY <1>1, <1>5, <1>6

(* What is pending never exceeds the limit. *)
LEMMA RestIsShorter ==
  ASSUME NEW text \in Seq(Bytes)
  PROVE  Len(Rest(text)) \in Nat /\ Len(Rest(text)) <= Len(text)
<1> DEFINE T == {0} \cup Feeds(text)
           g == Max(T)
<1>1. Len(text) \in Nat /\ DOMAIN text = 1 .. Len(text) /\ \A i \in 1 .. Len(text) : text[i] \in Bytes
  BY LenProperties
<1>2. T \in SUBSET (0 .. Len(text)) /\ T # {}
  BY <1>1 DEF Feeds
<1>3. g \in 0 .. Len(text)
  <2> HIDE DEF T
  <2> QED BY <1>1, <1>2, MaxOf
<1> HIDE DEF g
<1>4. Rest(text) = SubSeq(text, 1 + g, Len(text))
  BY DEF Rest, g
<1>5. \A i \in 1 + g .. Len(text) : text[i] \in Bytes
  BY <1>1, <1>3
<1>6. 1 + g \in Int /\ Len(text) \in Int
  BY <1>1, <1>3
<1>7. Len(SubSeq(text, 1 + g, Len(text))) = IF 1 + g <= Len(text) THEN Len(text) - (1 + g) + 1 ELSE 0
  BY <1>5, <1>6, SubSeqProperties
<1> QED BY <1>1, <1>3, <1>4, <1>7

LEMMA PendingIsBounded ==
  ASSUME NEW lines, NEW sent, NEW reader, NEW lost, NEW halved, NEW limit \in Nat,
         StreamInv(lines, sent, reader, lost, halved),
         NEW last \in sent + 1 .. Len(StreamBytes(lines))
  PROVE  Len(Read(lines, reader, SubSeq(StreamBytes(lines), sent + 1, last), limit).pending) <= limit
<1> DEFINE b == StreamBytes(lines)
           chunk == SubSeq(b, sent + 1, last)
           text == reader.pending \o Decoded(chunk)
<1>1. IsStream(lines) /\ Len(lines) \in Nat
  BY LinesOf DEF StreamInv
<1>2. Len(lines) > 0
  <2> SUFFICES ASSUME Len(lines) = 0 PROVE FALSE
    BY <1>1
  <2>1. sent = 0 /\ Len(b) = 0
    BY <1>1, NoBytes DEF StreamInv
  <2> QED BY <2>1
<1>3. ReadInv(lines, b, sent, reader, lost, halved) /\ StreamShape(lines, b, Len(lines))
  BY <1>1, <1>2, StreamBytesShape DEF StreamInv
<1>4. last \in sent + 1 .. Len(b)
  OBVIOUS
<1> HIDE DEF b
<1>5. CASE Overflows(reader, chunk, limit)
  <2>1. Read(lines, reader, chunk, limit).pending = <<>>
    BY <1>3, <1>5 DEF Read, ReadInv
  <2> HIDE DEF chunk
  <2> QED BY <2>1 DEF b, chunk
<1>6. CASE ~Overflows(reader, chunk, limit)
  <2>1. Read(lines, reader, chunk, limit).pending = Rest(text)
    BY <1>6 DEF Read, ReadLines
  <2>2. text \in Seq(Bytes)
    <3>1. sent \in 0 .. Len(b) /\ Len(b) \in Nat /\ sent \in Nat /\ Cut(b, halved, sent)
      BY <1>3, LenProperties DEF ReadInv, StreamShape
    <3>2. PICK from : Unfinished(b, from, sent, reader.pending, lost, halved)
      BY <1>3 DEF ReadInv
    <3>3. PICK map : Selects(map, reader.pending, b, Kept(from, sent, halved)) /\ from \in 1 .. sent + 1
      BY <3>2 DEF Unfinished
    <3>4. PICK all : Selects(all, text, b, Kept(from, last, CutAlso(b, halved, last)))
      BY ONLY <1>1, <1>3, <1>4, <3>1, <3>3, TextIs
    <3> QED BY <3>4 DEF Selects
  <2> HIDE DEF text
  <2>3. Len(text) <= limit /\ Len(text) \in Nat
    <3>1. ~(Len(text) > limit)
      BY <1>6 DEF Overflows, text
    <3> QED BY <2>2, <3>1, LenProperties
  <2>4. Len(Rest(text)) \in Nat /\ Len(Rest(text)) <= Len(text)
    BY <2>2, RestIsShorter
  <2>5. Len(Read(lines, reader, chunk, limit).pending) <= limit
    BY <2>1, <2>3, <2>4
  <2> QED BY <2>5 DEF b
<1> QED BY <1>5, <1>6

(* A usage that was found is that of one of the lines. *)
LEMMA UsageFound ==
  ASSUME NEW lines, NEW sent, NEW reader, NEW lost, NEW halved,
         StreamInv(lines, sent, reader, lost, halved), reader.usage # NoUsage
  PROVE  \E l \in DOMAIN lines : reader.usage = lines[l].usage
<1> DEFINE upto == LinesIn(StreamBytes(lines), sent)
           metered == {l \in Readable(lines, upto, lost) : lines[l].usage # NoUsage}
<1>1. Len(lines) \in Nat /\ DOMAIN lines = 1 .. Len(lines)
  BY LinesOf DEF StreamInv
<1>2. reader.usage = IF metered = {} THEN NoUsage ELSE lines[Max(metered)].usage
  BY DEF StreamInv, ReadSoFar, LastUsage
<1>3. \A l \in metered : l \in DOMAIN lines
  BY DEF Readable
<1> HIDE DEF metered
<1>4. metered \in SUBSET (0 .. Len(lines))
  BY <1>1, <1>3
<1>5. metered # {}
  BY <1>2
<1>6. Max(metered) \in metered
  BY <1>1, <1>4, <1>5, MaxOf
<1> QED BY <1>2, <1>3, <1>5, <1>6
=============================================================================
