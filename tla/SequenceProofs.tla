---------------------------- MODULE SequenceProofs --------------------------
(***************************************************************************)
(* What the modules' helpers make of a sequence of any length: a filter    *)
(* (Sifted), a concatenation of many (FlattenSeq), the orders of a set     *)
(* (SetToSeqs), and how many of its members are of a kind (HowMany).  The  *)
(* library's induction takes an operator and cannot be used; NatInd says   *)
(* the same of a set, from the least number not in it.                     *)
(***************************************************************************)
EXTENDS Sifting, Integers, FiniteSets, SequencesExt, SequenceTheorems, FiniteSetTheorems, FunctionTheorems,
        WellFoundedInduction, TLAPS

\* A set of numbers has a least one.
LEMMA Least == ASSUME NEW S \in SUBSET Nat, S # {} PROVE \E m \in S : \A n \in S : m <= n
<1> DEFINE R == OpToRel(<, Nat)
<1>1. IsWellFoundedOn(R, Nat)
  BY NatLessThanWellFounded
<1>2. \A x, y \in Nat : <<x, y>> \in R <=> x < y
  BY DEF OpToRel
<1> HIDE DEF R
<1>3. \E x \in S : \A y \in S : <<y, x>> \notin R
  BY <1>1, WFMin
<1>4. PICK m \in S : \A y \in S : <<y, m>> \notin R
  BY <1>3
<1>5. ASSUME NEW n \in S PROVE m <= n
  <2>1. ~(n < m)
    BY <1>2, <1>4
  <2> QED BY <2>1, SMT
<1> QED BY <1>5

\* Induction, as a statement about a set.
LEMMA NatInd == ASSUME NEW S, 0 \in S, \A n \in Nat : n \in S => n + 1 \in S PROVE Nat \subseteq S
<1> SUFFICES ASSUME ~(Nat \subseteq S) PROVE FALSE
  OBVIOUS
<1> DEFINE B == {n \in Nat : n \notin S}
<1>1. B \in SUBSET Nat /\ B # {}
  OBVIOUS
<1>2. PICK m \in B : \A n \in B : m <= n
  BY <1>1, Least
<1>3. m # 0 /\ m - 1 \in Nat /\ m - 1 \notin B
  BY <1>2
<1>4. (m - 1) + 1 \in S
  BY <1>3
<1> QED BY <1>2, <1>4

-----------------------------------------------------------------------------
(* Sifted *)

\* The equation of Sifted's recursion, up to n.
IsSift(u, h, P, n) ==
  u = [i \in 0..n |-> IF i = 0 THEN <<>>
                      ELSE IF h[i] \in P THEN Append(u[i - 1], h[i]) ELSE u[i - 1]]

\* It has a solution.
LEMMA SiftExists == ASSUME NEW h, NEW P PROVE \A n \in Nat : \E u : IsSift(u, h, P, n)
<1> DEFINE T == {n \in Nat : \E u : IsSift(u, h, P, n)}
<1>1. 0 \in T
  <2> DEFINE u == [i \in 0..0 |-> <<>>]
  <2>1. IsSift(u, h, P, 0)
    BY SMT DEF IsSift
  <2> QED BY <2>1
<1>2. ASSUME NEW n \in Nat, n \in T PROVE n + 1 \in T
  <2>1. PICK u : IsSift(u, h, P, n)
    BY <1>2
  <2> DEFINE last == IF h[n + 1] \in P THEN Append(u[n], h[n + 1]) ELSE u[n]
             v == [i \in 0..(n + 1) |-> IF i = n + 1 THEN last ELSE u[i]]
  <2> HIDE DEF last
  <2>2. ASSUME NEW i \in 0..(n + 1)
        PROVE  v[i] = (IF i = 0 THEN <<>>
                       ELSE IF h[i] \in P THEN Append(v[i - 1], h[i]) ELSE v[i - 1])
    <3>1. CASE i = n + 1
      <4>1. v[i] = last /\ v[i - 1] = u[n] /\ i # 0
        BY <3>1, SMT
      <4> QED BY <3>1, <4>1 DEF last
    <3>2. CASE i = 0
      <4>1. v[i] = u[i] /\ i \in 0..n
        BY <3>2, SMT
      <4> QED BY <2>1, <3>2, <4>1 DEF IsSift
    <3>3. CASE i \in 1..n
      <4>1. v[i] = u[i] /\ v[i - 1] = u[i - 1] /\ i \in 0..n /\ i # 0
        BY <3>3, SMT
      <4>2. u[i] = (IF h[i] \in P THEN Append(u[i - 1], h[i]) ELSE u[i - 1])
        BY <2>1, <4>1 DEF IsSift
      <4> QED BY <4>1, <4>2
    <3>4. i = n + 1 \/ i = 0 \/ i \in 1..n
      BY SMT
    <3> QED BY <3>1, <3>2, <3>3, <3>4
  <2>3. DOMAIN v = 0..(n + 1) /\ v = [i \in 0..(n + 1) |-> v[i]]
    OBVIOUS
  <2> HIDE DEF v
  <2>4. IsSift(v, h, P, n + 1)
    BY <2>2, <2>3 DEF IsSift
  <2> QED BY <2>4
<1> HIDE DEF T
<1>3. Nat \subseteq T
  BY <1>1, <1>2, NatInd
<1> QED BY <1>3 DEF T

\* Sifted is its value at the end.
LEMMA SiftIs ==
  ASSUME NEW h, NEW P, Len(h) \in Nat
  PROVE  \E u : IsSift(u, h, P, Len(h)) /\ Sifted(h, P) = u[Len(h)]
<1> DEFINE u == CHOOSE u : IsSift(u, h, P, Len(h))
<1>1. IsSift(u, h, P, Len(h))
  BY SiftExists
<1>2. Sifted(h, P) = u[Len(h)]
  BY DEF Sifted, IsSift
<1> QED BY <1>1, <1>2

\* What the first n entries of a sifted sequence come from, and in what order.
SiftedSoFar(u, h, P, R, S, n) ==
  /\ u[n] \in Seq(S)
  /\ \A x : x \in Range(u[n]) <=> x \in P /\ \E j \in 1..n : h[j] = x
  /\ \A a, b \in DOMAIN u[n] : a < b => <<u[n][a], u[n][b]>> \in R

Pairwise(h, R) == \A i, j \in DOMAIN h : i < j => <<h[i], h[j]>> \in R

\* One entry more.
LEMMA SiftStep ==
  ASSUME NEW S, NEW h \in Seq(S), NEW P, NEW R, Pairwise(h, R), NEW u, IsSift(u, h, P, Len(h)),
         NEW n \in Nat, n + 1 <= Len(h), SiftedSoFar(u, h, P, R, S, n)
  PROVE  SiftedSoFar(u, h, P, R, S, n + 1)
<1> DEFINE m == n + 1
           x == h[m]
<1>1. m \in 1..Len(h) /\ DOMAIN h = 1..Len(h) /\ Len(h) \in Nat
  BY LenProperties, SMT
<1>2. x \in S
  BY <1>1, ElementOfSeq
<1>3. u[m] = (IF x \in P THEN Append(u[n], x) ELSE u[n])
  <2>1. m \in 0..Len(h) /\ m # 0 /\ m - 1 = n
    BY <1>1, SMT
  <2> HIDE DEF m
  <2> QED BY <2>1 DEF IsSift
<1>4. \A y : (\E j \in 1..m : h[j] = y) <=> (y = x \/ \E j \in 1..n : h[j] = y)
  <2>1. \A j : j \in 1..m <=> (j = m \/ j \in 1..n)
    BY SMT
  <2> HIDE DEF m
  <2> QED BY <2>1
<1>5. CASE x \notin P
  <2>1. u[m] = u[n]
    BY <1>3, <1>5
  <2> HIDE DEF m, x
  <2>2. SiftedSoFar(u, h, P, R, S, m)
    BY <1>4, <1>5, <2>1, Zenon DEF SiftedSoFar
  <2> QED BY <2>2 DEF m
<1>6. CASE x \in P
  <2> DEFINE s == u[n]
             g == Append(s, x)
             L == Len(s)
  <2>1. s \in Seq(S)
    BY DEF SiftedSoFar
  <2>2. /\ g \in Seq(S) /\ L \in Nat /\ DOMAIN s = 1..L /\ DOMAIN g = 1..(L + 1)
        /\ \A i \in 1..L : g[i] = s[i]
        /\ g[L + 1] = x
    BY <1>2, <2>1, AppendProperties, LenProperties
  <2>3. u[m] = g
    BY <1>3, <1>6
  <2>4. \A i : i \in 1..(L + 1) <=> (i = L + 1 \/ i \in 1..L)
    BY <2>2, SMT
  <2>5. \A y : y \in Range(s) <=> y \in P /\ \E j \in 1..n : h[j] = y
    BY DEF SiftedSoFar
  <2>6. \A a, b \in DOMAIN s : a < b => <<s[a], s[b]>> \in R
    BY DEF SiftedSoFar
  <2> HIDE DEF s, g, L, x, m
  <2>7. \A y : y \in Range(g) <=> (y = x \/ y \in Range(s))
    BY <2>2, <2>4 DEF Range
  <2>8. \A y : y \in Range(g) <=> y \in P /\ \E j \in 1..m : h[j] = y
    BY <1>4, <1>6, <2>5, <2>7
  <2>9. ASSUME NEW a \in DOMAIN g, NEW b \in DOMAIN g, a < b PROVE <<g[a], g[b]>> \in R
    <3>1. a \in 1..L
      BY <2>2, <2>9, SMT
    <3>2. CASE b \in 1..L
      BY <2>2, <2>6, <2>9, <3>1, <3>2
    <3>3. CASE b = L + 1
      <4>1. s[a] \in Range(s)
        BY <2>2, <3>1 DEF Range
      <4>2. PICK j \in 1..n : h[j] = s[a]
        BY <2>5, <4>1
      <4>3. j \in DOMAIN h /\ m \in DOMAIN h /\ j < m
        BY <1>1, SMT DEF m
      <4>4. <<h[j], h[m]>> \in R
        BY <4>3 DEF Pairwise
      <4> QED BY <2>2, <3>1, <3>3, <4>2, <4>4 DEF x
    <3> QED BY <2>2, <2>4, <3>2, <3>3
  <2>10. SiftedSoFar(u, h, P, R, S, m)
    BY <2>2, <2>3, <2>8, <2>9 DEF SiftedSoFar
  <2> QED BY <2>10 DEF m
<1> QED BY <1>5, <1>6

\* What sifting keeps: the entries that are in P, and how any two of them are
\* related that stand in this order.
LEMMA SiftKeeps ==
  ASSUME NEW S, NEW h \in Seq(S), NEW P, NEW R, Pairwise(h, R)
  PROVE  /\ Sifted(h, P) \in Seq(S)
         /\ Range(Sifted(h, P)) = Range(h) \cap P
         /\ Pairwise(Sifted(h, P), R)
<1>1. Len(h) \in Nat /\ DOMAIN h = 1..Len(h)
  BY LenProperties
<1>2. PICK u : IsSift(u, h, P, Len(h)) /\ Sifted(h, P) = u[Len(h)]
  BY <1>1, SiftIs
<1> DEFINE T == {n \in Nat : n <= Len(h) => SiftedSoFar(u, h, P, R, S, n)}
<1>3. 0 \in T
  <2>1. 0 \in 0..Len(h)
    BY <1>1, SMT
  <2>2. u[0] = <<>>
    BY <1>2, <2>1 DEF IsSift
  <2>3. <<>> \in Seq(S) /\ DOMAIN <<>> = {}
    BY EmptySeq
  <2>4. Range(u[0]) = {}
    BY <2>2, <2>3 DEF Range
  <2>5. ~\E j \in 1..0 : TRUE
    BY SMT
  <2>6. SiftedSoFar(u, h, P, R, S, 0)
    BY <2>2, <2>3, <2>4, <2>5, Zenon DEF SiftedSoFar
  <2> QED BY <2>6
<1>4. ASSUME NEW n \in Nat, n \in T PROVE n + 1 \in T
  <2>1. ASSUME n + 1 <= Len(h) PROVE SiftedSoFar(u, h, P, R, S, n + 1)
    <3>1. n <= Len(h)
      BY <1>1, <2>1, SMT
    <3> QED BY <1>2, <1>4, <2>1, <3>1, SiftStep
  <2> QED BY <2>1
<1> HIDE DEF T
<1>5. Nat \subseteq T
  BY <1>3, <1>4, NatInd
<1>6. SiftedSoFar(u, h, P, R, S, Len(h))
  BY <1>1, <1>5 DEF T
<1>7. \A x : x \in Range(h) <=> \E j \in 1..Len(h) : h[j] = x
  BY <1>1 DEF Range
<1> DEFINE s == Sifted(h, P)
<1>8. /\ s \in Seq(S)
      /\ \A x : x \in Range(s) <=> x \in P /\ \E j \in 1..Len(h) : h[j] = x
      /\ \A a, b \in DOMAIN s : a < b => <<s[a], s[b]>> \in R
  BY <1>2, <1>6, Zenon DEF SiftedSoFar
<1> HIDE DEF s
<1>9. Range(s) = Range(h) \cap P
  BY <1>7, <1>8
<1>10. Pairwise(s, R)
  BY <1>8 DEF Pairwise
<1> QED BY <1>8, <1>9, <1>10 DEF s

\* One sequence behind another.
LEMMA Behind ==
  ASSUME NEW S, NEW s \in Seq(S), NEW t \in Seq(S)
  PROVE  /\ s \o t \in Seq(S)
         /\ Range(s \o t) = Range(s) \cup Range(t)
         /\ \A R : /\ Pairwise(s, R) /\ Pairwise(t, R)
                   /\ \A a \in Range(s), b \in Range(t) : <<a, b>> \in R
                   => Pairwise(s \o t, R)
<1> DEFINE g == s \o t
           L == Len(s)
           M == Len(t)
<1>1. /\ g \in Seq(S) /\ L \in Nat /\ M \in Nat
      /\ DOMAIN s = 1..L /\ DOMAIN t = 1..M /\ DOMAIN g = 1..(L + M)
      /\ \A i \in 1..(L + M) : g[i] = (IF i <= L THEN s[i] ELSE t[i - L])
  BY ConcatProperties, LenProperties
<1> HIDE DEF g, L, M
<1>2. \A i \in 1..(L + M) : \/ i \in 1..L /\ g[i] = s[i]
                            \/ i - L \in 1..M /\ i \notin 1..L /\ g[i] = t[i - L]
  BY <1>1, SMT
<1>3. \A i \in 1..L : i \in 1..(L + M) /\ g[i] = s[i]
  BY <1>1, SMT
<1>4. \A i \in 1..M : L + i \in 1..(L + M) /\ g[L + i] = t[i]
  <2>1. \A i \in 1..M : L + i \in 1..(L + M) /\ ~(L + i <= L) /\ (L + i) - L = i
    BY <1>1, SMT
  <2> QED BY <1>1, <2>1
<1>5. Range(g) = Range(s) \cup Range(t)
  <2>1. ASSUME NEW y \in Range(g) PROVE y \in Range(s) \cup Range(t)
    <3>1. PICK i \in 1..(L + M) : g[i] = y
      BY <1>1, <2>1 DEF Range
    <3> QED BY <1>1, <1>2, <3>1 DEF Range
  <2>2. ASSUME NEW y \in Range(s) PROVE y \in Range(g)
    <3>1. PICK i \in 1..L : s[i] = y
      BY <1>1, <2>2 DEF Range
    <3> QED BY <1>1, <1>3, <3>1 DEF Range
  <2>3. ASSUME NEW y \in Range(t) PROVE y \in Range(g)
    <3>1. PICK i \in 1..M : t[i] = y
      BY <1>1, <2>3 DEF Range
    <3> QED BY <1>1, <1>4, <3>1 DEF Range
  <2> QED BY <2>1, <2>2, <2>3
<1>6. ASSUME NEW R, Pairwise(s, R), Pairwise(t, R),
             \A a \in Range(s), b \in Range(t) : <<a, b>> \in R,
             NEW i \in DOMAIN g, NEW j \in DOMAIN g, i < j
      PROVE  <<g[i], g[j]>> \in R
  <2>1. CASE j \in 1..L
    <3>1. i \in 1..L
      BY <1>1, <1>6, <2>1, SMT
    <3> QED BY <1>1, <1>3, <1>6, <2>1, <3>1 DEF Pairwise
  <2>2. CASE i \in 1..L /\ j \notin 1..L
    <3>1. g[i] \in Range(s) /\ g[j] \in Range(t)
      BY <1>1, <1>2, <1>6, <2>2 DEF Range
    <3> QED BY <1>6, <3>1
  <2>3. CASE i \notin 1..L /\ j \notin 1..L
    <3>1. i - L \in DOMAIN t /\ j - L \in DOMAIN t /\ g[i] = t[i - L] /\ g[j] = t[j - L]
      BY <1>1, <1>2, <1>6, <2>3
    <3>2. i - L < j - L
      BY <1>1, <1>6, SMT
    <3> QED BY <1>6, <3>1, <3>2, Zenon DEF Pairwise
  <2> QED BY <2>1, <2>2, <2>3
<1>7. \A R : /\ Pairwise(s, R) /\ Pairwise(t, R)
             /\ \A a \in Range(s), b \in Range(t) : <<a, b>> \in R
             => Pairwise(g, R)
  BY <1>6, Zenon DEF Pairwise
<1> QED BY <1>1, <1>5, <1>7 DEF g

-----------------------------------------------------------------------------
(* FlattenSeq, SetToSeqs *)

\* The equation of FlattenSeq's recursion, up to n.
IsFlat(u, seqs, n) == u = [i \in 1..n |-> IF i = 1 THEN seqs[i] ELSE u[i - 1] \o seqs[i]]

\* It has a solution.
LEMMA FlatExists == ASSUME NEW seqs PROVE \A n \in Nat : \E u : IsFlat(u, seqs, n)
<1> DEFINE T == {n \in Nat : \E u : IsFlat(u, seqs, n)}
<1>1. 0 \in T
  <2> DEFINE u == [i \in 1..0 |-> <<>>]
  <2>1. IsFlat(u, seqs, 0)
    BY SMT DEF IsFlat
  <2> QED BY <2>1
<1>2. ASSUME NEW n \in Nat, n \in T PROVE n + 1 \in T
  <2>1. PICK u : IsFlat(u, seqs, n)
    BY <1>2
  <2> DEFINE last == IF n = 0 THEN seqs[n + 1] ELSE u[n] \o seqs[n + 1]
             v == [i \in 1..(n + 1) |-> IF i = n + 1 THEN last ELSE u[i]]
  <2> HIDE DEF last
  <2>2. ASSUME NEW i \in 1..(n + 1)
        PROVE  v[i] = (IF i = 1 THEN seqs[i] ELSE v[i - 1] \o seqs[i])
    <3>1. CASE i = n + 1 /\ n = 0
      <4>1. v[i] = last /\ i = 1
        BY <3>1, SMT
      <4> QED BY <3>1, <4>1 DEF last
    <3>2. CASE i = n + 1 /\ n # 0
      <4>1. v[i] = last /\ v[i - 1] = u[n] /\ i # 1
        BY <3>2, SMT
      <4> QED BY <3>2, <4>1 DEF last
    <3>3. CASE i # n + 1
      <4>1. i \in 1..n /\ v[i] = u[i] /\ (i # 1 => v[i - 1] = u[i - 1])
        BY <3>3, SMT
      <4>2. u[i] = (IF i = 1 THEN seqs[i] ELSE u[i - 1] \o seqs[i])
        BY <2>1, <4>1 DEF IsFlat
      <4> QED BY <4>1, <4>2
    <3> QED BY <3>1, <3>2, <3>3
  <2>3. v = [i \in 1..(n + 1) |-> v[i]]
    OBVIOUS
  <2> HIDE DEF v
  <2>4. IsFlat(v, seqs, n + 1)
    BY <2>2, <2>3 DEF IsFlat
  <2> QED BY <2>4
<1> HIDE DEF T
<1>3. Nat \subseteq T
  BY <1>1, <1>2, NatInd
<1> QED BY <1>3 DEF T

\* FlattenSeq is its value at the end.
LEMMA FlatIs ==
  ASSUME NEW seqs, Len(seqs) \in Nat \ {0}
  PROVE  \E u : IsFlat(u, seqs, Len(seqs)) /\ FlattenSeq(seqs) = u[Len(seqs)]
<1> DEFINE u == CHOOSE u : IsFlat(u, seqs, Len(seqs))
<1>1. IsFlat(u, seqs, Len(seqs))
  BY FlatExists
<1>2. FlattenSeq(seqs) = u[Len(seqs)]
  BY DEF FlattenSeq, IsFlat
<1> QED BY <1>1, <1>2

\* Pieces that are cut off a sequence one behind the other make the sequence up
\* to the last cut.
LEMMA PiecesMakeTheWhole ==
  ASSUME NEW S, NEW w \in Seq(S), NEW n \in Nat \ {0}, NEW cut \in [0..n -> 0..Len(w)],
         cut[0] = 0, \A i \in 1..n : cut[i - 1] <= cut[i],
         NEW seqs, Len(seqs) = n, \A i \in 1..n : seqs[i] = SubSeq(w, cut[i - 1] + 1, cut[i])
  PROVE  FlattenSeq(seqs) = SubSeq(w, 1, cut[n])
<1>1. PICK u : IsFlat(u, seqs, n) /\ FlattenSeq(seqs) = u[n]
  BY FlatIs
<1>2. \A i \in 1..n : u[i] = (IF i = 1 THEN seqs[i] ELSE u[i - 1] \o seqs[i])
  BY <1>1 DEF IsFlat
<1> DEFINE T == {i \in Nat : i + 1 <= n => u[i + 1] = SubSeq(w, 1, cut[i + 1])}
<1>3. 0 \in T
  <2>1. 1 \in 1..n /\ cut[1 - 1] = 0 /\ 1 - 1 = 0 /\ 0 + 1 = 1
    OBVIOUS
  <2>2. u[1] = SubSeq(w, cut[1 - 1] + 1, cut[1])
    BY <1>2, <2>1
  <2>3. u[0 + 1] = SubSeq(w, 1, cut[0 + 1])
    BY <2>1, <2>2
  <2> QED BY <2>3
<1>4. ASSUME NEW i \in Nat, i \in T PROVE i + 1 \in T
  <2> DEFINE j == i + 1
  <2>1. SUFFICES ASSUME j + 1 <= n PROVE u[j + 1] = SubSeq(w, 1, cut[j + 1])
    BY DEF T
  <2>9. i + 1 <= n
    BY <2>1
  <2>2. j \in 1..n /\ j + 1 \in 1..n /\ (j + 1) - 1 = j /\ j + 1 # 1
    BY <2>1
  <2>3. u[j] = SubSeq(w, 1, cut[j])
    BY <1>4, <2>9, Zenon
  <2>4. u[j + 1] = u[j] \o seqs[j + 1] /\ seqs[j + 1] = SubSeq(w, cut[j] + 1, cut[j + 1])
    BY <1>2, <2>2
  <2>5. Len(w) \in Nat
    BY LenProperties
  <2>6. cut[j] \in 0..Len(w) /\ cut[j + 1] \in 0..Len(w) /\ cut[j] <= cut[j + 1]
    <3>1. j \in 0..n /\ j + 1 \in 0..n
      BY <2>2
    <3>2. cut[(j + 1) - 1] <= cut[j + 1]
      BY <2>2, Zenon
    <3> HIDE DEF j
    <3> QED BY <2>2, <3>1, <3>2
  <2>7. 1 \in 1..(Len(w) + 1) /\ cut[j] \in (1 - 1)..Len(w) /\ cut[j + 1] \in cut[j]..Len(w)
    BY <2>5, <2>6
  <2>8. SubSeq(w, 1, cut[j]) \o SubSeq(w, cut[j] + 1, cut[j + 1]) = SubSeq(w, 1, cut[j + 1])
    BY <2>7, ConcatAdjacentSubSeq
  <2> QED BY <2>3, <2>4, <2>8
<1> HIDE DEF T
<1>5. Nat \subseteq T
  BY <1>3, <1>4, NatInd
<1>6. n - 1 \in T
  BY <1>5
<1> QED BY <1>1, <1>6 DEF T

\* Sequences put together are a sequence.
LEMMA FlatIsSeq ==
  ASSUME NEW S, NEW seqs, Len(seqs) \in Nat, \A i \in 1..Len(seqs) : seqs[i] \in Seq(S),
         Len(seqs) = 0 => seqs = <<>>
  PROVE  FlattenSeq(seqs) \in Seq(S)
<1>1. CASE Len(seqs) = 0
  BY <1>1, EmptySeq DEF FlattenSeq
<1>2. CASE Len(seqs) # 0
  <2> DEFINE n == Len(seqs)
  <2>1. PICK u : IsFlat(u, seqs, n) /\ FlattenSeq(seqs) = u[n]
    BY <1>2, FlatIs
  <2>2. \A i \in 1..n : u[i] = (IF i = 1 THEN seqs[i] ELSE u[i - 1] \o seqs[i])
    BY <2>1 DEF IsFlat
  <2> HIDE DEF n
  <2> DEFINE T == {i \in Nat : i + 1 <= n => u[i + 1] \in Seq(S)}
  <2>3. n \in Nat \ {0} /\ \A i \in 1..n : seqs[i] \in Seq(S)
    BY <1>2 DEF n
  <2>4. 0 \in T
    BY <2>2, <2>3
  <2>5. ASSUME NEW i \in Nat, i \in T PROVE i + 1 \in T
    <3> DEFINE j == i + 1
    <3>1. SUFFICES ASSUME j + 1 <= n PROVE u[j + 1] \in Seq(S)
      BY DEF T
    <3>2. j + 1 \in 1..n /\ (j + 1) - 1 = j /\ j + 1 # 1
      BY <2>3, <3>1
    <3>3. u[j] \in Seq(S)
      BY <2>3, <2>5, <3>1
    <3>4. u[j + 1] = u[j] \o seqs[j + 1] /\ seqs[j + 1] \in Seq(S)
      BY <2>2, <2>3, <3>2
    <3> QED BY <3>3, <3>4, ConcatProperties
  <2> HIDE DEF T
  <2>6. Nat \subseteq T
    BY <2>4, <2>5, NatInd
  <2>7. n - 1 \in T
    BY <2>3, <2>6
  <2> QED BY <2>1, <2>3, <2>7 DEF T
<1> QED BY <1>1, <1>2

\* What makes one of a set once each has the set's length and elements.
LEMMA OrdersOfASet ==
  ASSUME NEW A, IsFiniteSet(A), NEW s \in SetToSeqs(A)
  PROVE  s \in Seq(A) /\ Len(s) = Cardinality(A) /\ ToSet(s) = A
<1> DEFINE n == Cardinality(A)
<1>1. n \in Nat
  BY FS_CardinalityType
<1>2. s \in [1..n -> A] /\ \A i, j \in 1..n : i # j => s[i] # s[j]
  BY DEF SetToSeqs
<1>3. IsFiniteSet(1..n) /\ Cardinality(1..n) = n
  <2> HIDE DEF n
  <2> QED BY <1>1, FS_Interval
<1>4. s \in Injection(1..n, A)
  BY <1>2, Fun_IsInj
<1>5. s \in Surjection(1..n, A)
  BY <1>3, <1>4, FS_Injection
<1>6. \A a \in A : \E i \in 1..n : s[i] = a
  BY <1>5 DEF Surjection
<1> HIDE DEF n
<1>7. s \in Seq(A) /\ Len(s) = n /\ DOMAIN s = 1..n
  BY <1>1, <1>2
<1>8. ToSet(s) = A
  BY <1>2, <1>6, <1>7 DEF ToSet
<1> QED BY <1>7, <1>8 DEF n

\* A sequence of different elements has as many as it is long.
LEMMA AsManyAsLong ==
  ASSUME NEW S, NEW s \in Seq(S), IsInjective(s)
  PROVE  IsFiniteSet(ToSet(s)) /\ Cardinality(ToSet(s)) = Len(s)
<1>1. Len(s) \in Nat /\ DOMAIN s = 1..Len(s) /\ s \in [1..Len(s) -> S]
  BY LenProperties
<1> DEFINE n == Len(s)
           A == ToSet(s)
<1>2. s \in [1..n -> A] /\ \A a \in A : \E i \in 1..n : s[i] = a
  BY <1>1 DEF ToSet
<1>3. IsFiniteSet(1..n) /\ Cardinality(1..n) = n
  BY <1>1, FS_Interval
<1> HIDE DEF n, A
<1>4. s \in Surjection(1..n, A)
  BY <1>2, Fun_IsSurj
<1>5. s \in Injection(1..n, A)
  <2>1. \A i, j \in 1..n : s[i] = s[j] => i = j
    BY <1>1 DEF IsInjective, n
  <2> QED BY <1>2, <2>1, Fun_IsInj
<1>6. IsFiniteSet(A) /\ Cardinality(A) = n
  BY <1>3, <1>4, <1>5, FS_Surjection
<1> QED BY <1>6 DEF n, A

-----------------------------------------------------------------------------
(* Remainders. *)

\* Division with a remainder.
LEMMA DivMod == ASSUME NEW n \in Nat \ {0}, NEW x \in Nat PROVE x = n * (x \div n) + (x % n) /\ x \div n \in Int /\ x % n \in 0..(n-1)
  OBVIOUS
\* Numbers that are less than n apart are told apart by their remainders.
LEMMA ModTells ==
  ASSUME NEW n \in Nat \ {0}, NEW x \in Nat, NEW y \in Nat, x % n = y % n, x < y + n, y < x + n
  PROVE  x = y
<1> DEFINE q == x \div n
           p == y \div n
           r == x % n
<1>1. x = n * q + r /\ y = n * p + r /\ q \in Int /\ p \in Int /\ r \in Int
  BY DivMod
<1> HIDE DEF q, p, r
<1>2. CASE q = p
  BY <1>1, <1>2
<1>3. CASE q > p
  <2>1. q >= p + 1
    BY <1>1, <1>3
  <2>2. n * q >= n * (p + 1)
    BY <1>1, <2>1
  <2>3. n * (p + 1) = n * p + n
    BY <1>1
  <2> QED BY <1>1, <2>2, <2>3
<1>4. CASE p > q
  <2>1. p >= q + 1
    BY <1>1, <1>4
  <2>2. n * p >= n * (q + 1)
    BY <1>1, <2>1
  <2>3. n * (q + 1) = n * q + n
    BY <1>1
  <2> QED BY <1>1, <2>2, <2>3
<1> QED BY <1>1, <1>2, <1>3, <1>4

-----------------------------------------------------------------------------
(* How many elements of a sequence are in a set. *)

Places(s, P) == {i \in DOMAIN s : s[i] \in P}

HowMany(s, P) == Cardinality(Places(s, P))

LEMMA HowManyType ==
  ASSUME NEW S, NEW s \in Seq(S), NEW P
  PROVE  IsFiniteSet(Places(s, P)) /\ HowMany(s, P) \in Nat
<1>1. DOMAIN s = 1..Len(s) /\ Len(s) \in Nat
  BY LenProperties
<1>2. IsFiniteSet(1..Len(s))
  BY <1>1, FS_Interval
<1>3. Places(s, P) \in SUBSET (1..Len(s))
  BY <1>1 DEF Places
<1>4. IsFiniteSet(Places(s, P))
  BY <1>2, <1>3, FS_Subset
<1> QED BY <1>4, FS_CardinalityType DEF HowMany

LEMMA HowManyOfNone == ASSUME NEW P PROVE HowMany(<<>>, P) = 0
<1>1. Places(<<>>, P) = {}
  BY DEF Places
<1> QED BY <1>1, FS_EmptySet DEF HowMany

LEMMA HowManyOfOne == ASSUME NEW x, NEW P PROVE HowMany(<<x>>, P) = IF x \in P THEN 1 ELSE 0
<1>1. Places(<<x>>, P) = IF x \in P THEN {1} ELSE {}
  BY DEF Places
<1> QED BY <1>1, FS_EmptySet, FS_Singleton DEF HowMany

\* Of two sequences, one behind the other.
LEMMA HowManyBehind ==
  ASSUME NEW S, NEW s \in Seq(S), NEW t \in Seq(S), NEW P
  PROVE  HowMany(s \o t, P) = HowMany(s, P) + HowMany(t, P)
<1> DEFINE g == s \o t
           L == Len(s)
           M == Len(t)
           A == Places(s, P)
           B == Places(t, P)
           C == {i \in (L + 1)..(L + M) : t[i - L] \in P}
           f == [i \in B |-> L + i]
<1>1. /\ g \in Seq(S) /\ L \in Nat /\ M \in Nat
      /\ DOMAIN s = 1..L /\ DOMAIN t = 1..M /\ DOMAIN g = 1..(L + M)
      /\ \A i \in 1..(L + M) : g[i] = (IF i <= L THEN s[i] ELSE t[i - L])
  BY ConcatProperties, LenProperties
<1>2. IsFiniteSet(A) /\ IsFiniteSet(B) /\ Cardinality(A) \in Nat /\ Cardinality(B) \in Nat
  BY HowManyType DEF HowMany
<1>3. \A i : i \in A <=> i \in 1..L /\ s[i] \in P
  BY <1>1 DEF Places
<1>4. \A i : i \in B <=> i \in 1..M /\ t[i] \in P
  BY <1>1 DEF Places
<1>5. \A i : i \in Places(g, P) <=> i \in 1..(L + M) /\ g[i] \in P
  BY <1>1 DEF Places
<1>6. \A i : i \in C <=> i \in (L + 1)..(L + M) /\ t[i - L] \in P
  OBVIOUS
<1>7. DOMAIN f = B /\ \A i \in B : f[i] = L + i
  OBVIOUS
<1> HIDE DEF g, L, M, A, B, C, f
<1>8. f \in [B -> C]
  <2>1. ASSUME NEW i \in B PROVE f[i] \in C
    <3>1. i \in 1..M /\ t[i] \in P
      BY <1>4
    <3>2. L + i \in (L + 1)..(L + M) /\ (L + i) - L = i
      BY <1>1, <3>1
    <3> QED BY <1>6, <1>7, <3>1, <3>2
  <2>2. f = [i \in B |-> f[i]]
    BY <1>7 DEF f
  <2> QED BY <1>7, <2>1, <2>2
<1>9. \A i, j \in B : f[i] = f[j] => i = j
  <2>1. \A i \in B : i \in Int
    BY <1>4
  <2> QED BY <1>1, <1>7, <2>1
<1>10. \A c \in C : \E i \in B : f[i] = c
  <2>1. ASSUME NEW c \in C PROVE c - L \in B /\ f[c - L] = c
    <3>1. c \in (L + 1)..(L + M) /\ t[c - L] \in P
      BY <1>6
    <3>2. c - L \in 1..M /\ L + (c - L) = c
      BY <1>1, <3>1
    <3> QED BY <1>4, <1>7, <3>1, <3>2
  <2> QED BY <2>1
<1>11. f \in Bijection(B, C)
  BY <1>8, <1>9, <1>10, Fun_IsBij
<1>12. ExistsBijection(B, C)
  BY <1>11 DEF ExistsBijection
<1>13. IsFiniteSet(C) /\ Cardinality(C) = Cardinality(B)
  BY <1>2, <1>12, FS_Bijection
<1>14. Places(g, P) = A \cup C
  <2>1. ASSUME NEW i PROVE i \in Places(g, P) <=> i \in A \cup C
    <3>1. i \in 1..(L + M) <=> i \in 1..L \/ i \in (L + 1)..(L + M)
      BY <1>1
    <3>2. i \in 1..L => g[i] = s[i]
      BY <1>1
    <3>3. i \in (L + 1)..(L + M) => g[i] = t[i - L]
      BY <1>1
    <3> QED BY <1>3, <1>5, <1>6, <3>1, <3>2, <3>3
  <2> QED BY <2>1
<1>15. A \cap C = {}
  <2>1. \A i \in 1..L : i \notin (L + 1)..(L + M)
    BY <1>1
  <2> QED BY <1>3, <1>6, <2>1
<1>16. Cardinality(A \cup C) = Cardinality(A) + Cardinality(C) - Cardinality(A \cap C)
  BY <1>2, <1>13, FS_Union
<1>17. Cardinality(A \cap C) = 0
  BY <1>15, FS_EmptySet
<1>18. Cardinality(Places(g, P)) = Cardinality(A) + Cardinality(B)
  BY <1>2, <1>13, <1>14, <1>16, <1>17
<1> QED BY <1>18 DEF HowMany, g, A, B

\* Of a sequence, and of what is behind its first.
LEMMA HowManyInTail ==
  ASSUME NEW S, NEW s \in Seq(S), s # <<>>, NEW P
  PROVE  HowMany(s, P) = (IF Head(s) \in P THEN 1 ELSE 0) + HowMany(Tail(s), P)
<1>1. Head(s) \in S /\ Tail(s) \in Seq(S) /\ Len(Tail(s)) = Len(s) - 1
      /\ \A i \in 1..Len(Tail(s)) : Tail(s)[i] = s[i + 1]
  BY HeadTailProperties
<1> DEFINE h == <<Head(s)>>
           t == Tail(s)
           g == h \o t
<1>2. Len(s) \in Nat /\ DOMAIN s = 1..Len(s) /\ s \in [1..Len(s) -> S]
  BY LenProperties
<1>3. h \in Seq(S) /\ Len(h) = 1 /\ h[1] = s[1]
  BY <1>1, <1>2
<1> HIDE DEF h, t
<1>4. g \in Seq(S) /\ Len(g) = Len(h) + Len(t)
      /\ \A i \in 1..(Len(h) + Len(t)) : g[i] = IF i <= Len(h) THEN h[i] ELSE t[i - Len(h)]
  <2>1. t \in Seq(S)
    BY <1>1 DEF t
  <2> QED BY <1>3, <2>1, ConcatProperties
<1>5. g \in [1..Len(g) -> S] /\ Len(g) = Len(s)
  <2>1. Len(g) = Len(s)
    BY <1>1, <1>2, <1>3, <1>4 DEF t
  <2> QED BY <1>4, <2>1, LenProperties
<1>6. ASSUME NEW i \in 1..Len(s) PROVE g[i] = s[i]
  <2>1. CASE i = 1
    BY <1>1, <1>2, <1>3, <1>4, <2>1 DEF t
  <2>2. CASE i # 1
    <3>1. i - 1 \in 1..Len(t) /\ ~(i <= Len(h)) /\ (i - 1) + 1 = i /\ i \in 1..(Len(h) + Len(t))
      BY <1>1, <1>2, <1>3, <2>2 DEF t
    <3>2. g[i] = t[i - 1] /\ t[i - 1] = s[(i - 1) + 1]
      BY <1>1, <1>3, <1>4, <3>1 DEF t
    <3> QED BY <3>1, <3>2
  <2> QED BY <2>1, <2>2
<1> HIDE DEF g
<1>7. g = s
  BY <1>2, <1>5, <1>6
<1>8. HowMany(g, P) = HowMany(h, P) + HowMany(t, P)
  <2>1. t \in Seq(S)
    BY <1>1 DEF t
  <2> QED BY <1>3, <2>1, HowManyBehind DEF g
<1> QED BY <1>7, <1>8, HowManyOfOne DEF h, t

\* Sequences to be put together, and how many of P there are in the first i.
IsPieces(seqs, n, S) == Len(seqs) = n /\ \A i \in 1..n : seqs[i] \in Seq(S)

CountsAlong(f, seqs, n, P) == f[0] = 0 /\ \A i \in 1..n : f[i] = f[i - 1] + HowMany(seqs[i], P)

\* Of many sequences put together.
LEMMA HowManyTogether ==
  ASSUME NEW S, NEW n \in Nat \ {0}, NEW seqs, IsPieces(seqs, n, S),
         NEW P, NEW f, CountsAlong(f, seqs, n, P)
  PROVE  HowMany(FlattenSeq(seqs), P) = f[n]
<1> USE DEF IsPieces, CountsAlong
<1>1. PICK u : IsFlat(u, seqs, n) /\ FlattenSeq(seqs) = u[n]
  BY FlatIs
<1>2. \A i \in 1..n : u[i] = (IF i = 1 THEN seqs[i] ELSE u[i - 1] \o seqs[i])
  BY <1>1 DEF IsFlat
<1> DEFINE T == {i \in Nat : i + 1 <= n => u[i + 1] \in Seq(S) /\ HowMany(u[i + 1], P) = f[i + 1]}
<1>3. 0 \in T
  <2>1. 1 \in 1..n /\ 1 - 1 = 0
    OBVIOUS
  <2>2. u[1] = seqs[1] /\ seqs[1] \in Seq(S)
    BY <1>2, <2>1
  <2>3. f[1] = 0 + HowMany(seqs[1], P) /\ HowMany(seqs[1], P) \in Nat
    BY <2>1, <2>2, HowManyType
  <2>4. u[1] \in Seq(S) /\ HowMany(u[1], P) = f[1]
    BY <2>2, <2>3
  <2>5. 0 + 1 = 1
    OBVIOUS
  <2> QED BY <2>4, <2>5
<1>4. ASSUME NEW i \in Nat, i \in T PROVE i + 1 \in T
  <2> DEFINE j == i + 1
  <2>1. SUFFICES ASSUME j + 1 <= n PROVE u[j + 1] \in Seq(S) /\ HowMany(u[j + 1], P) = f[j + 1]
    BY DEF T
  <2>2. i + 1 <= n
    BY <2>1
  <2>3. j + 1 \in 1..n /\ (j + 1) - 1 = j /\ j + 1 # 1
    BY <2>1
  <2>4. u[j] \in Seq(S) /\ HowMany(u[j], P) = f[j]
    BY <1>4, <2>2, Zenon
  <2> HIDE DEF j
  <2>5. u[j + 1] = u[j] \o seqs[j + 1] /\ seqs[j + 1] \in Seq(S)
        /\ f[j + 1] = f[j] + HowMany(seqs[j + 1], P)
    BY <1>2, <2>3
  <2> QED BY <2>4, <2>5, HowManyBehind, ConcatProperties
<1> HIDE DEF T
<1>5. Nat \subseteq T
  BY <1>3, <1>4, NatInd
<1>6. n - 1 \in T /\ (n - 1) + 1 = n
  BY <1>5
<1> QED BY <1>1, <1>6 DEF T

\* How any two elements are related, in many sequences put together.
LEMMA PairsTogether ==
  ASSUME NEW S, NEW n \in Nat \ {0}, NEW seqs, IsPieces(seqs, n, S),
         NEW R, \A i \in 1..n : Pairwise(seqs[i], R),
         \A i, j \in 1..n : i < j => \A a \in Range(seqs[i]), b \in Range(seqs[j]) : <<a, b>> \in R
  PROVE  Pairwise(FlattenSeq(seqs), R)
<1> USE DEF IsPieces
<1>1. PICK u : IsFlat(u, seqs, n) /\ FlattenSeq(seqs) = u[n]
  BY FlatIs
<1>2. \A i \in 1..n : u[i] = (IF i = 1 THEN seqs[i] ELSE u[i - 1] \o seqs[i])
  BY <1>1 DEF IsFlat
<1> DEFINE Sofar(i) == /\ u[i] \in Seq(S) /\ Pairwise(u[i], R)
                       /\ \A a \in Range(u[i]) : \E k \in 1..i : a \in Range(seqs[k])
           T == {i \in Nat : i + 1 <= n => Sofar(i + 1)}
<1>3. 0 \in T
  <2>1. 1 \in 1..n /\ 1 \in 1..1 /\ 0 + 1 = 1
    OBVIOUS
  <2>2. u[1] = seqs[1] /\ seqs[1] \in Seq(S) /\ Pairwise(seqs[1], R)
    BY <1>2, <2>1
  <2>3. Sofar(1)
    BY <2>1, <2>2
  <2> HIDE DEF Sofar
  <2> QED BY <2>1, <2>3
<1>4. ASSUME NEW i \in Nat, i \in T PROVE i + 1 \in T
  <2> DEFINE j == i + 1
  <2>1. SUFFICES ASSUME j + 1 <= n PROVE Sofar(j + 1)
    BY DEF T
  <2>2. i + 1 <= n
    BY <2>1
  <2>3. j \in Nat /\ j + 1 \in 1..n /\ (j + 1) - 1 = j /\ j + 1 # 1
    BY <2>1
  <2>4. Sofar(j)
    <3> HIDE DEF Sofar
    <3> QED BY <1>4, <2>2, Zenon
  <2> HIDE DEF j
  <2>5. u[j + 1] = u[j] \o seqs[j + 1] /\ seqs[j + 1] \in Seq(S) /\ Pairwise(seqs[j + 1], R)
    BY <1>2, <2>3
  <2>6. ASSUME NEW a \in Range(u[j]), NEW b \in Range(seqs[j + 1]) PROVE <<a, b>> \in R
    <3>1. PICK k \in 1..j : a \in Range(seqs[k])
      BY <2>4
    <3>2. k \in 1..n /\ k < j + 1
      BY <2>3, <3>1
    <3> QED BY <2>3, <2>6, <3>1, <3>2
  <2>7. u[j + 1] \in Seq(S) /\ Range(u[j + 1]) = Range(u[j]) \cup Range(seqs[j + 1])
        /\ Pairwise(u[j + 1], R)
    BY <2>4, <2>5, <2>6, Behind
  <2>8. ASSUME NEW a \in Range(u[j + 1]) PROVE \E k \in 1..(j + 1) : a \in Range(seqs[k])
    <3>1. CASE a \in Range(u[j])
      <4>1. PICK k \in 1..j : a \in Range(seqs[k])
        BY <2>4, <3>1
      <4>2. k \in 1..(j + 1)
        BY <2>3
      <4> QED BY <4>1, <4>2
    <3>2. CASE a \in Range(seqs[j + 1])
      <4>1. j + 1 \in 1..(j + 1)
        BY <2>3
      <4> QED BY <3>2, <4>1
    <3> QED BY <2>7, <2>8, <3>1, <3>2
  <2> QED BY <2>7, <2>8
<1> HIDE DEF T
<1>5. Nat \subseteq T
  BY <1>3, <1>4, NatInd
<1>6. n - 1 \in T /\ (n - 1) + 1 = n
  BY <1>5
<1> QED BY <1>1, <1>6 DEF T

\* Sifting makes a sequence no longer, and what is all of P no shorter.
LEMMA SiftLength ==
  ASSUME NEW S, NEW h \in Seq(S), NEW P
  PROVE  /\ Len(Sifted(h, P)) \in Nat /\ Len(Sifted(h, P)) <= Len(h)
         /\ Range(h) \subseteq P => Len(Sifted(h, P)) = Len(h)
<1>1. Len(h) \in Nat /\ DOMAIN h = 1..Len(h)
  BY LenProperties
<1>2. PICK u : IsSift(u, h, P, Len(h)) /\ Sifted(h, P) = u[Len(h)]
  BY <1>1, SiftIs
<1>3. \A i \in 0..Len(h) : u[i] = (IF i = 0 THEN <<>>
                           ELSE IF h[i] \in P THEN Append(u[i - 1], h[i]) ELSE u[i - 1])
  BY <1>2 DEF IsSift
<1> DEFINE Sofar(n) == /\ u[n] \in Seq(S) /\ Len(u[n]) <= n
                       /\ Range(h) \subseteq P => Len(u[n]) = n
           T == {n \in Nat : n <= Len(h) => Sofar(n)}
<1>4. 0 \in T
  <2>1. 0 \in 0..Len(h)
    BY <1>1
  <2>2. u[0] = <<>>
    BY <1>3, <2>1
  <2>3. <<>> \in Seq(S) /\ Len(<<>>) = 0
    BY EmptySeq
  <2>4. Sofar(0)
    BY <2>2, <2>3
  <2> HIDE DEF Sofar
  <2> QED BY <2>4
<1>5. ASSUME NEW n \in Nat, n \in T PROVE n + 1 \in T
  <2> DEFINE m == n + 1
  <2>1. SUFFICES ASSUME m <= Len(h) PROVE Sofar(m)
    BY DEF T
  <2>2. m \in 0..Len(h) /\ m # 0 /\ m - 1 = n /\ m \in 1..Len(h) /\ n <= Len(h) /\ m = n + 1
    BY <1>1, <2>1
  <2>3. Sofar(n)
    <3> HIDE DEF Sofar
    <3> QED BY <1>5, <2>2, Zenon
  <2> HIDE DEF m
  <2>4. u[m] = (IF h[m] \in P THEN Append(u[n], h[m]) ELSE u[n])
    BY <1>3, <2>2
  <2>5. h[m] \in S /\ h[m] \in Range(h)
    <3>1. h[m] \in S
      BY <1>1, <2>2, ElementOfSeq
    <3> QED BY <1>1, <2>2, <3>1 DEF Range
  <2>6. CASE h[m] \in P
    <3>1. Append(u[n], h[m]) \in Seq(S) /\ Len(Append(u[n], h[m])) = Len(u[n]) + 1 /\ Len(u[n]) \in Nat
      BY <2>3, <2>5, AppendProperties, LenProperties
    <3> QED BY <2>2, <2>3, <2>4, <2>6, <3>1
  <2>7. CASE h[m] \notin P
    <3>1. Len(u[n]) \in Nat
      BY <2>3, LenProperties
    <3> QED BY <2>2, <2>3, <2>4, <2>5, <2>7, <3>1
  <2> QED BY <2>6, <2>7
<1> HIDE DEF T
<1>6. Nat \subseteq T
  BY <1>4, <1>5, NatInd
<1>7. Sofar(Len(h))
  <2> HIDE DEF Sofar
  <2> QED BY <1>1, <1>6 DEF T
<1> QED BY <1>2, <1>7, LenProperties
=============================================================================
