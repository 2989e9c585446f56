------------------------ MODULE SeqlenBalancingProofs ------------------------
(***************************************************************************)
(* Proofs about SeqlenBalancing and DataProto, for rows of any lengths and *)
(* any number of parts: what sorting and flattening return, that the       *)
(* differencing method keeps every row, keeps the spread of its states     *)
(* within bounds and leaves no part empty, that micro-batches cover their  *)
(* mini-batch and are undone by their inverse, and what splits, chunks and *)
(* padding leave of a batch.                                               *)
(***************************************************************************)
EXTENDS SeqlenBalancing, DataProto, FiniteSetTheorems, FunctionTheorems, SequenceTheorems,
        WellFoundedInduction, TLAPS

-----------------------------------------------------------------------------
(* Induction over the natural numbers, for sets of them *)

NatLess == {ss \in Nat \X Nat : ss[1] < ss[2]}

LEMMA LeastElement == ASSUME NEW T, T \subseteq Nat, T # {} PROVE \E x \in T : \A y \in T : x <= y
<1>1. IsWellFoundedOn(NatLess, Nat)
  BY NatLessThanWellFounded DEF OpToRel, NatLess
<1>2. PICK x \in T : \A y \in T : ~(<<y, x>> \in NatLess)
  BY <1>1, WFMin
<1>3. ASSUME NEW y \in T PROVE x <= y
  <2>1. x \in Nat /\ y \in Nat /\ ~(<<y, x>> \in NatLess)
    BY <1>2, <1>3
  <2> QED BY <2>1 DEF NatLess
<1> QED BY <1>3

LEMMA GreatestElement ==
  ASSUME NEW n \in Nat, NEW T, T \subseteq 0..n, T # {}
  PROVE  Max(T) \in T /\ \A y \in T : y <= Max(T)
<1> DEFINE U == {n - y : y \in T}
<1>1. \A y \in T : y \in Nat /\ n - y \in Nat
  OBVIOUS
<1>2. PICK x \in U : \A y \in U : x <= y
  <2>1. U \subseteq Nat /\ U # {}
    BY <1>1
  <2> HIDE DEF U
  <2> QED BY <2>1, LeastElement
<1>3. PICK m \in T : x = n - m
  OBVIOUS
<1>4. \A y \in T : y <= m
  <2> TAKE y \in T
  <2>1. n - m <= n - y
    BY <1>2, <1>3
  <2> QED BY <1>1, <2>1
<1>5. \A y \in T : m >= y
  BY <1>1, <1>4
<1>6. Max(T) \in T /\ \A y \in T : Max(T) >= y
  BY <1>5 DEF Max
<1> QED BY <1>1, <1>6

LEMMA Induct ==
  ASSUME NEW S, 0 \in S, \A n \in Nat : n \in S => n + 1 \in S
  PROVE  Nat \subseteq S
<1> SUFFICES ASSUME Nat \ S # {} PROVE FALSE
  OBVIOUS
<1>1. PICK m \in Nat \ S : \A y \in Nat \ S : m <= y
  BY LeastElement
<1>2. m # 0 /\ m - 1 \in Nat
  OBVIOUS
<1>3. m - 1 \in S
  BY <1>1, <1>2
<1> QED BY <1>2, <1>3
-----------------------------------------------------------------------------
(* Lists: what sorting returns *)

\* A sequence of n members names every member of S once.
Lists(f, n, S) ==
  /\ f \in [1..n -> S]
  /\ \A i, j \in 1..n : f[i] = f[j] => i = j
  /\ \A x \in S : \E i \in 1..n : f[i] = x

LEMMA EvaluatedIs ==
  ASSUME NEW X, NEW n \in Nat, NEW f \in [1..n -> X]
  PROVE  Evaluated(f) = f /\ f \in Seq(X) /\ Len(f) = n
<1>1. f \in Seq(X)
  OBVIOUS
<1>2. f \o <<>> = f
  BY <1>1
<1>3. Len(f) = n
  OBVIOUS
<1> QED BY <1>1, <1>2, <1>3 DEF Evaluated

StrictOrder(R, S) ==
  /\ \A x \in S : <<x, x>> \notin R
  /\ \A x, y, z \in S : <<x, y>> \in R /\ <<y, z>> \in R => <<x, z>> \in R
  /\ \A x, y \in S : x # y => <<x, y>> \in R \/ <<y, x>> \in R

Rank(S, R, x) == Cardinality({y \in S : <<y, x>> \in R})

LEMMA RankGrows ==
  ASSUME NEW S, IsFiniteSet(S), NEW R, StrictOrder(R, S)
  PROVE  /\ \A x \in S : Rank(S, R, x) \in Nat /\ Rank(S, R, x) < Cardinality(S)
         /\ \A x, y \in S : <<x, y>> \in R => Rank(S, R, x) < Rank(S, R, y)
<1> DEFINE below(x) == {y \in S : <<y, x>> \in R}
<1>1. ASSUME NEW x \in S
      PROVE  /\ IsFiniteSet(below(x)) /\ Cardinality(below(x)) \in Nat
             /\ Cardinality(below(x)) < Cardinality(S)
  <2>1. below(x) \subseteq S \ {x} /\ below(x) \subseteq S
    BY DEF StrictOrder
  <2>2. IsFiniteSet(S \ {x}) /\ Cardinality(S \ {x}) = Cardinality(S) - 1
    BY FS_RemoveElement
  <2>3. IsFiniteSet(below(x)) /\ Cardinality(below(x)) <= Cardinality(S \ {x})
    BY <2>1, <2>2, FS_Subset
  <2>4. Cardinality(below(x)) \in Nat /\ Cardinality(S) \in Nat
    BY <2>3, FS_CardinalityType
  <2> QED BY <2>2, <2>3, <2>4
<1>2. ASSUME NEW x \in S, NEW y \in S, <<x, y>> \in R
      PROVE  Cardinality(below(x)) < Cardinality(below(y))
  <2>1. below(x) \subseteq below(y) \ {x} /\ x \in below(y)
    BY <1>2 DEF StrictOrder
  <2>2. IsFiniteSet(below(y) \ {x}) /\ Cardinality(below(y) \ {x}) = Cardinality(below(y)) - 1
    BY <1>1, <2>1, FS_RemoveElement
  <2>3. Cardinality(below(x)) <= Cardinality(below(y) \ {x})
    BY <2>1, <2>2, FS_Subset
  <2>4. Cardinality(below(x)) \in Nat /\ Cardinality(below(y)) \in Nat
    BY <1>1
  <2> QED BY <2>2, <2>3, <2>4
<1>3. \A x : Rank(S, R, x) = Cardinality(below(x))
  BY DEF Rank
<1> HIDE DEF below
<1> QED BY <1>1, <1>2, <1>3

\* Sorting returns every member once, and in the order of R.
LEMMA InOrderLists ==
  ASSUME NEW S, IsFiniteSet(S), NEW R, StrictOrder(R, S)
  PROVE  /\ Lists(InOrder(S, R), Cardinality(S), S)
         /\ \A a, b \in 1..Cardinality(S) : a < b => <<InOrder(S, R)[a], InOrder(S, R)[b]>> \in R
<1> DEFINE n == Cardinality(S)
           rank == [x \in S |-> Rank(S, R, x) + 1]
           g == [m \in 1..n |-> CHOOSE x \in S : Cardinality({y \in S : <<y, x>> \in R}) = m - 1]
<1>1. n \in Nat
  BY FS_CardinalityType
<1>2. /\ \A x \in S : Rank(S, R, x) \in Nat /\ Rank(S, R, x) < n
      /\ \A x, y \in S : <<x, y>> \in R => Rank(S, R, x) < Rank(S, R, y)
  BY RankGrows
<1>3. InOrder(S, R) = Evaluated(g)
  BY DEF InOrder
<1>4. ASSUME NEW x \in S, NEW y \in S, x # y PROVE Rank(S, R, x) # Rank(S, R, y)
  <2>1. <<x, y>> \in R \/ <<y, x>> \in R
    BY <1>4 DEF StrictOrder
  <2>2. Rank(S, R, x) < Rank(S, R, y) \/ Rank(S, R, y) < Rank(S, R, x)
    BY <1>2, <2>1
  <2>3. Rank(S, R, x) \in Nat /\ Rank(S, R, y) \in Nat
    BY <1>2
  <2> QED BY <2>2, <2>3
<1>5. rank \in Surjection(S, 1..n)
  <2>1. \A x \in S : rank[x] = Rank(S, R, x) + 1 /\ rank[x] \in 1..n
    BY <1>1, <1>2
  <2>2. rank \in [S -> 1..n]
    BY <2>1
  <2>3. \A x, y \in S : rank[x] = rank[y] => x = y
    BY <1>2, <1>4, <2>1
  <2>4. rank \in Injection(S, 1..n)
    BY <2>2, <2>3 DEF Injection, IsInjective
  <2>5. IsFiniteSet(1..n) /\ Cardinality(1..n) = n
    BY <1>1, FS_Interval
  <2> QED BY <2>4, <2>5, FS_Injection
<1>6. ASSUME NEW m \in 1..n PROVE g[m] \in S /\ Rank(S, R, g[m]) = m - 1
  <2>1. PICK x \in S : rank[x] = m
    BY <1>5 DEF Surjection
  <2>2. Rank(S, R, x) = m - 1
    BY <1>1, <1>2, <2>1
  <2>3. Cardinality({y \in S : <<y, x>> \in R}) = m - 1
    BY <2>2 DEF Rank
  <2>4. g[m] = CHOOSE z \in S : Cardinality({y \in S : <<y, z>> \in R}) = m - 1
    OBVIOUS
  <2>5. g[m] \in S /\ Cardinality({y \in S : <<y, g[m]>> \in R}) = m - 1
    BY <2>3, <2>4
  <2> QED BY <2>5 DEF Rank
<1>7. g \in [1..n -> S]
  BY <1>6
<1> HIDE DEF g, n, rank
<1>8. InOrder(S, R) = g
  BY <1>1, <1>3, <1>7, EvaluatedIs
<1>9. Lists(g, n, S)
  <2>1. ASSUME NEW i \in 1..n, NEW j \in 1..n, g[i] = g[j] PROVE i = j
    <3>1. Rank(S, R, g[i]) = i - 1 /\ Rank(S, R, g[j]) = j - 1
      BY <1>6
    <3> QED BY <1>1, <2>1, <3>1
  <2>3. ASSUME NEW x \in S PROVE \E i \in 1..n : g[i] = x
    <3> DEFINE i == Rank(S, R, x) + 1
    <3>1. i \in 1..n /\ Rank(S, R, x) = i - 1
      BY <1>1, <1>2
    <3>2. g[i] \in S /\ Rank(S, R, g[i]) = Rank(S, R, x)
      BY <1>6, <3>1
    <3>3. g[i] = x
      BY <1>4, <3>2
    <3> QED BY <3>1, <3>3
  <2> QED BY <1>7, <2>1, <2>3 DEF Lists
<1>10. ASSUME NEW a \in 1..n, NEW b \in 1..n, a < b
       PROVE  <<g[a], g[b]>> \in R
  <2>1. /\ g[a] \in S /\ Rank(S, R, g[a]) = a - 1
        /\ g[b] \in S /\ Rank(S, R, g[b]) = b - 1
    BY <1>6
  <2>2. g[a] # g[b]
    BY <1>1, <1>10, <2>1
  <2>3. ~(<<g[b], g[a]>> \in R)
    <3> SUFFICES ASSUME <<g[b], g[a]>> \in R PROVE FALSE
      OBVIOUS
    <3>1. b - 1 < a - 1
      BY <1>2, <2>1
    <3> QED BY <1>1, <1>10, <3>1
  <2> QED BY <2>1, <2>2, <2>3 DEF StrictOrder
<1> QED BY <1>8, <1>9, <1>10 DEF n

\* Rows in batch order.
LEMMA RowsInLists ==
  ASSUME NEW n \in Nat, NEW S \in SUBSET (1..n)
  PROVE  /\ IsFiniteSet(S) /\ Cardinality(S) \in Nat
         /\ Lists(RowsIn(S), Cardinality(S), S)
         /\ RowsIn(S) \in Seq(1..n) /\ Len(RowsIn(S)) = Cardinality(S)
         /\ \A a, b \in 1..Cardinality(S) : a < b => RowsIn(S)[a] < RowsIn(S)[b]
<1> DEFINE R == {ij \in S \X S : ij[1] < ij[2]}
           f == RowsIn(S)
           m == Cardinality(S)
<1>1. IsFiniteSet(S) /\ m \in Nat
  <2>1. IsFiniteSet(1..n)
    BY FS_Interval
  <2>2. IsFiniteSet(S)
    BY <2>1, FS_Subset
  <2> QED BY <2>2, FS_CardinalityType
<1>2. \A x, y \in S : <<x, y>> \in R <=> x < y
  OBVIOUS
<1> HIDE DEF R
<1>3. StrictOrder(R, S)
  <2>1. \A x \in S : x \in Int
    OBVIOUS
  <2> QED BY <1>2, <2>1 DEF StrictOrder
<1>4. f = InOrder(S, R)
  BY DEF RowsIn, R
<1> HIDE DEF f, m
<1>5. Lists(f, m, S)
  BY <1>1, <1>3, <1>4, InOrderLists DEF m
<1>6. f \in [1..m -> S]
  BY <1>5 DEF Lists
<1>7. f \in Seq(1..n) /\ Len(f) = m
  <2>1. f \in [1..m -> 1..n]
    BY <1>6
  <2> QED BY <1>1, <2>1
<1>8. ASSUME NEW a \in 1..m, NEW b \in 1..m, a < b PROVE f[a] < f[b]
  <2>1. <<f[a], f[b]>> \in R
    BY <1>1, <1>3, <1>4, <1>8, InOrderLists DEF m
  <2>2. f[a] \in S /\ f[b] \in S
    BY <1>6
  <2> QED BY <1>2, <2>1, <2>2
<1> QED BY <1>1, <1>5, <1>7, <1>8 DEF f, m
-----------------------------------------------------------------------------
(* Flattening *)

\* The flattening of the first d sequences.
Flat(s, d) == FlattenSeq([i \in 1..d |-> s[i]])

\* F[d] is the concatenation of the first d sequences.
Flattens(F, X, s, n) ==
  /\ F \in [0..n -> Seq(X)] /\ F[0] = <<>>
  /\ \A d \in 1..n : F[d] = F[d - 1] \o s[d]

LEMMA FlattensExists ==
  ASSUME NEW X, NEW n \in Nat, NEW s \in [1..n -> Seq(X)]
  PROVE  \E F : Flattens(F, X, s, n)
<1> DEFINE Good == {m \in Nat : m <= n => \E F : Flattens(F, X, s, m)}
<1>1. 0 \in Good
  <2>1. Flattens([i \in 0..0 |-> <<>>], X, s, 0)
    BY DEF Flattens
  <2> QED BY <2>1
<1>2. ASSUME NEW m \in Nat, m \in Good PROVE m + 1 \in Good
  <2> SUFFICES ASSUME m + 1 <= n PROVE \E F : Flattens(F, X, s, m + 1)
    OBVIOUS
  <2>1. PICK F : Flattens(F, X, s, m)
    BY <1>2
  <2> DEFINE G == [i \in 0..(m + 1) |-> IF i = m + 1 THEN F[m] \o s[m + 1] ELSE F[i]]
  <2>2. F \in [0..m -> Seq(X)] /\ s[m + 1] \in Seq(X)
    BY <2>1 DEF Flattens
  <2>3. G \in [0..(m + 1) -> Seq(X)]
    BY <2>2
  <2>4. G[0] = <<>>
    BY <2>1 DEF Flattens
  <2>5. ASSUME NEW d \in 1..(m + 1) PROVE G[d] = G[d - 1] \o s[d]
    <3>1. d - 1 \in 0..m /\ G[d - 1] = F[d - 1]
      OBVIOUS
    <3>2. CASE d = m + 1
      <4>1. G[m + 1] = F[m] \o s[m + 1] /\ m # m + 1
        <5>1. m + 1 \in 0..(m + 1) /\ m # m + 1
          OBVIOUS
        <5> QED BY <5>1
      <4>2. d - 1 = m
        BY <3>2
      <4> QED BY <3>1, <3>2, <4>1, <4>2
    <3>3. CASE d # m + 1
      <4>1. d \in 1..m /\ G[d] = F[d]
        BY <3>3
      <4> QED BY <2>1, <3>1, <4>1 DEF Flattens
    <3> QED BY <3>2, <3>3
  <2> HIDE DEF G
  <2>6. Flattens(G, X, s, m + 1)
    BY <2>3, <2>4, <2>5 DEF Flattens
  <2> QED BY <2>6
<1> HIDE DEF Good
<1>3. n \in Good
  BY <1>1, <1>2, Induct
<1> QED BY <1>3 DEF Good

LEMMA FlattensUnique ==
  ASSUME NEW X, NEW n \in Nat, NEW m \in Nat, NEW s, NEW F, NEW G,
         Flattens(F, X, s, n), Flattens(G, X, s, m)
  PROVE  \A d \in Nat : d <= n /\ d <= m => F[d] = G[d]
<1> DEFINE Good == {d \in Nat : d <= n /\ d <= m => F[d] = G[d]}
<1>1. 0 \in Good
  BY DEF Flattens
<1>2. ASSUME NEW d \in Nat, d \in Good PROVE d + 1 \in Good
  <2> SUFFICES ASSUME d + 1 <= n, d + 1 <= m PROVE F[d + 1] = G[d + 1]
    OBVIOUS
  <2>1. d + 1 \in 1..n /\ d + 1 \in 1..m /\ (d + 1) - 1 = d
    OBVIOUS
  <2>2. F[d + 1] = F[d] \o s[d + 1] /\ G[d + 1] = G[d] \o s[d + 1]
    BY <2>1 DEF Flattens
  <2>3. F[d] = G[d]
    <3>1. d <= n /\ d <= m
      OBVIOUS
    <3> QED BY <1>2, <3>1
  <2> QED BY <2>2, <2>3
<1> HIDE DEF Good
<1>3. Nat \subseteq Good
  BY <1>1, <1>2, Induct
<1> QED BY <1>3 DEF Good

LEMMA FlattenIs ==
  ASSUME NEW X, NEW n \in Nat, NEW s \in [1..n -> Seq(X)], NEW F, Flattens(F, X, s, n)
  PROVE  FlattenSeq(s) = F[n]
<1>1. s \in Seq(Seq(X)) /\ Len(s) = n
  OBVIOUS
<1>2. CASE n = 0
  <2>1. s = <<>>
    BY <1>1, <1>2
  <2> QED BY <1>1, <1>2, <2>1 DEF Flattens, FlattenSeq
<1>3. CASE n # 0
  <2> DEFINE Rec(f) == f = [i \in 1..n |-> IF i = 1 THEN s[i] ELSE f[i - 1] \o s[i]]
             f == CHOOSE f : Rec(f)
             H == [i \in 1..n |-> F[i]]
  <2>1. Rec(H)
    <3>1. ASSUME NEW i \in 1..n PROVE H[i] = IF i = 1 THEN s[i] ELSE H[i - 1] \o s[i]
      <4>1. F[i] = F[i - 1] \o s[i] /\ F[0] = <<>>
        BY DEF Flattens
      <4>2. CASE i = 1
        <5>0. i - 1 = 0
          BY <4>2
        <5>1. F[1] = <<>> \o s[1] /\ s[1] \in Seq(X)
          BY <4>1, <4>2, <5>0
        <5>2. F[1] = s[1]
          BY <5>1
        <5> QED BY <4>2, <5>2
      <4>3. CASE i # 1
        BY <4>1, <4>3
      <4> QED BY <4>2, <4>3
    <3> QED BY <3>1
  <2>2. Rec(f)
    BY <2>1
  <2>3. FlattenSeq(s) = f[n]
    BY <1>1, <1>3 DEF FlattenSeq
  <2> HIDE DEF f
  <2>4. \A i \in 1..n : f[i] = IF i = 1 THEN s[i] ELSE f[i - 1] \o s[i]
    BY <2>2
  <2> HIDE DEF Rec
  <2> DEFINE Good == {d \in Nat : d \in 1..n => f[d] = F[d]}
  <2>5. 0 \in Good
    OBVIOUS
  <2>6. ASSUME NEW d \in Nat, d \in Good PROVE d + 1 \in Good
    <3> SUFFICES ASSUME d + 1 \in 1..n PROVE f[d + 1] = F[d + 1]
      OBVIOUS
    <3>1. F[d + 1] = F[d] \o s[d + 1] /\ s[d + 1] \in Seq(X) /\ F[0] = <<>>
      <4>1. (d + 1) - 1 = d
        OBVIOUS
      <4> QED BY <4>1 DEF Flattens
    <3>2. CASE d = 0
      <4>0. d + 1 = 1
        BY <3>2
      <4>1. F[1] = <<>> \o s[1]
        BY <3>1, <3>2, <4>0
      <4>2. F[1] = s[1]
        BY <3>1, <3>2, <4>1
      <4> QED BY <2>4, <3>2, <4>2
    <3>3. CASE d # 0
      <4>1. f[d] = F[d] /\ d + 1 \in 1..n /\ d + 1 # 1 /\ (d + 1) - 1 = d
        BY <2>6, <3>3
      <4>2. f[d + 1] = f[d] \o s[d + 1]
        BY <2>4, <4>1
      <4> QED BY <3>1, <4>1, <4>2
    <3> QED BY <3>2, <3>3
  <2> HIDE DEF Good
  <2>7. n \in Good
    BY <2>5, <2>6, Induct
  <2> QED BY <1>3, <2>3, <2>7 DEF Good
<1> QED BY <1>2, <1>3

\* One more sequence is appended at the end.
LEMMA FlatStep ==
  ASSUME NEW X, NEW n \in Nat, NEW s \in [1..n -> Seq(X)]
  PROVE  /\ Flat(s, 0) = <<>>
         /\ \A d \in 0..n : Flat(s, d) \in Seq(X)
         /\ \A d \in 1..n : Flat(s, d) = Flat(s, d - 1) \o s[d]
         /\ FlattenSeq(s) = Flat(s, n)
<1>1. PICK F : Flattens(F, X, s, n)
  BY FlattensExists
<1>2. ASSUME NEW d \in 0..n PROVE Flat(s, d) = F[d]
  <2> DEFINE t == [i \in 1..d |-> s[i]]
  <2>1. t \in [1..d -> Seq(X)]
    OBVIOUS
  <2>2. PICK G : Flattens(G, X, t, d)
    <3>1. d \in Nat
      OBVIOUS
    <3> HIDE DEF t
    <3> QED BY <2>1, <3>1, FlattensExists
  <2>3. FlattenSeq(t) = G[d]
    BY <2>1, <2>2, FlattenIs
  <2>4. Flattens(G, X, s, d)
    <3>1. \A i \in 1..d : t[i] = s[i]
      OBVIOUS
    <3> HIDE DEF t
    <3> QED BY <2>2, <3>1 DEF Flattens
  <2>5. G[d] = F[d]
    BY <1>1, <2>4, FlattensUnique
  <2> QED BY <2>3, <2>5 DEF Flat
<1>3. FlattenSeq(s) = F[n]
  BY <1>1, FlattenIs
<1>4. /\ F \in [0..n -> Seq(X)] /\ F[0] = <<>>
      /\ \A d \in 1..n : F[d] = F[d - 1] \o s[d]
  BY <1>1 DEF Flattens
<1>5. 0 \in 0..n /\ n \in 0..n /\ \A d \in 1..n : d \in 0..n /\ d - 1 \in 0..n
  OBVIOUS
<1> QED BY <1>2, <1>3, <1>4, <1>5

LEMMA FlatNone == \A s : Flat(s, 0) = <<>>
<1> TAKE s
<1>1. FlattenSeq(<<>>) = <<>>
  <2>1. <<>> \in [1..0 -> Seq({})]
    OBVIOUS
  <2>2. Flat(<<>>, 0) = <<>> /\ FlattenSeq(<<>>) = Flat(<<>>, 0)
    BY <2>1, FlatStep
  <2> QED BY <2>2
<1>2. [i \in 1..0 |-> s[i]] = <<>>
  <2>1. 1..0 = {}
    OBVIOUS
  <2> QED BY <2>1
<1> QED BY <1>1, <1>2 DEF Flat

\* No two places of the first n sequences hold the same member.
Apart(s, n) ==
  \A i, j \in 1..n : \A a \in 1..Len(s[i]), b \in 1..Len(s[j]) : s[i][a] = s[j][b] => i = j /\ a = b

\* A sequence of all members of the first n sequences that repeats none.
Joins(f, X, s, n) ==
  /\ f \in Seq(X)
  /\ \A p, q \in 1..Len(f) : f[p] = f[q] => p = q
  /\ \A p \in 1..Len(f) : \E i \in 1..n : \E a \in 1..Len(s[i]) : f[p] = s[i][a]
  /\ \A i \in 1..n : \A a \in 1..Len(s[i]) : \E p \in 1..Len(f) : f[p] = s[i][a]

\* Flattening sequences that share no member and repeat none joins them.
LEMMA FlattenLists ==
  ASSUME NEW X, NEW n \in Nat, NEW s \in [1..n -> Seq(X)], Apart(s, n)
  PROVE  Joins(FlattenSeq(s), X, s, n)
<1>12. \A i, j \in 1..n : \A a \in 1..Len(s[i]), b \in 1..Len(s[j]) :
        s[i][a] = s[j][b] => i = j /\ a = b
  BY DEF Apart
<1>0. /\ Flat(s, 0) = <<>> /\ FlattenSeq(s) = Flat(s, n)
      /\ \A d \in 1..n : Flat(s, d) = Flat(s, d - 1) \o s[d]
  BY FlatStep
<1> DEFINE From(f, d) == \A p \in 1..Len(f) : \E i \in 1..d : \E a \in 1..Len(s[i]) : f[p] = s[i][a]
           Has(f, d) == \A i \in 1..d : \A a \in 1..Len(s[i]) : \E p \in 1..Len(f) : f[p] = s[i][a]
           Once(f) == \A p, q \in 1..Len(f) : f[p] = f[q] => p = q
           All(f, d) == f \in Seq(X) /\ Once(f) /\ From(f, d) /\ Has(f, d)
           Good == {d \in Nat : d <= n => All(Flat(s, d), d)}
<1>1. 0 \in Good
  <2>1. <<>> \in Seq(X) /\ Len(<<>>) = 0
    OBVIOUS
  <2>2. All(<<>>, 0)
    BY <2>1
  <2> HIDE DEF All
  <2> QED BY <1>0, <2>2
<1>2. ASSUME NEW d \in Nat, d \in Good PROVE d + 1 \in Good
  <2> SUFFICES ASSUME d + 1 <= n PROVE All(Flat(s, d + 1), d + 1)
    <3> HIDE DEF All
    <3> QED OBVIOUS
  <2> DEFINE f == Flat(s, d)
             t == s[d + 1]
             g == f \o t
  <2>1. d + 1 \in 1..n /\ (d + 1) - 1 = d /\ d <= n /\ d \in 0..n
    OBVIOUS
  <2>2. Flat(s, d + 1) = g
    BY <1>0, <2>1
  <2>3. f \in Seq(X) /\ Once(f) /\ From(f, d) /\ Has(f, d)
    BY <1>2, <2>1
  <2>4. t \in Seq(X) /\ Len(f) \in Nat /\ Len(t) \in Nat
    BY <2>1, <2>3
  <2> HIDE DEF f
  <2>5. /\ g \in Seq(X) /\ Len(g) = Len(f) + Len(t)
        /\ \A p \in 1..Len(f) : g[p] = f[p]
        /\ \A a \in 1..Len(t) : g[Len(f) + a] = t[a]
    BY <2>3, <2>4
  <2>6. \A p \in 1..Len(g) : p \in 1..Len(f) \/ \E a \in 1..Len(t) : p = Len(f) + a
    <3> SUFFICES ASSUME NEW p \in 1..Len(g), p \notin 1..Len(f)
                 PROVE  \E a \in 1..Len(t) : p = Len(f) + a
      OBVIOUS
    <3>1. p - Len(f) \in 1..Len(t) /\ p = Len(f) + (p - Len(f))
      BY <2>4, <2>5
    <3> QED BY <3>1
  <2> HIDE DEF g
  <2>7. From(g, d + 1)
    <3> SUFFICES ASSUME NEW p \in 1..Len(g)
                 PROVE  \E i \in 1..(d + 1) : \E a \in 1..Len(s[i]) : g[p] = s[i][a]
      OBVIOUS
    <3>1. CASE p \in 1..Len(f)
      <4>1. PICK i \in 1..d : \E a \in 1..Len(s[i]) : f[p] = s[i][a]
        BY <2>3, <3>1
      <4>2. i \in 1..(d + 1)
        OBVIOUS
      <4> QED BY <2>5, <3>1, <4>1, <4>2
    <3>2. CASE p \notin 1..Len(f)
      <4>1. PICK a \in 1..Len(t) : p = Len(f) + a
        BY <2>6, <3>2
      <4>2. g[p] = s[d + 1][a] /\ a \in 1..Len(s[d + 1]) /\ d + 1 \in 1..(d + 1)
        BY <2>5, <4>1
      <4> QED BY <4>2
    <3> QED BY <3>1, <3>2
  <2>8. Has(g, d + 1)
    <3> SUFFICES ASSUME NEW i \in 1..(d + 1), NEW a \in 1..Len(s[i])
                 PROVE  \E p \in 1..Len(g) : g[p] = s[i][a]
      OBVIOUS
    <3>1. CASE i = d + 1
      <4>1. a \in 1..Len(t) /\ Len(f) + a \in 1..Len(g)
        BY <2>4, <2>5, <3>1
      <4> QED BY <2>5, <3>1, <4>1
    <3>2. CASE i # d + 1
      <4>1. i \in 1..d
        BY <3>2
      <4>2. PICK p \in 1..Len(f) : f[p] = s[i][a]
        BY <2>3, <4>1
      <4>3. p \in 1..Len(g)
        BY <2>4, <2>5
      <4> QED BY <2>5, <4>2, <4>3
    <3> QED BY <3>1, <3>2
  <2>9. ASSUME NEW p \in 1..Len(f), NEW a \in 1..Len(t), f[p] = t[a] PROVE FALSE
    <3>1. PICK i \in 1..d : \E b \in 1..Len(s[i]) : f[p] = s[i][b]
      BY <2>3
    <3>2. PICK b \in 1..Len(s[i]) : f[p] = s[i][b]
      BY <3>1
    <3>3. i \in 1..n /\ d + 1 \in 1..n /\ i # d + 1
      BY <2>1
    <3>4. s[i][b] = s[d + 1][a] => i = d + 1
      BY <1>12, <3>3
    <3> QED BY <2>9, <3>2, <3>3, <3>4
  <2>10. Once(g)
    <3> SUFFICES ASSUME NEW p \in 1..Len(g), NEW q \in 1..Len(g), g[p] = g[q] PROVE p = q
      OBVIOUS
    <3>1. CASE p \in 1..Len(f) /\ q \in 1..Len(f)
      BY <2>3, <2>5, <3>1
    <3>2. CASE p \in 1..Len(f) /\ q \notin 1..Len(f)
      <4>1. PICK a \in 1..Len(t) : q = Len(f) + a
        BY <2>6, <3>2
      <4>2. f[p] = t[a]
        BY <2>5, <3>2, <4>1
      <4> QED BY <2>9, <3>2, <4>2
    <3>3. CASE p \notin 1..Len(f) /\ q \in 1..Len(f)
      <4>1. PICK a \in 1..Len(t) : p = Len(f) + a
        BY <2>6, <3>3
      <4>2. f[q] = t[a]
        BY <2>5, <3>3, <4>1
      <4> QED BY <2>9, <3>3, <4>2
    <3>4. CASE p \notin 1..Len(f) /\ q \notin 1..Len(f)
      <4>1. PICK a \in 1..Len(t) : p = Len(f) + a
        BY <2>6, <3>4
      <4>2. PICK b \in 1..Len(t) : q = Len(f) + b
        BY <2>6, <3>4
      <4>3. t[a] = t[b]
        BY <2>5, <4>1, <4>2
      <4>4. a = b
        BY <1>12, <2>1, <4>3
      <4> QED BY <4>1, <4>2, <4>4
    <3> QED BY <3>1, <3>2, <3>3, <3>4
  <2> HIDE DEF From, Has, Once
  <2> QED BY <2>2, <2>5, <2>7, <2>8, <2>10
<1> HIDE DEF Good
<1>3. n \in Good
  BY <1>1, <1>2, Induct
<1>4. All(FlattenSeq(s), n)
  <2> HIDE DEF All
  <2>1. All(Flat(s, n), n)
    BY <1>3 DEF Good
  <2> QED BY <1>0, <2>1
<1> QED BY <1>4 DEF Joins

\* Two lists of one set are equally long.
LEMMA ListsLen ==
  ASSUME NEW S, NEW m \in Nat, NEW f, Lists(f, m, S)
  PROVE  IsFiniteSet(S) /\ Cardinality(S) = m
<1>1. f \in Bijection(1..m, S)
  BY DEF Lists, Bijection, Injection, Surjection, IsInjective
<1>2. IsFiniteSet(1..m) /\ Cardinality(1..m) = m
  BY FS_Interval
<1> QED BY <1>1, <1>2, FS_Bijection DEF ExistsBijection

\* What h says of the members of f.
Image(h, f) == [p \in 1..Len(f) |-> h[f[p]]]

\* Results in the order of the plan come back in the order of the batch.
LEMMA RestoreIs ==
  ASSUME NEW n \in Nat, NEW plan, NEW f, f = FlattenSeq(plan), Lists(f, n, 1..n),
         NEW g, NEW results, results = Image(g, f)
  PROVE  RestoreDynamicBatch(results, plan) = [i \in 1..n |-> g[i]]
<1> DEFINE back == ReverseIdx(f)
<1>1. f \in [1..n -> 1..n] /\ DOMAIN f = 1..n
  BY DEF Lists
<1>2. /\ \A i, j \in 1..n : f[i] = f[j] => i = j
      /\ \A x \in 1..n : \E i \in 1..n : f[i] = x
  BY DEF Lists
<1>3. ASSUME NEW j \in 1..n PROVE back[j] \in 1..n /\ f[back[j]] = j
  <2>1. PICK i \in 1..n : f[i] = j
    BY <1>2
  <2>2. {x \in DOMAIN f : f[x] = j} = {i}
    BY <1>1, <1>2, <2>1
  <2>3. back[j] = IF {x \in DOMAIN f : f[x] = j} = {} THEN f[j] ELSE Max({x \in DOMAIN f : f[x] = j})
    BY <1>1 DEF ReverseIdx
  <2>4. back[j] = Max({i})
    BY <2>2, <2>3
  <2>5. Max({i}) = i
    BY DEF Max
  <2> QED BY <2>1, <2>4, <2>5
<1>4. RestoreDynamicBatch(results, plan) = [i \in DOMAIN results |-> results[back[i]]]
  BY DEF RestoreDynamicBatch
<1> HIDE DEF back
<1>5. DOMAIN results = 1..n /\ \A p \in 1..n : results[p] = g[f[p]]
  <2>1. Len(f) = n
    BY <1>1, EvaluatedIs
  <2> QED BY <2>1 DEF Image
<1>6. \A i \in 1..n : results[back[i]] = g[i]
  BY <1>3, <1>5
<1> QED BY <1>4, <1>5, <1>6
-----------------------------------------------------------------------------
(* Tokens *)

\* The tokens of a set of rows.
RowTokens(lens, S) == UNION {{i} \X (1..lens[i]) : i \in S}
Weight(lens, S) == Cardinality(RowTokens(lens, S))

LEMMA RowTokensMember ==
  \A lens, S, x : x \in RowTokens(lens, S) <=> \E i \in S : \E t \in 1..lens[i] : x = <<i, t>>
BY DEF RowTokens

LEMMA WeightOne ==
  ASSUME NEW lens, NEW i, lens[i] \in Nat
  PROVE  IsFiniteSet(RowTokens(lens, {i})) /\ Weight(lens, {i}) = lens[i]
<1> DEFINE f == [t \in 1..lens[i] |-> <<i, t>>]
           T == RowTokens(lens, {i})
<1>1. IsFiniteSet(1..lens[i]) /\ Cardinality(1..lens[i]) = lens[i]
  BY FS_Interval, SMTT(30)
<1>2. f \in Bijection(1..lens[i], T)
  <2>1. f \in [1..lens[i] -> T]
    BY RowTokensMember
  <2>2. \A s, t \in 1..lens[i] : f[s] = f[t] => s = t
    OBVIOUS
  <2>3. \A x \in T : \E t \in 1..lens[i] : f[t] = x
    BY RowTokensMember
  <2> QED BY <2>1, <2>2, <2>3 DEF Bijection, Injection, Surjection, IsInjective
<1> HIDE DEF f
<1>3. ExistsBijection(1..lens[i], T)
  BY <1>2 DEF ExistsBijection
<1> QED BY <1>1, <1>3, FS_Bijection DEF Weight

LEMMA WeightNone == \A lens : IsFiniteSet(RowTokens(lens, {})) /\ Weight(lens, {}) = 0
<1> TAKE lens
<1>1. RowTokens(lens, {}) = {}
  BY DEF RowTokens
<1> QED BY <1>1, FS_EmptySet DEF Weight

LEMMA WeightUnion ==
  ASSUME NEW lens, NEW S, NEW T, S \cap T = {},
         IsFiniteSet(RowTokens(lens, S)), IsFiniteSet(RowTokens(lens, T))
  PROVE  /\ IsFiniteSet(RowTokens(lens, S \cup T))
         /\ Weight(lens, S \cup T) = Weight(lens, S) + Weight(lens, T)
         /\ Weight(lens, S) \in Nat /\ Weight(lens, T) \in Nat
<1> DEFINE A == RowTokens(lens, S)
           B == RowTokens(lens, T)
<1>1. RowTokens(lens, S \cup T) = A \cup B
  BY DEF RowTokens
<1>2. A \cap B = {}
  <2> SUFFICES ASSUME NEW x \in A, x \in B PROVE FALSE
    OBVIOUS
  <2>1. PICK i \in S : \E t \in 1..lens[i] : x = <<i, t>>
    BY RowTokensMember
  <2>2. PICK j \in T : \E t \in 1..lens[j] : x = <<j, t>>
    BY RowTokensMember
  <2>3. i = j
    BY <2>1, <2>2
  <2> QED BY <2>3
<1>3. Cardinality(A \cap B) = 0
  BY <1>2, FS_EmptySet
<1> HIDE DEF A, B
<1>4. IsFiniteSet(A) /\ IsFiniteSet(B) /\ Cardinality(A) \in Nat /\ Cardinality(B) \in Nat
  BY FS_CardinalityType DEF A, B
<1>5. IsFiniteSet(A \cup B) /\ Cardinality(A \cup B) = Cardinality(A) + Cardinality(B)
  <2>1. /\ IsFiniteSet(A \cup B)
        /\ Cardinality(A \cup B) = Cardinality(A) + Cardinality(B) - Cardinality(A \cap B)
    BY <1>4, FS_Union
  <2> QED BY <1>3, <1>4, <2>1
<1> QED BY <1>1, <1>4, <1>5 DEF Weight, A, B

\* A finite set of rows has finitely many tokens.
LEMMA RowTokensFinite ==
  ASSUME NEW n \in Nat, NEW lens, \A i \in 1..n : lens[i] \in Nat, NEW S \in SUBSET (1..n)
  PROVE  IsFiniteSet(RowTokens(lens, S)) /\ Weight(lens, S) \in Nat
<1> DEFINE Part(m) == S \cap (1..m)
           Good == {m \in Nat : m <= n => IsFiniteSet(RowTokens(lens, Part(m)))}
<1>1. 0 \in Good
  <2>1. Part(0) = {}
    OBVIOUS
  <2> HIDE DEF Part
  <2> QED BY <2>1, WeightNone
<1>2. ASSUME NEW m \in Nat, m \in Good PROVE m + 1 \in Good
  <2> SUFFICES ASSUME m + 1 <= n PROVE IsFiniteSet(RowTokens(lens, Part(m + 1)))
    BY DEF Good
  <2>1. IsFiniteSet(RowTokens(lens, Part(m)))
    BY <1>2
  <2>2. CASE m + 1 \in S
    <3>1. Part(m + 1) = Part(m) \cup {m + 1} /\ Part(m) \cap {m + 1} = {}
      BY <2>2
    <3>2. lens[m + 1] \in Nat
      OBVIOUS
    <3>3. IsFiniteSet(RowTokens(lens, {m + 1}))
      BY <3>2, WeightOne
    <3> HIDE DEF Part
    <3>4. IsFiniteSet(RowTokens(lens, Part(m) \cup {m + 1}))
      BY <2>1, <3>1, <3>3, WeightUnion
    <3> QED BY <3>1, <3>4
  <2>3. CASE m + 1 \notin S
    <3>1. Part(m + 1) = Part(m)
      BY <2>3
    <3> HIDE DEF Part
    <3> QED BY <2>1, <3>1
  <2> QED BY <2>2, <2>3
<1> HIDE DEF Good
<1>3. n \in Good
  BY <1>1, <1>2, Induct
<1>4. Part(n) = S
  OBVIOUS
<1> HIDE DEF Part
<1>5. IsFiniteSet(RowTokens(lens, S))
  BY <1>3, <1>4 DEF Good
<1> QED BY <1>5, FS_CardinalityType DEF Weight

Members(seq) == {seq[p] : p \in DOMAIN seq}

\* A part that repeats no row has the tokens of its rows.
LEMMA TokensAre ==
  ASSUME NEW n \in Nat, NEW lens, \A i \in 1..n : lens[i] \in Nat,
         NEW part \in Seq(1..n), \A p, q \in 1..Len(part) : part[p] = part[q] => p = q
  PROVE  Tokens(lens, part) = Weight(lens, Members(part))
<1> DEFINE T == RowTokens(lens, Members(part))
           U == TokensOf(lens, part)
           f == [x \in U |-> <<part[x[1]], x[2]>>]
<1>1. DOMAIN part = 1..Len(part) /\ Members(part) \subseteq 1..n
  BY DEF Members
<1>2. \A x : x \in U <=> \E p \in 1..Len(part) : \E t \in 1..lens[part[p]] : x = <<p, t>>
  BY <1>1 DEF TokensOf
<1> HIDE DEF U
<1>3. \A x : x \in T <=> \E p \in 1..Len(part) : \E t \in 1..lens[part[p]] : x = <<part[p], t>>
  <2>1. \A i : i \in Members(part) <=> \E p \in 1..Len(part) : i = part[p]
    BY <1>1 DEF Members
  <2>2. \A x : x \in T <=> \E i \in Members(part) : \E t \in 1..lens[i] : x = <<i, t>>
    BY RowTokensMember
  <2> QED BY <2>1, <2>2, SMTT(30)
<1> HIDE DEF T
<1>4. \A x \in U : f[x] = <<part[x[1]], x[2]>> /\ x[1] \in 1..Len(part) /\ x[2] \in 1..lens[part[x[1]]]
                   /\ x = <<x[1], x[2]>>
  BY <1>2
<1>5. f \in [U -> T]
  BY <1>3, <1>4
<1>6. ASSUME NEW x \in U, NEW y \in U, f[x] = f[y] PROVE x = y
  <2>1. part[x[1]] = part[y[1]] /\ x[2] = y[2]
    BY <1>4, <1>6
  <2>2. x[1] = y[1]
    BY <1>4, <2>1
  <2>3. x = <<x[1], x[2]>> /\ y = <<y[1], y[2]>>
    BY <1>4
  <2> QED BY <2>1, <2>2, <2>3
<1>7. ASSUME NEW x \in T PROVE \E y \in U : f[y] = x
  <2>1. PICK p \in 1..Len(part) : \E t \in 1..lens[part[p]] : x = <<part[p], t>>
    BY <1>3
  <2>2. PICK t \in 1..lens[part[p]] : x = <<part[p], t>>
    BY <2>1
  <2>3. <<p, t>> \in U
    BY <1>2
  <2>4. f[<<p, t>>] = <<part[p], t>>
    BY <2>3
  <2> QED BY <2>2, <2>3, <2>4
<1> HIDE DEF f
<1>8. f \in Bijection(U, T)
  BY <1>5, <1>6, <1>7 DEF Bijection, Injection, Surjection, IsInjective
<1>9. ExistsBijection(T, U)
  BY <1>8, Fun_ExistsBijSymmetric DEF ExistsBijection
<1>10. IsFiniteSet(T)
  BY <1>1, RowTokensFinite DEF T
<1>11. Cardinality(U) = Cardinality(T)
  BY <1>9, <1>10, FS_Bijection
<1> QED BY <1>11 DEF Tokens, Weight, T, U
-----------------------------------------------------------------------------
(* The order of sets *)

\* The sets of Karmarkar and Karp's method over n rows.
SetsOver(n) == [sum : Nat, items : Seq(1..n)]

\* The comparison of the lists of two sets that are equally long.
LexLess(a, b) == \E i \in 1..Len(a) : a[i] < b[i] /\ \A j \in 1..(i - 1) : a[j] = b[j]

LEMMA LexOrder ==
  ASSUME NEW n \in Nat, NEW len \in Nat, NEW a \in Seq(1..n), NEW b \in Seq(1..n), NEW c \in Seq(1..n),
         Len(a) = len, Len(b) = len, Len(c) = len
  PROVE  /\ ~LexLess(a, a)
         /\ LexLess(a, b) /\ LexLess(b, c) => LexLess(a, c)
         /\ a # b => LexLess(a, b) \/ LexLess(b, a)
<1>1. \A i \in 1..len : a[i] \in Int /\ b[i] \in Int /\ c[i] \in Int
  OBVIOUS
<1>2. ~LexLess(a, a)
  BY <1>1 DEF LexLess
<1>3. ASSUME LexLess(a, b), LexLess(b, c) PROVE LexLess(a, c)
  <2>1. PICK i \in 1..len : a[i] < b[i] /\ \A m \in 1..(i - 1) : a[m] = b[m]
    BY <1>3 DEF LexLess
  <2>2. PICK j \in 1..len : b[j] < c[j] /\ \A m \in 1..(j - 1) : b[m] = c[m]
    BY <1>3 DEF LexLess
  <2>3. CASE i < j
    <3>1. a[i] < c[i] /\ \A m \in 1..(i - 1) : a[m] = c[m]
      BY <1>1, <2>1, <2>2, <2>3
    <3> QED BY <3>1 DEF LexLess
  <2>4. CASE i = j
    <3>1. a[i] < c[i] /\ \A m \in 1..(i - 1) : a[m] = c[m]
      BY <1>1, <2>1, <2>2, <2>4
    <3> QED BY <3>1 DEF LexLess
  <2>5. CASE j < i
    <3>1. a[j] < c[j] /\ \A m \in 1..(j - 1) : a[m] = c[m]
      BY <1>1, <2>1, <2>2, <2>5
    <3> QED BY <3>1 DEF LexLess
  <2> QED BY <2>3, <2>4, <2>5
<1>4. ASSUME a # b PROVE LexLess(a, b) \/ LexLess(b, a)
  <2> DEFINE T == {i \in 1..len : a[i] # b[i]}
  <2>1. T # {}
    <3> SUFFICES ASSUME \A i \in 1..len : a[i] = b[i] PROVE FALSE
      OBVIOUS
    <3> QED BY <1>4
  <2>2. T \subseteq Nat
    OBVIOUS
  <2> HIDE DEF T
  <2>3. PICK i \in T : \A j \in T : i <= j
    BY <2>1, <2>2, LeastElement
  <2>4. i \in 1..len /\ a[i] # b[i] /\ \A j \in 1..(i - 1) : a[j] = b[j]
    BY <2>3 DEF T
  <2>5. a[i] < b[i] \/ b[i] < a[i]
    BY <1>1, <2>4
  <2> QED BY <2>4, <2>5 DEF LexLess
<1> QED BY <1>2, <1>3, <1>4

LEMMA SetLessIs ==
  \A a, b : SetLess(a, b) <=>
    \/ a.sum < b.sum
    \/ /\ a.sum = b.sum
       /\ Len(a.items) < Len(b.items) \/ (Len(a.items) = Len(b.items) /\ LexLess(a.items, b.items))
BY DEF SetLess, LexLess

LEMMA SetOrder ==
  ASSUME NEW n \in Nat, NEW a \in SetsOver(n), NEW b \in SetsOver(n), NEW c \in SetsOver(n)
  PROVE  /\ ~SetLess(a, a)
         /\ SetLess(a, b) /\ SetLess(b, c) => SetLess(a, c)
         /\ a # b => SetLess(a, b) \/ SetLess(b, a)
<1>1. /\ a.sum \in Nat /\ b.sum \in Nat /\ c.sum \in Nat
      /\ a.items \in Seq(1..n) /\ b.items \in Seq(1..n) /\ c.items \in Seq(1..n)
  BY DEF SetsOver
<1>2. Len(a.items) \in Nat /\ Len(b.items) \in Nat /\ Len(c.items) \in Nat
  BY <1>1
<1>3. ~SetLess(a, a)
  <2>1. ~LexLess(a.items, a.items)
    BY <1>1, <1>2, LexOrder
  <2>2. SetLess(a, a) <=> \/ a.sum < a.sum
                         \/ /\ a.sum = a.sum
                            /\ \/ Len(a.items) < Len(a.items)
                               \/ Len(a.items) = Len(a.items) /\ LexLess(a.items, a.items)
    BY SetLessIs
  <2> QED BY <1>1, <1>2, <2>1, <2>2
<1>4. ASSUME SetLess(a, b), SetLess(b, c) PROVE SetLess(a, c)
  <2>3. \/ a.sum < b.sum
        \/ /\ a.sum = b.sum
           /\ Len(a.items) < Len(b.items) \/ (Len(a.items) = Len(b.items) /\ LexLess(a.items, b.items))
    BY <1>4, SetLessIs
  <2>4. \/ b.sum < c.sum
        \/ /\ b.sum = c.sum
           /\ Len(b.items) < Len(c.items) \/ (Len(b.items) = Len(c.items) /\ LexLess(b.items, c.items))
    BY <1>4, SetLessIs
  <2>1. \/ a.sum < c.sum
        \/ a.sum = c.sum /\ a.sum = b.sum
    BY <1>1, <2>3, <2>4
  <2>2. CASE a.sum = c.sum /\ a.sum = b.sum
    <3>1. \/ Len(a.items) < Len(c.items)
          \/ /\ Len(a.items) = Len(c.items) /\ Len(a.items) = Len(b.items)
             /\ LexLess(a.items, b.items) /\ LexLess(b.items, c.items)
      BY <1>1, <1>2, <2>2, <2>3, <2>4
    <3>2. CASE /\ Len(a.items) = Len(c.items) /\ Len(a.items) = Len(b.items)
               /\ LexLess(a.items, b.items) /\ LexLess(b.items, c.items)
      <4>1. LexLess(a.items, c.items)
        BY <1>1, <1>2, <3>2, LexOrder
      <4> QED BY <2>2, <3>2, <4>1, SetLessIs
    <3> QED BY <2>2, <3>1, <3>2, SetLessIs
  <2> QED BY <2>1, <2>2, SetLessIs
<1>5. ASSUME a # b PROVE SetLess(a, b) \/ SetLess(b, a)
  <2>1. a.sum # b.sum \/ a.items # b.items
    BY <1>5 DEF SetsOver
  <2>2. CASE a.sum # b.sum
    BY <1>1, <2>2, SetLessIs
  <2>3. CASE a.sum = b.sum /\ Len(a.items) # Len(b.items)
    BY <1>2, <2>3, SetLessIs
  <2>4. CASE a.sum = b.sum /\ Len(a.items) = Len(b.items)
    <3>1. LexLess(a.items, b.items) \/ LexLess(b.items, a.items)
      BY <1>1, <1>2, <2>1, <2>4, LexOrder
    <3> QED BY <2>4, <3>1, SetLessIs
  <2> QED BY <2>2, <2>3, <2>4
<1> QED BY <1>3, <1>4, <1>5

\* Sorting a state rearranges its sets, the largest first.
LEMMA DecreasingIs ==
  ASSUME NEW n \in Nat, NEW k \in Nat, NEW sets \in [1..k -> SetsOver(n)]
  PROVE  \E order : /\ Lists(order, k, 1..k)
                    /\ Decreasing(sets) = [m \in 1..k |-> sets[order[m]]]
                    /\ \A i, j \in 1..k : i < j => sets[order[i]].sum >= sets[order[j]].sum
<1> DEFINE Before1(p, q) == SetLess(sets[q], sets[p]) \/ (~SetLess(sets[p], sets[q]) /\ p < q)
           R == {pq \in (1..k) \X (1..k) : Before1(pq[1], pq[2])}
           order == InOrder(1..k, R)
           sorted == [m \in 1..k |-> sets[order[m]]]
<1>1. /\ \A p \in 1..k : ~SetLess(sets[p], sets[p])
      /\ \A p, q, t \in 1..k : SetLess(sets[p], sets[q]) /\ SetLess(sets[q], sets[t]) => SetLess(sets[p], sets[t])
      /\ \A p, q \in 1..k : sets[p] # sets[q] => SetLess(sets[p], sets[q]) \/ SetLess(sets[q], sets[p])
  BY SetOrder
<1>2. \A p, q \in 1..k : <<p, q>> \in R <=>
        SetLess(sets[q], sets[p]) \/ (sets[p] = sets[q] /\ p < q)
  BY <1>1
<1> HIDE DEF R
<1>3. StrictOrder(R, 1..k)
  <2>1. \A x \in 1..k : <<x, x>> \notin R
    BY <1>1, <1>2
  <2>2. ASSUME NEW x \in 1..k, NEW y \in 1..k, NEW z \in 1..k, <<x, y>> \in R, <<y, z>> \in R
        PROVE  <<x, z>> \in R
    <3>1. SetLess(sets[y], sets[x]) \/ (sets[x] = sets[y] /\ x < y)
      BY <1>2, <2>2
    <3>2. SetLess(sets[z], sets[y]) \/ (sets[y] = sets[z] /\ y < z)
      BY <1>2, <2>2
    <3>3. SetLess(sets[z], sets[x]) \/ (sets[x] = sets[z] /\ x < z)
      BY <1>1, <3>1, <3>2
    <3> QED BY <1>2, <3>3
  <2>3. \A x, y \in 1..k : x # y => <<x, y>> \in R \/ <<y, x>> \in R
    BY <1>1, <1>2
  <2> QED BY <2>1, <2>2, <2>3 DEF StrictOrder
<1>4. IsFiniteSet(1..k) /\ Cardinality(1..k) = k
  BY FS_Interval
<1>5. /\ Lists(order, k, 1..k)
      /\ \A a, b \in 1..k : a < b => <<order[a], order[b]>> \in R
  BY <1>3, <1>4, InOrderLists
<1>6. order \in [1..k -> 1..k]
  BY <1>5 DEF Lists
<1>7. Decreasing(sets) = Evaluated(sorted)
  <2>1. DOMAIN sets = 1..k
    OBVIOUS
  <2> QED BY <2>1 DEF Decreasing, R
<1>8. sorted \in [1..k -> SetsOver(n)]
  BY <1>6
<1>9. Evaluated(sorted) = sorted
  <2> HIDE DEF sorted
  <2> QED BY <1>8, EvaluatedIs
<1> HIDE DEF order
<1>10. ASSUME NEW i \in 1..k, NEW j \in 1..k, i < j
       PROVE  sets[order[i]].sum >= sets[order[j]].sum
  <2>1. order[i] \in 1..k /\ order[j] \in 1..k
    BY <1>6
  <2>2. SetLess(sets[order[j]], sets[order[i]]) \/ sets[order[i]] = sets[order[j]]
    BY <1>2, <1>5, <1>10, <2>1
  <2>3. sets[order[i]].sum \in Nat /\ sets[order[j]].sum \in Nat
    BY <2>1 DEF SetsOver
  <2> QED BY <2>2, <2>3, SetLessIs, SMTT(30)
<1> QED BY <1>5, <1>7, <1>9, <1>10

-----------------------------------------------------------------------------
(* Karmarkar and Karp's method: the states *)

\* A set knows the tokens of its rows and holds none of them twice.
GoodSet(lens, n, a) ==
  /\ a \in SetsOver(n)
  /\ \A p, q \in 1..Len(a.items) : a.items[p] = a.items[q] => p = q
  /\ a.sum = Weight(lens, Members(a.items))

\* k sets without common rows, none more than d tokens ahead of another.  With
\* equal sizes they hold equally many rows, otherwise one of them is empty only
\* if none holds more than one row.
Fair(lens, n, k, d, eq, sets) ==
  /\ sets \in [1..k -> SetsOver(n)]
  /\ \A i \in 1..k : GoodSet(lens, n, sets[i])
  /\ \A i, j \in 1..k : i # j => Members(sets[i].items) \cap Members(sets[j].items) = {}
  /\ \A i, j \in 1..k : sets[i].sum <= sets[j].sum + d
  /\ \E i \in 1..k : Len(sets[i].items) > 0
  /\ eq => \A i, j \in 1..k : Len(sets[i].items) = Len(sets[j].items)
  /\ ~eq => \A i, j \in 1..k : Len(sets[i].items) = 0 => Len(sets[j].items) <= 1

GoodState(lens, n, k, d, eq, st) ==
  /\ Fair(lens, n, k, d, eq, st)
  /\ \A i, j \in 1..k : i < j => st[i].sum >= st[j].sum

RowsOf(k, sets) == UNION {Members(sets[i].items) : i \in 1..k}

LEMMA RowsOfMember == \A k, sets, x : x \in RowsOf(k, sets) <=> \E i \in 1..k : x \in Members(sets[i].items)
BY DEF RowsOf

LEMMA MembersIs ==
  ASSUME NEW n \in Nat, NEW f \in Seq(1..n)
  PROVE  /\ Members(f) \subseteq 1..n
         /\ \A x : x \in Members(f) <=> \E p \in 1..Len(f) : f[p] = x
         /\ Members(f) = {} <=> Len(f) = 0
<1>1. DOMAIN f = 1..Len(f) /\ Len(f) \in Nat /\ \A p \in 1..Len(f) : f[p] \in 1..n
  OBVIOUS
<1>2. \A x : x \in Members(f) <=> \E p \in 1..Len(f) : f[p] = x
  BY <1>1 DEF Members
<1>3. Members(f) \subseteq 1..n
  BY <1>1, <1>2
<1>4. ASSUME Len(f) # 0 PROVE Members(f) # {}
  <2>1. 1 \in 1..Len(f)
    BY <1>1, <1>4
  <2> QED BY <1>2, <2>1
<1>5. ASSUME Len(f) = 0 PROVE Members(f) = {}
  <2>1. 1..Len(f) = {}
    BY <1>5
  <2> QED BY <1>2, <2>1
<1> QED BY <1>2, <1>3, <1>4, <1>5

\* A set is empty when it has no tokens.
LEMMA EmptyWhenNoTokens ==
  ASSUME NEW n \in Nat, NEW lens, \A i \in 1..n : lens[i] \in Nat \ {0}, NEW a, GoodSet(lens, n, a)
  PROVE  a.sum \in Nat /\ Len(a.items) \in Nat /\ (a.sum = 0 <=> Len(a.items) = 0)
<1>1. a.sum \in Nat /\ a.items \in Seq(1..n)
  BY DEF GoodSet, SetsOver
<1>2. Len(a.items) \in Nat
  BY <1>1
<1>3. a.sum = Weight(lens, Members(a.items))
  BY DEF GoodSet
<1>4. ASSUME Len(a.items) = 0 PROVE a.sum = 0
  <2>1. Members(a.items) = {}
    BY <1>1, <1>4, MembersIs
  <2> QED BY <1>3, <2>1, WeightNone
<1>5. ASSUME Len(a.items) # 0 PROVE a.sum # 0
  <2>1. Members(a.items) \subseteq 1..n /\ Members(a.items) # {}
    BY <1>1, <1>5, MembersIs
  <2>2. PICK i \in Members(a.items) : TRUE
    BY <2>1
  <2>3. i \in 1..n /\ lens[i] \in Nat \ {0}
    BY <2>1, <2>2
  <2>4. 1 \in 1..lens[i]
    BY <2>3
  <2>5. <<i, 1>> \in RowTokens(lens, Members(a.items))
    BY <2>2, <2>4, RowTokensMember
  <2>6. IsFiniteSet(RowTokens(lens, Members(a.items)))
    <3>1. \A j \in 1..n : lens[j] \in Nat
      OBVIOUS
    <3> QED BY <2>1, <3>1, RowTokensFinite
  <2>7. Cardinality(RowTokens(lens, Members(a.items))) # 0
    BY <2>5, <2>6, FS_EmptySet
  <2> QED BY <1>3, <2>7 DEF Weight
<1> QED BY <1>1, <1>2, <1>4, <1>5

LEMMA DecreasingGood ==
  ASSUME NEW n \in Nat, NEW k \in Nat, NEW lens, NEW d \in Nat, NEW eq \in BOOLEAN,
         NEW sets, Fair(lens, n, k, d, eq, sets)
  PROVE  /\ GoodState(lens, n, k, d, eq, Decreasing(sets))
         /\ RowsOf(k, Decreasing(sets)) = RowsOf(k, sets)
<1>1. sets \in [1..k -> SetsOver(n)]
  BY DEF Fair
<1>2. PICK order : /\ Lists(order, k, 1..k)
                   /\ Decreasing(sets) = [m \in 1..k |-> sets[order[m]]]
                   /\ \A i, j \in 1..k : i < j => sets[order[i]].sum >= sets[order[j]].sum
  BY <1>1, DecreasingIs
<1> DEFINE st == Decreasing(sets)
<1>3. \A m \in 1..k : order[m] \in 1..k /\ st[m] = sets[order[m]]
  BY <1>2 DEF Lists
<1>4. st = [m \in 1..k |-> st[m]]
  BY <1>2
<1>5. /\ \A i, j \in 1..k : order[i] = order[j] => i = j
      /\ \A x \in 1..k : \E i \in 1..k : order[i] = x
  BY <1>2 DEF Lists
<1>6. \A i, j \in 1..k : i < j => st[i].sum >= st[j].sum
  BY <1>2, <1>3
<1> HIDE DEF st
<1>7. Fair(lens, n, k, d, eq, st)
  <2>1. st \in [1..k -> SetsOver(n)]
    BY <1>1, <1>3, <1>4
  <2>2. \A i \in 1..k : GoodSet(lens, n, st[i])
    BY <1>3 DEF Fair
  <2>3. ASSUME NEW i \in 1..k, NEW j \in 1..k, i # j
        PROVE  Members(st[i].items) \cap Members(st[j].items) = {}
    <3>1. order[i] # order[j] /\ order[i] \in 1..k /\ order[j] \in 1..k
      BY <1>3, <1>5, <2>3
    <3>2. Members(sets[order[i]].items) \cap Members(sets[order[j]].items) = {}
      BY <3>1 DEF Fair
    <3> QED BY <1>3, <3>2
  <2>4. \A i, j \in 1..k : st[i].sum <= st[j].sum + d
    BY <1>3, SMTT(30) DEF Fair
  <2>5. \E i \in 1..k : Len(st[i].items) > 0
    <3>1. PICK x \in 1..k : Len(sets[x].items) > 0
      BY DEF Fair
    <3>2. PICK i \in 1..k : order[i] = x
      BY <1>5
    <3> QED BY <1>3, <3>1, <3>2
  <2>6. eq => \A i, j \in 1..k : Len(st[i].items) = Len(st[j].items)
    BY <1>3, SMTT(30) DEF Fair
  <2>7. ~eq => \A i, j \in 1..k : Len(st[i].items) = 0 => Len(st[j].items) <= 1
    BY <1>3, SMTT(30) DEF Fair
  <2> QED BY <2>1, <2>2, <2>3, <2>4, <2>5, <2>6, <2>7 DEF Fair
<1>8. RowsOf(k, st) = RowsOf(k, sets)
  <2>1. ASSUME NEW x PROVE x \in RowsOf(k, st) <=> x \in RowsOf(k, sets)
    <3>1. x \in RowsOf(k, st) <=> \E i \in 1..k : x \in Members(sets[order[i]].items)
      BY <1>3, RowsOfMember
    <3>2. x \in RowsOf(k, sets) <=> \E i \in 1..k : x \in Members(sets[i].items)
      BY RowsOfMember
    <3> QED BY <1>3, <1>5, <3>1, <3>2
  <2> QED BY <2>1
<1> QED BY <1>6, <1>7, <1>8 DEF GoodState, st

\* The sets that merging two states puts together: the largest of one with the
\* smallest of the other.
Joined(s, t, k) == [i \in 1..k |-> [sum |-> s[i].sum + t[k + 1 - i].sum,
                                    items |-> s[i].items \o t[k + 1 - i].items]]

LEMMA MergedIs ==
  ASSUME NEW n \in Nat, NEW k \in Nat, NEW s \in [1..k -> SetsOver(n)], NEW t
  PROVE  Merged(s, t) = Decreasing(Joined(s, t, k))
<1>1. s \in Seq(SetsOver(n)) /\ Len(s) = k
  OBVIOUS
<1> QED BY <1>1 DEF Merged, Joined

LEMMA ItemsJoin ==
  ASSUME NEW n \in Nat, NEW a \in Seq(1..n), NEW b \in Seq(1..n)
  PROVE  /\ a \o b \in Seq(1..n) /\ Len(a \o b) = Len(a) + Len(b)
         /\ Len(a) \in Nat /\ Len(b) \in Nat
         /\ \A p \in 1..Len(a) : (a \o b)[p] = a[p]
         /\ \A p \in 1..Len(b) : (a \o b)[Len(a) + p] = b[p]
         /\ Members(a \o b) = Members(a) \cup Members(b)
<1>1. a \o b \in Seq(1..n) /\ Len(a \o b) = Len(a) + Len(b) /\ Len(a) \in Nat /\ Len(b) \in Nat
  OBVIOUS
<1>2. \A p \in 1..Len(a) : (a \o b)[p] = a[p]
  OBVIOUS
<1>3. \A p \in 1..Len(b) : (a \o b)[Len(a) + p] = b[p]
  OBVIOUS
<1> DEFINE c == a \o b
<1>4. /\ \A x : x \in Members(a) <=> \E p \in 1..Len(a) : a[p] = x
      /\ \A x : x \in Members(b) <=> \E p \in 1..Len(b) : b[p] = x
      /\ \A x : x \in Members(c) <=> \E p \in 1..Len(c) : c[p] = x
  BY <1>1, MembersIs
<1> HIDE DEF c
<1>5. \A x : x \in Members(c) <=> x \in Members(a) \/ x \in Members(b)
  <2> TAKE x
  <2>1. ASSUME NEW p \in 1..Len(c), c[p] = x PROVE x \in Members(a) \/ x \in Members(b)
    <3>1. CASE p <= Len(a)
      BY <1>1, <1>2, <1>4, <2>1, <3>1 DEF c
    <3>2. CASE p > Len(a)
      <4>1. p - Len(a) \in 1..Len(b) /\ Len(a) + (p - Len(a)) = p
        BY <1>1, <3>2 DEF c
      <4>2. c[p] = b[p - Len(a)]
        BY <1>3, <4>1 DEF c
      <4> QED BY <1>4, <2>1, <4>1, <4>2
    <3> QED BY <1>1, <3>1, <3>2 DEF c
  <2>2. ASSUME NEW p \in 1..Len(a), a[p] = x PROVE x \in Members(c)
    <3>1. p \in 1..Len(c) /\ c[p] = x
      BY <1>1, <1>2, <2>2 DEF c
    <3> QED BY <1>4, <3>1
  <2>3. ASSUME NEW p \in 1..Len(b), b[p] = x PROVE x \in Members(c)
    <3>1. Len(a) + p \in 1..Len(c) /\ c[Len(a) + p] = x
      BY <1>1, <1>3, <2>3 DEF c
    <3> QED BY <1>4, <3>1
  <2> QED BY <1>4, <2>1, <2>2, <2>3
<1>6. Members(c) = Members(a) \cup Members(b)
  BY <1>5
<1> QED BY <1>1, <1>2, <1>3, <1>6 DEF c

\* Two good sets without common rows join to a good one.
LEMMA JoinedSet ==
  ASSUME NEW n \in Nat, NEW lens, \A i \in 1..n : lens[i] \in Nat,
         NEW a, NEW b, GoodSet(lens, n, a), GoodSet(lens, n, b),
         Members(a.items) \cap Members(b.items) = {}
  PROVE  GoodSet(lens, n, [sum |-> a.sum + b.sum, items |-> a.items \o b.items])
<1>1. a.sum \in Nat /\ b.sum \in Nat /\ a.items \in Seq(1..n) /\ b.items \in Seq(1..n)
  BY DEF GoodSet, SetsOver
<1> DEFINE x == a.items
           y == b.items
           c == x \o y
<1> HIDE DEF x, y
<1>2. /\ c \in Seq(1..n) /\ Len(c) = Len(x) + Len(y) /\ Len(x) \in Nat /\ Len(y) \in Nat
      /\ \A p \in 1..Len(x) : c[p] = x[p]
      /\ \A p \in 1..Len(y) : c[Len(x) + p] = y[p]
      /\ Members(c) = Members(x) \cup Members(y)
  <2>1. x \in Seq(1..n) /\ y \in Seq(1..n)
    BY <1>1 DEF x, y
  <2> QED BY <2>1, ItemsJoin
<1> HIDE DEF c
<1>3. /\ \A p \in 1..Len(x) : x[p] \in Members(x)
      /\ \A p \in 1..Len(y) : y[p] \in Members(y)
  BY <1>1, MembersIs DEF x, y
<1>4. /\ \A p, q \in 1..Len(x) : x[p] = x[q] => p = q
      /\ \A p, q \in 1..Len(y) : y[p] = y[q] => p = q
      /\ Members(x) \cap Members(y) = {}
  BY DEF GoodSet, x, y
<1>5. ASSUME NEW p \in 1..Len(c), NEW q \in 1..Len(c), c[p] = c[q] PROVE p = q
  <2>1. ASSUME NEW r \in 1..Len(c), ~(r <= Len(x))
        PROVE  r - Len(x) \in 1..Len(y) /\ c[r] = y[r - Len(x)]
    <3>1. r - Len(x) \in 1..Len(y) /\ Len(x) + (r - Len(x)) = r
      BY <1>2, <2>1
    <3> QED BY <1>2, <3>1
  <2>2. ASSUME NEW r \in 1..Len(c), r <= Len(x) PROVE r \in 1..Len(x) /\ c[r] = x[r]
    BY <1>2, <2>2
  <2>3. CASE p <= Len(x) /\ q <= Len(x)
    BY <1>4, <1>5, <2>2, <2>3
  <2>4. CASE p <= Len(x) /\ ~(q <= Len(x))
    <3>1. c[p] \in Members(x) /\ c[q] \in Members(y)
      BY <1>3, <2>1, <2>2, <2>4
    <3> QED BY <1>4, <1>5, <3>1
  <2>5. CASE ~(p <= Len(x)) /\ q <= Len(x)
    <3>1. c[q] \in Members(x) /\ c[p] \in Members(y)
      BY <1>3, <2>1, <2>2, <2>5
    <3> QED BY <1>4, <1>5, <3>1
  <2>6. CASE ~(p <= Len(x)) /\ ~(q <= Len(x))
    <3>1. /\ p - Len(x) \in 1..Len(y) /\ c[p] = y[p - Len(x)]
          /\ q - Len(x) \in 1..Len(y) /\ c[q] = y[q - Len(x)]
      BY <2>1, <2>6
    <3>2. p - Len(x) = q - Len(x)
      BY <1>4, <1>5, <3>1
    <3> QED BY <1>2, <3>2
  <2> QED BY <2>3, <2>4, <2>5, <2>6
<1>6. a.sum + b.sum = Weight(lens, Members(c))
  <2>1. a.sum = Weight(lens, Members(x)) /\ b.sum = Weight(lens, Members(y))
    BY DEF GoodSet, x, y
  <2>2. Members(x) \subseteq 1..n /\ Members(y) \subseteq 1..n
    BY <1>1, MembersIs DEF x, y
  <2>3. IsFiniteSet(RowTokens(lens, Members(x))) /\ IsFiniteSet(RowTokens(lens, Members(y)))
    BY <2>2, RowTokensFinite
  <2>4. Weight(lens, Members(x) \cup Members(y)) = Weight(lens, Members(x)) + Weight(lens, Members(y))
    BY <1>4, <2>3, WeightUnion
  <2> QED BY <1>2, <2>1, <2>4
<1> DEFINE e == [sum |-> a.sum + b.sum, items |-> c]
<1>7. e \in SetsOver(n) /\ e.sum = a.sum + b.sum /\ e.items = c
  BY <1>1, <1>2 DEF SetsOver
<1> HIDE DEF e
<1>8. GoodSet(lens, n, e)
  BY <1>5, <1>6, <1>7 DEF GoodSet
<1> QED BY <1>8 DEF e, c, x, y

LEMMA MergedGood ==
  ASSUME NEW n \in Nat, NEW k \in Nat, NEW lens, \A i \in 1..n : lens[i] \in Nat \ {0},
         NEW d \in Nat, NEW eq \in BOOLEAN,
         NEW s, GoodState(lens, n, k, d, eq, s), NEW t, GoodState(lens, n, k, d, eq, t),
         RowsOf(k, s) \cap RowsOf(k, t) = {}
  PROVE  /\ GoodState(lens, n, k, d, eq, Merged(s, t))
         /\ RowsOf(k, Merged(s, t)) = RowsOf(k, s) \cup RowsOf(k, t)
<1>1. Fair(lens, n, k, d, eq, s) /\ Fair(lens, n, k, d, eq, t)
  BY DEF GoodState
<1>2. s \in [1..k -> SetsOver(n)] /\ t \in [1..k -> SetsOver(n)]
  BY <1>1 DEF Fair
<1> DEFINE u == Joined(s, t, k)
           o(i) == k + 1 - i
<1>3. /\ \A i \in 1..k : o(i) \in 1..k /\ o(o(i)) = i
      /\ \A i, j \in 1..k : i < j => o(j) < o(i)
      /\ \A i, j \in 1..k : i # j => o(i) # o(j)
  OBVIOUS
<1>4. /\ u = [i \in 1..k |-> u[i]]
      /\ \A i \in 1..k : u[i] = [sum |-> s[i].sum + t[o(i)].sum, items |-> s[i].items \o t[o(i)].items]
  BY DEF Joined
<1>40. \A i \in 1..k : u[i].sum = s[i].sum + t[o(i)].sum /\ u[i].items = s[i].items \o t[o(i)].items
  BY DEF Joined
<1> HIDE DEF u, o
<1>5. /\ \A i \in 1..k : GoodSet(lens, n, s[i])
      /\ \A i \in 1..k : GoodSet(lens, n, t[i])
  BY <1>1 DEF Fair
<1>6. /\ \A i \in 1..k : s[i].sum \in Nat /\ Len(s[i].items) \in Nat /\ (s[i].sum = 0 <=> Len(s[i].items) = 0)
      /\ \A i \in 1..k : t[i].sum \in Nat /\ Len(t[i].items) \in Nat /\ (t[i].sum = 0 <=> Len(t[i].items) = 0)
  <2>1. \A a : GoodSet(lens, n, a) => a.sum \in Nat /\ Len(a.items) \in Nat /\ (a.sum = 0 <=> Len(a.items) = 0)
    BY EmptyWhenNoTokens
  <2> QED BY <1>5, <2>1
<1>7. \A i, j \in 1..k : Members(s[i].items) \cap Members(t[j].items) = {}
  BY RowsOfMember
<1>8. \A i \in 1..k : GoodSet(lens, n, u[i])
  <2> TAKE i \in 1..k
  <2>1. \A j \in 1..n : lens[j] \in Nat
    OBVIOUS
  <2>2. /\ GoodSet(lens, n, s[i]) /\ GoodSet(lens, n, t[o(i)])
        /\ Members(s[i].items) \cap Members(t[o(i)].items) = {}
    BY <1>3, <1>5, <1>7
  <2>3. GoodSet(lens, n, [sum |-> s[i].sum + t[o(i)].sum, items |-> s[i].items \o t[o(i)].items])
    BY <2>1, <2>2, JoinedSet
  <2> QED BY <1>4, <2>3
<1>9. \A i \in 1..k : /\ u[i].sum = s[i].sum + t[o(i)].sum
                      /\ Len(u[i].items) = Len(s[i].items) + Len(t[o(i)].items)
                      /\ Members(u[i].items) = Members(s[i].items) \cup Members(t[o(i)].items)
  <2> TAKE i \in 1..k
  <2>1. s[i].items \in Seq(1..n) /\ t[o(i)].items \in Seq(1..n)
    BY <1>2, <1>3 DEF SetsOver
  <2>2. u[i].sum = s[i].sum + t[o(i)].sum /\ u[i].items = s[i].items \o t[o(i)].items
    BY <1>40
  <2> DEFINE a == s[i].items
             b == t[o(i)].items
  <2> HIDE DEF a, b
  <2>3. Len(a \o b) = Len(a) + Len(b) /\ Members(a \o b) = Members(a) \cup Members(b)
    <3>1. a \in Seq(1..n) /\ b \in Seq(1..n)
      BY <2>1 DEF a, b
    <3> QED BY <3>1, ItemsJoin
  <2> QED BY <2>2, <2>3 DEF a, b
<1>10. /\ \A i, j \in 1..k : i < j => s[i].sum >= s[j].sum
       /\ \A i, j \in 1..k : i < j => t[i].sum >= t[j].sum
  BY DEF GoodState
<1>11. \A i, j \in 1..k : u[i].sum <= u[j].sum + d
  <2> SUFFICES ASSUME NEW i \in 1..k, NEW j \in 1..k
               PROVE  s[i].sum + t[o(i)].sum <= s[j].sum + t[o(j)].sum + d
    BY <1>9
  <2>1. /\ s[i].sum \in Nat /\ s[j].sum \in Nat /\ t[o(i)].sum \in Nat /\ t[o(j)].sum \in Nat
        /\ o(i) \in 1..k /\ o(j) \in 1..k
    BY <1>3, <1>6
  <2>2. s[i].sum <= s[j].sum + d /\ t[o(i)].sum <= t[o(j)].sum + d
    BY <1>1, <2>1 DEF Fair
  <2>3. CASE i = j
    BY <2>1, <2>3
  <2>4. CASE i < j
    <3>1. t[o(i)].sum <= t[o(j)].sum
      BY <1>3, <1>10, <2>1, <2>4
    <3> QED BY <2>1, <2>2, <3>1
  <2>5. CASE j < i
    <3>1. s[i].sum <= s[j].sum
      BY <1>10, <2>1, <2>5
    <3> QED BY <2>1, <2>2, <3>1
  <2> QED BY <2>3, <2>4, <2>5
<1>12. \A i, j \in 1..k : i # j => Members(u[i].items) \cap Members(u[j].items) = {}
  <2> SUFFICES ASSUME NEW i \in 1..k, NEW j \in 1..k, i # j
               PROVE  Members(u[i].items) \cap Members(u[j].items) = {}
    OBVIOUS
  <2>1. Members(s[i].items) \cap Members(s[j].items) = {}
    BY <1>1 DEF Fair
  <2>2. Members(t[o(i)].items) \cap Members(t[o(j)].items) = {}
    <3>1. o(i) # o(j) /\ o(i) \in 1..k /\ o(j) \in 1..k
      BY <1>3
    <3> QED BY <1>1, <3>1 DEF Fair
  <2>3. /\ Members(s[i].items) \cap Members(t[o(j)].items) = {}
        /\ Members(s[j].items) \cap Members(t[o(i)].items) = {}
    BY <1>3, <1>7
  <2> QED BY <1>9, <2>1, <2>2, <2>3
<1>13. \E i \in 1..k : Len(u[i].items) > 0
  <2>1. PICK i \in 1..k : Len(s[i].items) > 0
    BY <1>1 DEF Fair
  <2>3. Len(s[i].items) \in Nat /\ Len(t[o(i)].items) \in Nat
    BY <1>3, <1>6
  <2>4. Len(u[i].items) = Len(s[i].items) + Len(t[o(i)].items)
    BY <1>9
  <2>2. Len(u[i].items) > 0
    <3> DEFINE a == Len(s[i].items)
               b == Len(t[o(i)].items)
               c == Len(u[i].items)
    <3>1. a \in Nat /\ b \in Nat /\ c = a + b /\ a > 0
      BY <2>1, <2>3, <2>4
    <3> HIDE DEF a, b, c
    <3>2. c > 0
      BY <3>1
    <3> QED BY <3>2 DEF c
  <2> QED BY <2>2
<1>14. ASSUME eq, NEW i \in 1..k, NEW j \in 1..k PROVE Len(u[i].items) = Len(u[j].items)
  <2>1. Len(s[i].items) = Len(s[j].items)
    BY <1>1, <1>14 DEF Fair
  <2>2. Len(t[o(i)].items) = Len(t[o(j)].items)
    <3>1. o(i) \in 1..k /\ o(j) \in 1..k
      BY <1>3
    <3> QED BY <1>1, <1>14, <3>1 DEF Fair
  <2> QED BY <1>9, <2>1, <2>2
<1>15. ASSUME ~eq, NEW i \in 1..k, NEW j \in 1..k, Len(u[i].items) = 0 PROVE Len(u[j].items) <= 1
  <2>1. o(i) \in 1..k /\ o(j) \in 1..k
    BY <1>3
  <2>8. /\ Len(s[i].items) \in Nat /\ Len(t[o(i)].items) \in Nat
        /\ Len(s[j].items) \in Nat /\ Len(t[o(j)].items) \in Nat
    BY <1>6, <2>1
  <2>9. /\ Len(u[i].items) = Len(s[i].items) + Len(t[o(i)].items)
        /\ Len(u[j].items) = Len(s[j].items) + Len(t[o(j)].items)
    BY <1>9
  <2>2. Len(s[i].items) = 0 /\ Len(t[o(i)].items) = 0
    <3> DEFINE a == Len(s[i].items)
               b == Len(t[o(i)].items)
               c == Len(u[i].items)
    <3>1. a \in Nat /\ b \in Nat /\ c = a + b /\ c = 0
      BY <1>15, <2>8, <2>9
    <3> HIDE DEF a, b, c
    <3>2. a = 0 /\ b = 0
      BY <3>1
    <3> QED BY <3>2 DEF a, b
  <2>3. Len(s[j].items) <= 1 /\ Len(t[o(j)].items) <= 1
    BY <1>1, <1>15, <2>1, <2>2 DEF Fair
  <2>4. s[i].sum = 0 /\ t[o(i)].sum = 0
    BY <1>6, <2>1, <2>2
  <2>5. CASE i = j
    BY <1>15, <2>5
  <2>6. CASE i < j
    <3>1. s[j].sum = 0
      BY <1>6, <1>10, <2>4, <2>6
    <3>2. Len(s[j].items) = 0
      BY <1>6, <3>1
    <3> QED BY <2>3, <2>8, <2>9, <3>2
  <2>7. CASE j < i
    <3>1. t[o(j)].sum = 0
      BY <1>3, <1>6, <1>10, <2>1, <2>4, <2>7, SMTT(30)
    <3>2. Len(t[o(j)].items) = 0
      BY <1>6, <2>1, <3>1
    <3> QED BY <2>3, <2>8, <2>9, <3>2
  <2> QED BY <2>5, <2>6, <2>7
<1>16. Fair(lens, n, k, d, eq, u)
  <2>1. u \in [1..k -> SetsOver(n)]
    BY <1>4, <1>8 DEF GoodSet
  <2> QED BY <1>8, <1>11, <1>12, <1>13, <1>14, <1>15, <2>1 DEF Fair
<1>17. RowsOf(k, u) = RowsOf(k, s) \cup RowsOf(k, t)
  <2>1. ASSUME NEW x PROVE x \in RowsOf(k, u) <=> x \in RowsOf(k, s) \/ x \in RowsOf(k, t)
    <3>4. \A i \in 1..k : x \in Members(u[i].items) <=>
                            x \in Members(s[i].items) \/ x \in Members(t[o(i)].items)
      BY <1>9
    <3>5. x \in RowsOf(k, u) <=> \E i \in 1..k : x \in Members(u[i].items)
      BY RowsOfMember
    <3>1. x \in RowsOf(k, u) <=>
            \E i \in 1..k : x \in Members(s[i].items) \/ x \in Members(t[o(i)].items)
      BY <3>4, <3>5
    <3>2. /\ x \in RowsOf(k, s) <=> \E i \in 1..k : x \in Members(s[i].items)
          /\ x \in RowsOf(k, t) <=> \E i \in 1..k : x \in Members(t[i].items)
      BY RowsOfMember
    <3>3. (\E i \in 1..k : x \in Members(t[i].items)) <=> \E i \in 1..k : x \in Members(t[o(i)].items)
      BY <1>3
    <3> QED BY <3>1, <3>2, <3>3
  <2> QED BY <2>1
<1>18. Merged(s, t) = Decreasing(u)
  BY <1>2, MergedIs DEF u
<1> QED BY <1>16, <1>17, <1>18, DecreasingGood

-----------------------------------------------------------------------------
(* Karmarkar and Karp's method: the heap *)

\* States without common rows.
GoodHeap(lens, n, k, d, eq, states) ==
  /\ IsFiniteSet(states)
  /\ \A s \in states : GoodState(lens, n, k, d, eq, s)
  /\ \A s, t \in states : s # t => RowsOf(k, s) \cap RowsOf(k, t) = {}

RowsOfHeap(k, states) == UNION {RowsOf(k, s) : s \in states}

LEMMA GoodHeapSubset ==
  ASSUME NEW n, NEW k, NEW lens, NEW d, NEW eq, NEW H, GoodHeap(lens, n, k, d, eq, H), NEW G \in SUBSET H
  PROVE  GoodHeap(lens, n, k, d, eq, G)
<1>1. IsFiniteSet(G)
  BY FS_Subset DEF GoodHeap
<1> QED BY <1>1 DEF GoodHeap

\* A state has rows, and its first set has tokens.
LEMMA StateHasRows ==
  ASSUME NEW n \in Nat, NEW k \in Nat, NEW lens, \A i \in 1..n : lens[i] \in Nat \ {0},
         NEW d \in Nat, NEW eq \in BOOLEAN, NEW s, GoodState(lens, n, k, d, eq, s)
  PROVE  /\ 1 \in 1..k /\ k \in 1..k /\ s \in [1..k -> SetsOver(n)] /\ Len(s) = k
         /\ Len(s[1].items) > 0 /\ RowsOf(k, s) # {}
         /\ \A i \in 1..k : s[i].sum \in Nat /\ Len(s[i].items) \in Nat
<1>1. Fair(lens, n, k, d, eq, s) /\ \A i, j \in 1..k : i < j => s[i].sum >= s[j].sum
  BY DEF GoodState
<1>2. s \in [1..k -> SetsOver(n)] /\ \A i \in 1..k : GoodSet(lens, n, s[i])
  BY <1>1 DEF Fair
<1>3. PICK i \in 1..k : Len(s[i].items) > 0
  BY <1>1 DEF Fair
<1>4. 1 \in 1..k /\ k \in 1..k
  BY <1>3
<1>5. \A j \in 1..k : s[j].sum \in Nat /\ Len(s[j].items) \in Nat /\ (s[j].sum = 0 <=> Len(s[j].items) = 0)
  BY <1>2, EmptyWhenNoTokens
<1>6. s[1].sum # 0
  <2>1. s[i].sum \in Nat /\ s[i].sum # 0 /\ s[1].sum \in Nat
    BY <1>3, <1>4, <1>5
  <2>2. CASE i = 1
    BY <2>1, <2>2
  <2>3. CASE 1 < i
    <3>1. s[1].sum >= s[i].sum
      BY <1>1, <1>4, <2>3
    <3> QED BY <2>1, <3>1
  <2> QED BY <2>2, <2>3
<1>7. Len(s[1].items) # 0 /\ Len(s[1].items) \in Nat
  BY <1>4, <1>5, <1>6
<1>8. RowsOf(k, s) # {}
  <2>1. s[1].items \in Seq(1..n)
    BY <1>2, <1>4 DEF SetsOver
  <2>2. Members(s[1].items) # {}
    BY <1>7, <2>1, MembersIs
  <2>3. PICK x : x \in Members(s[1].items)
    BY <2>2
  <2> QED BY <1>4, <2>3, RowsOfMember
<1>9. Len(s) = k
  BY <1>2
<1> QED BY <1>2, <1>4, <1>5, <1>7, <1>8, <1>9

\* The heap hands out one of its states.
LEMMA PoppedIs ==
  ASSUME NEW n \in Nat, NEW k \in Nat, NEW lens, \A i \in 1..n : lens[i] \in Nat \ {0},
         NEW d \in Nat, NEW eq \in BOOLEAN, NEW H, GoodHeap(lens, n, k, d, eq, H), H # {}
  PROVE  Popped(H) \in H
<1> DEFINE R == {st \in H \X H : Before(st[1], st[2])}
<1>1. \A s, t \in H : <<s, t>> \in R <=> Before(s, t)
  OBVIOUS
<1> HIDE DEF R
<1>2. \A s \in H : /\ 1 \in 1..k /\ s \in [1..k -> SetsOver(n)] /\ s[1] \in SetsOver(n)
                   /\ Len(s[1].items) > 0 /\ Spread(s) \in Int
  <2> TAKE s \in H
  <2>1. GoodState(lens, n, k, d, eq, s)
    BY DEF GoodHeap
  <2>2. /\ 1 \in 1..k /\ k \in 1..k /\ s \in [1..k -> SetsOver(n)] /\ Len(s) = k
        /\ Len(s[1].items) > 0 /\ \A i \in 1..k : s[i].sum \in Nat
    BY <2>1, StateHasRows
  <2>3. Spread(s) = s[1].sum - s[k].sum
    BY <2>2 DEF Spread
  <2>4. s[1].sum \in Nat /\ s[k].sum \in Nat
    BY <2>2
  <2>5. Spread(s) \in Int
    BY <2>3, <2>4
  <2>6. s[1] \in SetsOver(n)
    BY <2>2
  <2> QED BY <2>2, <2>5, <2>6
<1>3. \A s, t \in H : s # t => s[1] # t[1]
  <2> SUFFICES ASSUME NEW s \in H, NEW t \in H, s # t, s[1] = t[1] PROVE FALSE
    OBVIOUS
  <2>1. RowsOf(k, s) \cap RowsOf(k, t) = {}
    BY DEF GoodHeap
  <2>6. s[1] \in SetsOver(n) /\ Len(s[1].items) > 0
    BY <1>2
  <2>7. s[1].items \in Seq(1..n)
    BY <2>6 DEF SetsOver
  <2>2. s[1].items \in Seq(1..n) /\ Len(s[1].items) # 0
    BY <2>6, <2>7
  <2>3. Members(s[1].items) # {}
    BY <2>2, MembersIs
  <2>4. PICK x : x \in Members(s[1].items)
    BY <2>3
  <2>5. x \in RowsOf(k, s) /\ x \in RowsOf(k, t)
    BY <1>2, <2>4, RowsOfMember
  <2> QED BY <2>1, <2>5
<1>4. \A s, t \in H : Before(s, t) <=>
        Spread(s) > Spread(t) \/ (Spread(s) = Spread(t) /\ SetLess(t[1], s[1]))
  BY DEF Before
<1>5. /\ \A s \in H : ~SetLess(s[1], s[1])
      /\ \A s, t, u \in H : SetLess(u[1], t[1]) /\ SetLess(t[1], s[1]) => SetLess(u[1], s[1])
      /\ \A s, t \in H : s # t => SetLess(s[1], t[1]) \/ SetLess(t[1], s[1])
  <2>1. \A a, b, c \in SetsOver(n) : /\ ~SetLess(a, a)
                                     /\ SetLess(a, b) /\ SetLess(b, c) => SetLess(a, c)
                                     /\ a # b => SetLess(a, b) \/ SetLess(b, a)
    BY SetOrder
  <2> QED BY <1>2, <1>3, <2>1
<1>6. StrictOrder(R, H)
  <2>1. \A s \in H : <<s, s>> \notin R
    BY <1>1, <1>2, <1>4, <1>5
  <2>2. \A s, t, u \in H : <<s, t>> \in R /\ <<t, u>> \in R => <<s, u>> \in R
    BY <1>1, <1>2, <1>4, <1>5
  <2>3. \A s, t \in H : s # t => <<s, t>> \in R \/ <<t, s>> \in R
    BY <1>1, <1>2, <1>4, <1>5
  <2> QED BY <2>1, <2>2, <2>3 DEF StrictOrder
<1>7. IsFiniteSet(H)
  BY DEF GoodHeap
<1> DEFINE f == InOrder(H, R)
           m == Cardinality(H)
<1>8. m \in Nat /\ m # 0
  BY <1>7, FS_CardinalityType, FS_EmptySet
<1>9. Lists(f, m, H) /\ \A a, b \in 1..m : a < b => <<f[a], f[b]>> \in R
  BY <1>6, <1>7, InOrderLists
<1> HIDE DEF f, m
<1>10. f[1] \in H /\ \A t \in H \ {f[1]} : Before(f[1], t)
  <2>1. 1 \in 1..m /\ f[1] \in H
    BY <1>8, <1>9 DEF Lists
  <2>2. ASSUME NEW t \in H, t # f[1] PROVE Before(f[1], t)
    <3>1. PICK i \in 1..m : f[i] = t
      BY <1>9 DEF Lists
    <3>2. 1 < i
      BY <2>2, <3>1
    <3>3. <<f[1], t>> \in R
      BY <1>9, <2>1, <3>1, <3>2
    <3> QED BY <1>1, <2>1, <3>3
  <2> QED BY <2>1, <2>2
<1> QED BY <1>10 DEF Popped

\* A heap of c states with the given rows.
HeapOf(lens, n, k, d, eq, rows, c, H) ==
  GoodHeap(lens, n, k, d, eq, H) /\ RowsOfHeap(k, H) = rows /\ Cardinality(H) = c

Lengths(lens, n) == \A i \in 1..n : lens[i] \in Nat \ {0}

\* A round merges two states of the heap.
LEMMA MergeTwoGood ==
  ASSUME NEW n \in Nat, NEW k \in Nat, NEW lens, Lengths(lens, n), NEW d \in Nat, NEW eq \in BOOLEAN,
         NEW rows, NEW c \in Nat, c > 1, NEW H, HeapOf(lens, n, k, d, eq, rows, c, H)
  PROVE  HeapOf(lens, n, k, d, eq, rows, c - 1, MergeTwo(H))
<1>0. /\ \A i \in 1..n : lens[i] \in Nat \ {0}
      /\ GoodHeap(lens, n, k, d, eq, H) /\ Cardinality(H) > 1
      /\ RowsOfHeap(k, H) = rows /\ Cardinality(H) = c
  BY DEF HeapOf, Lengths
<1> DEFINE s == Popped(H)
           t == Popped(H \ {s})
           u == Merged(s, t)
           rest == H \ {s, t}
<1>1. IsFiniteSet(H) /\ Cardinality(H) \in Nat
  BY <1>0, FS_CardinalityType DEF GoodHeap
<1>2. s \in H
  <2>1. H # {}
    BY <1>0, <1>1, FS_EmptySet
  <2> QED BY <1>0, <2>1, PoppedIs
<1> HIDE DEF s
<1>3. IsFiniteSet(H \ {s}) /\ Cardinality(H \ {s}) = Cardinality(H) - 1
  BY <1>1, <1>2, FS_RemoveElement
<1>4. t \in H \ {s}
  <2>1. H \ {s} # {}
    BY <1>0, <1>1, <1>3, FS_EmptySet
  <2>2. GoodHeap(lens, n, k, d, eq, H \ {s})
    BY <1>0, GoodHeapSubset
  <2>3. \A G : GoodHeap(lens, n, k, d, eq, G) /\ G # {} => Popped(G) \in G
    BY <1>0, PoppedIs
  <2> QED BY <2>1, <2>2, <2>3
<1> HIDE DEF t
<1>5. IsFiniteSet(rest) /\ Cardinality(rest) = Cardinality(H) - 2
  <2>1. rest = (H \ {s}) \ {t}
    OBVIOUS
  <2>2. IsFiniteSet((H \ {s}) \ {t}) /\ Cardinality((H \ {s}) \ {t}) = Cardinality(H \ {s}) - 1
    BY <1>3, <1>4, FS_RemoveElement
  <2>3. Cardinality(rest) = (Cardinality(H) - 1) - 1
    BY <1>3, <2>1, <2>2
  <2>4. \A m \in Nat : (m - 1) - 1 = m - 2
    OBVIOUS
  <2> QED BY <1>1, <2>1, <2>2, <2>3, <2>4
<1>6. /\ GoodState(lens, n, k, d, eq, s) /\ GoodState(lens, n, k, d, eq, t)
      /\ RowsOf(k, s) \cap RowsOf(k, t) = {}
  BY <1>0, <1>2, <1>4 DEF GoodHeap
<1>7. GoodState(lens, n, k, d, eq, u) /\ RowsOf(k, u) = RowsOf(k, s) \cup RowsOf(k, t)
  BY <1>0, <1>6, MergedGood
<1>8. RowsOf(k, s) # {}
  <2>1. GoodState(lens, n, k, d, eq, s)
    BY <1>6
  <2>2. \A v : GoodState(lens, n, k, d, eq, v) => RowsOf(k, v) # {}
    BY <1>0, StateHasRows
  <2> QED BY <2>1, <2>2
<1> HIDE DEF u
<1>9. \A v \in rest : v \in H /\ RowsOf(k, v) \cap RowsOf(k, u) = {}
  BY <1>0, <1>2, <1>4, <1>7 DEF GoodHeap
<1>10. u \notin rest
  BY <1>7, <1>8, <1>9
<1> DEFINE H2 == rest \cup {u}
<1>11. MergeTwo(H) = H2
  BY DEF MergeTwo, s, t, u
<1> HIDE DEF rest
<1>12. IsFiniteSet(H2) /\ Cardinality(H2) = Cardinality(H) - 1
  <2>1. IsFiniteSet(H2) /\ Cardinality(H2) = Cardinality(rest) + 1
    BY <1>5, <1>10, FS_AddElement
  <2> QED BY <1>1, <1>5, <2>1
<1>13. GoodHeap(lens, n, k, d, eq, H2)
  <2>1. \A v \in H2 : GoodState(lens, n, k, d, eq, v)
    BY <1>0, <1>7, <1>9 DEF GoodHeap
  <2>2. ASSUME NEW v \in H2, NEW w \in H2, v # w PROVE RowsOf(k, v) \cap RowsOf(k, w) = {}
    <3>1. CASE v = u
      BY <1>9, <2>2, <3>1
    <3>2. CASE w = u
      BY <1>9, <2>2, <3>2
    <3>3. CASE v # u /\ w # u
      BY <1>0, <1>9, <2>2, <3>3 DEF GoodHeap
    <3> QED BY <3>1, <3>2, <3>3
  <2> QED BY <1>12, <2>1, <2>2 DEF GoodHeap
<1>14. RowsOfHeap(k, H2) = RowsOfHeap(k, H)
  <2>1. ASSUME NEW x PROVE x \in RowsOfHeap(k, H2) <=> x \in RowsOfHeap(k, H)
    <3>1. /\ x \in RowsOfHeap(k, H2) <=> \E v \in H2 : x \in RowsOf(k, v)
          /\ x \in RowsOfHeap(k, H) <=> \E v \in H : x \in RowsOf(k, v)
      BY DEF RowsOfHeap
    <3>2. \A v : v \in H <=> v \in rest \/ v = s \/ v = t
      BY <1>2, <1>4 DEF rest
    <3> QED BY <1>7, <3>1, <3>2
  <2> QED BY <2>1
<1> QED BY <1>0, <1>11, <1>12, <1>13, <1>14 DEF HeapOf

-----------------------------------------------------------------------------
(* Positions in blocks of equal size *)

LEMMA BlockEnds ==
  ASSUME NEW size \in Nat, NEW g \in Nat, NEW h \in Nat, g < h
  PROVE  g * size + size <= h * size /\ g * size \in Nat /\ h * size \in Nat
<1> DEFINE e == h - g - 1
           rest == e * size
           a == g * size
<1>1. e \in Nat /\ h = g + 1 + e
  OBVIOUS
<1> HIDE DEF e
<1>2. rest \in Nat /\ a \in Nat
  BY <1>1
<1>3. h * size = a + size + rest
  <2>1. (g + 1 + e) * size = g * size + 1 * size + e * size
    BY <1>1
  <2> QED BY <1>1, <2>1
<1> HIDE DEF rest
<1>4. a + size <= h * size /\ h * size \in Nat
  <2> HIDE DEF a
  <2> QED BY <1>2, <1>3
<1> QED BY <1>2, <1>4

\* The positions 1..n are those of m blocks.
InBlocks(size, m, n) ==
  /\ \A g \in 0..(m - 1), i \in 1..size : g * size + i \in 1..n /\ g * size \in Nat
  /\ \A g, h \in 0..(m - 1) : \A i, j \in 1..size : g * size + i = h * size + j => g = h /\ i = j
  /\ \A r \in 1..n : \E g \in 0..(m - 1) : \E i \in 1..size : r = g * size + i

LEMMA Blocks ==
  ASSUME NEW size \in Nat \ {0}, NEW m \in Nat
  PROVE  InBlocks(size, m, m * size)
<1>1. m * size \in Nat /\ \A g \in Nat : g * size \in Nat
  OBVIOUS
<1>2. \A g \in Nat : (g + 1) * size = g * size + size
  OBVIOUS
<1> DEFINE s(g) == g * size
<1>3. /\ \A g \in Nat : s(g) \in Nat /\ s(g + 1) = s(g) + size
      /\ \A g, h \in Nat : g < h => s(g) + size <= s(h)
      /\ s(0) = 0
  BY <1>1, <1>2, BlockEnds
<1> HIDE DEF s
<1>4. \A g \in 0..(m - 1), i \in 1..size : s(g) + i \in 1..s(m) /\ s(g) \in Nat
  <2> SUFFICES ASSUME NEW g \in 0..(m - 1), NEW i \in 1..size PROVE s(g) + i \in 1..s(m) /\ s(g) \in Nat
    OBVIOUS
  <2>1. g \in Nat /\ g < m
    OBVIOUS
  <2>2. s(g) + size <= s(m) /\ s(g) \in Nat /\ s(m) \in Nat
    BY <1>3, <2>1
  <2> QED BY <2>2
<1>5. \A g, h \in 0..(m - 1) : \A i, j \in 1..size : s(g) + i = s(h) + j => g = h /\ i = j
  <2> SUFFICES ASSUME NEW g \in 0..(m - 1), NEW h \in 0..(m - 1), NEW i \in 1..size, NEW j \in 1..size,
                      s(g) + i = s(h) + j
               PROVE  g = h /\ i = j
    OBVIOUS
  <2>1. s(g) \in Nat /\ s(h) \in Nat
    BY <1>3
  <2>2. ~(g < h)
    <3> SUFFICES ASSUME g < h PROVE FALSE
      OBVIOUS
    <3>1. s(g) + size <= s(h)
      BY <1>3
    <3> QED BY <2>1, <3>1
  <2>3. ~(h < g)
    <3> SUFFICES ASSUME h < g PROVE FALSE
      OBVIOUS
    <3>1. s(h) + size <= s(g)
      BY <1>3
    <3> QED BY <2>1, <3>1
  <2>4. g = h
    BY <2>2, <2>3
  <2> QED BY <2>1, <2>4
<1>6. \A r \in 1..s(m) : \E g \in 0..(m - 1) : \E i \in 1..size : r = s(g) + i
  <2> DEFINE T == {r \in Nat : \E g \in Nat : \E i \in 1..size : r + 1 = s(g) + i}
  <2>1. 0 \in T
    <3>1. 1 \in 1..size /\ 0 + 1 = s(0) + 1
      BY <1>3
    <3> QED BY <3>1
  <2>2. ASSUME NEW r \in Nat, r \in T PROVE r + 1 \in T
    <3>1. PICK g \in Nat, i \in 1..size : r + 1 = s(g) + i
      BY <2>2
    <3>2. CASE i < size
      <4>2. s(g) \in Nat
        BY <1>3
      <4>1. i + 1 \in 1..size /\ (r + 1) + 1 = s(g) + (i + 1)
        BY <3>1, <3>2, <4>2
      <4> QED BY <4>1
    <3>3. CASE i = size
      <4>1. 1 \in 1..size /\ (r + 1) + 1 = s(g + 1) + 1 /\ g + 1 \in Nat
        BY <1>3, <3>1, <3>3
      <4> QED BY <4>1
    <3> QED BY <3>2, <3>3
  <2> HIDE DEF T
  <2>3. Nat \subseteq T
    BY <2>1, <2>2, Induct
  <2>4. ASSUME NEW r \in 1..s(m) PROVE \E g \in 0..(m - 1) : \E i \in 1..size : r = s(g) + i
    <3>1. s(m) \in Nat
      BY <1>3
    <3>2. r - 1 \in Nat /\ (r - 1) + 1 = r
      BY <3>1
    <3>3. r - 1 \in T
      BY <2>3, <3>2
    <3>4. PICK g \in Nat, i \in 1..size : r = s(g) + i
      BY <3>2, <3>3 DEF T
    <3>5. g < m
      <4> SUFFICES ASSUME m <= g PROVE FALSE
        BY <3>4
      <4>1. s(m) <= s(g)
        <5>1. CASE m = g
          BY <1>3, <5>1
        <5>2. CASE m < g
          <6>1. s(m) + size <= s(g) /\ s(m) \in Nat /\ s(g) \in Nat
            BY <1>3, <5>2
          <6> QED BY <6>1
        <5> QED BY <5>1, <5>2
      <4> QED BY <1>3, <3>4, <4>1
    <3>6. g \in 0..(m - 1)
      BY <3>5
    <3> QED BY <3>4, <3>6
  <2> QED BY <2>4
<1> QED BY <1>1, <1>4, <1>5, <1>6 DEF s, InBlocks

\* A number that divides n cuts it into equal blocks.
LEMMA Divides ==
  ASSUME NEW n \in Nat, NEW size \in Nat \ {0}, n % size = 0
  PROVE  n \div size \in Nat /\ n = (n \div size) * size
<1>1. n = size * (n \div size) + (n % size) /\ n \div size \in Nat
  OBVIOUS
<1>2. \A a, b \in Nat : a * b = b * a
  OBVIOUS
<1> DEFINE q == n \div size
<1> HIDE DEF q
<1> QED BY <1>1, <1>2

-----------------------------------------------------------------------------
(* Karmarkar and Karp's method: the first states *)

LEMMA ByLengthLists ==
  ASSUME NEW n \in Nat, NEW lens \in [1..n -> Nat \ {0}]
  PROVE  Lists(ByLength(lens), n, 1..n) /\ ByLength(lens) \in Seq(1..n) /\ Len(ByLength(lens)) = n
<1> DEFINE R == {ij \in (1..n) \X (1..n) : \/ lens[ij[1]] < lens[ij[2]]
                                           \/ lens[ij[1]] = lens[ij[2]] /\ ij[1] < ij[2]}
           f == InOrder(1..n, R)
<1>1. DOMAIN lens = 1..n /\ \A i \in 1..n : lens[i] \in Nat
  OBVIOUS
<1>2. \A i, j \in 1..n : <<i, j>> \in R <=> lens[i] < lens[j] \/ (lens[i] = lens[j] /\ i < j)
  OBVIOUS
<1>3. ByLength(lens) = f
  BY <1>1 DEF ByLength
<1> HIDE DEF R
<1>4. StrictOrder(R, 1..n)
  <2>1. \A x \in 1..n : <<x, x>> \notin R
    BY <1>1, <1>2
  <2>2. \A x, y, z \in 1..n : <<x, y>> \in R /\ <<y, z>> \in R => <<x, z>> \in R
    BY <1>1, <1>2
  <2>3. \A x, y \in 1..n : x # y => <<x, y>> \in R \/ <<y, x>> \in R
    BY <1>1, <1>2
  <2> QED BY <2>1, <2>2, <2>3 DEF StrictOrder
<1>5. IsFiniteSet(1..n) /\ Cardinality(1..n) = n
  BY FS_Interval
<1>6. Lists(f, n, 1..n)
  BY <1>4, <1>5, InOrderLists
<1> HIDE DEF f
<1>7. f \in [1..n -> 1..n]
  BY <1>6 DEF Lists
<1>8. f \in Seq(1..n) /\ Len(f) = n
  BY <1>7
<1> QED BY <1>3, <1>6, <1>8

\* How far apart the sets of a state may start.
SpreadBound(lens, n, eq, d) ==
  IF eq THEN \A i, j \in 1..n : lens[i] <= lens[j] + d ELSE \A i \in 1..n : lens[i] <= d

\* The rows a state begins with.
FirstRows(n, k, eq, part) ==
  /\ part \in Seq(1..n) /\ Len(part) = IF eq THEN k ELSE 1
  /\ \A p, q \in 1..Len(part) : part[p] = part[q] => p = q

\* A state begins with one row in a set, in every set for equal sizes.
LEMMA StateOfGood ==
  ASSUME NEW n \in Nat, NEW k \in Nat \ {0}, NEW lens \in [1..n -> Nat \ {0}], NEW d \in Nat, NEW eq \in BOOLEAN,
         SpreadBound(lens, n, eq, d),
         NEW part, FirstRows(n, k, eq, part)
  PROVE  /\ GoodState(lens, n, k, d, eq, StateOf(lens, part, k))
         /\ RowsOf(k, StateOf(lens, part, k)) = Members(part)
<1> DEFINE m == Len(part)
           sets == [i \in 1..k |-> IF i <= Len(part) THEN [sum |-> lens[part[i]], items |-> <<part[i]>>]
                                   ELSE EmptySet]
<1>0. /\ part \in Seq(1..n)
      /\ \A p, q \in 1..Len(part) : part[p] = part[q] => p = q
  BY DEF FirstRows
<1>1. m \in 1..k /\ (eq => m = k) /\ (~eq => m = 1)
  BY DEF FirstRows
<1>2. \A i \in 1..m : part[i] \in 1..n
  <2>1. part \in Seq(1..n) /\ m \in Nat
    BY <1>0, <1>1
  <2> QED BY <2>1
<1>3. sets = [i \in 1..k |-> sets[i]]
  OBVIOUS
<1>4. \A i \in 1..k : i <= m => /\ sets[i].sum = lens[part[i]] /\ sets[i].items = <<part[i]>>
                                /\ sets[i] = [sum |-> lens[part[i]], items |-> <<part[i]>>]
  OBVIOUS
<1>5. \A i \in 1..k : ~(i <= m) => sets[i].sum = 0 /\ sets[i].items = <<>> /\ sets[i] = EmptySet
  BY DEF EmptySet
<1>6. StateOf(lens, part, k) = Decreasing(sets)
  BY DEF StateOf
<1> HIDE DEF sets, m
<1>7. \A i \in 1..k : /\ i <= m => Members(sets[i].items) = {part[i]} /\ Len(sets[i].items) = 1
                      /\ ~(i <= m) => Members(sets[i].items) = {} /\ Len(sets[i].items) = 0
  <2>1. \A x : Len(<<x>>) = 1 /\ Members(<<x>>) = {x}
    BY DEF Members
  <2>2. Len(<<>>) = 0 /\ Members(<<>>) = {}
    BY DEF Members
  <2> TAKE i \in 1..k
  <2>3. ASSUME i <= m PROVE Members(sets[i].items) = {part[i]} /\ Len(sets[i].items) = 1
    <3>1. sets[i].items = <<part[i]>>
      BY <1>4, <2>3
    <3> QED BY <2>1, <3>1
  <2>4. ASSUME ~(i <= m) PROVE Members(sets[i].items) = {} /\ Len(sets[i].items) = 0
    <3>1. sets[i].items = <<>>
      BY <1>5, <2>4
    <3> QED BY <2>2, <3>1
  <2> QED BY <2>3, <2>4
<1>8. \A i \in 1..k : sets[i] \in SetsOver(n)
  <2> TAKE i \in 1..k
  <2>1. CASE i <= m
    <3>1. i \in 1..m
      BY <1>1, <2>1
    <3>2. part[i] \in 1..n /\ lens[part[i]] \in Nat
      BY <1>2, <3>1
    <3>3. <<part[i]>> \in Seq(1..n)
      BY <3>2
    <3>4. [sum |-> lens[part[i]], items |-> <<part[i]>>] \in SetsOver(n)
      BY <3>2, <3>3 DEF SetsOver
    <3> QED BY <1>4, <2>1, <3>4
  <2>2. CASE ~(i <= m)
    <3>1. <<>> \in Seq(1..n)
      OBVIOUS
    <3>2. EmptySet \in SetsOver(n)
      BY <3>1 DEF SetsOver, EmptySet
    <3> QED BY <1>5, <2>2, <3>2
  <2> QED BY <2>1, <2>2
<1>9. \A i \in 1..k : GoodSet(lens, n, sets[i])
  <2> TAKE i \in 1..k
  <2>1. \A p, q \in 1..Len(sets[i].items) : sets[i].items[p] = sets[i].items[q] => p = q
    BY <1>7
  <2>2. sets[i].sum = Weight(lens, Members(sets[i].items))
    <3>1. CASE i <= m
      <4>1. part[i] \in 1..n
        BY <1>1, <1>2, <3>1
      <4>2. lens[part[i]] \in Nat
        BY <4>1
      <4>3. Weight(lens, {part[i]}) = lens[part[i]]
        BY <4>2, WeightOne
      <4> QED BY <1>4, <1>7, <3>1, <4>3
    <3>2. CASE ~(i <= m)
      BY <1>5, <1>7, <3>2, WeightNone
    <3> QED BY <3>1, <3>2
  <2> QED BY <1>8, <2>1, <2>2 DEF GoodSet
<1>10. ASSUME NEW i \in 1..k, NEW j \in 1..k, i # j
       PROVE  Members(sets[i].items) \cap Members(sets[j].items) = {}
  <2>1. CASE i <= m /\ j <= m
    <3>1. i \in 1..m /\ j \in 1..m
      BY <1>1, <2>1
    <3>2. part[i] # part[j]
      BY <1>0, <1>10, <3>1 DEF m
    <3>3. Members(sets[i].items) = {part[i]} /\ Members(sets[j].items) = {part[j]}
      BY <1>7, <2>1
    <3> QED BY <3>2, <3>3
  <2>2. CASE ~(i <= m) \/ ~(j <= m)
    <3>1. Members(sets[i].items) = {} \/ Members(sets[j].items) = {}
      BY <1>7, <2>2
    <3> QED BY <3>1
  <2> QED BY <2>1, <2>2
<1>11. ASSUME NEW i \in 1..k, NEW j \in 1..k PROVE sets[i].sum <= sets[j].sum + d
  <2>1. CASE i <= m /\ j <= m
    <3>1. i \in 1..m /\ j \in 1..m
      BY <1>1, <2>1
    <3>2. part[i] \in 1..n /\ part[j] \in 1..n
      BY <1>2, <3>1
    <3>3. lens[part[i]] \in Nat /\ lens[part[j]] \in Nat
      BY <3>2
    <3>4. lens[part[i]] <= lens[part[j]] + d
      BY <3>2, <3>3, SMTT(30) DEF SpreadBound
    <3>5. sets[i].sum = lens[part[i]] /\ sets[j].sum = lens[part[j]]
      BY <1>4, <2>1
    <3> QED BY <3>4, <3>5
  <2>2. CASE i <= m /\ ~(j <= m)
    <3>1. ~eq
      BY <1>1, <2>2
    <3>2. part[i] \in 1..n
      BY <1>1, <1>2, <2>2
    <3>3. lens[part[i]] <= d /\ lens[part[i]] \in Nat
      BY <3>1, <3>2 DEF SpreadBound
    <3>4. sets[i].sum = lens[part[i]] /\ sets[j].sum = 0
      BY <1>4, <1>5, <2>2
    <3> QED BY <3>3, <3>4
  <2>3. CASE ~(i <= m)
    <3>1. sets[j].sum \in Nat
      BY <1>8 DEF SetsOver
    <3>2. sets[i].sum = 0
      BY <1>5, <2>3
    <3> DEFINE a == sets[i].sum
               b == sets[j].sum
    <3>3. a = 0 /\ b \in Nat
      BY <3>1, <3>2
    <3> HIDE DEF a, b
    <3>4. a <= b + d
      BY <3>3
    <3> QED BY <3>4 DEF a, b
  <2> QED BY <2>1, <2>2, <2>3
<1>12. \E i \in 1..k : Len(sets[i].items) > 0
  <2>1. 1 \in 1..k /\ 1 <= m
    BY <1>1
  <2>2. Len(sets[1].items) = 1
    BY <1>7, <2>1
  <2> DEFINE a(i) == Len(sets[i].items)
  <2>3. a(1) = 1
    BY <2>2
  <2> HIDE DEF a
  <2>4. \E i \in 1..k : a(i) > 0
    BY <2>1, <2>3
  <2> QED BY <2>4 DEF a
<1>13. eq => \A i, j \in 1..k : Len(sets[i].items) = Len(sets[j].items)
  BY <1>1, <1>7
<1>14. \A j \in 1..k : Len(sets[j].items) <= 1
  <2> TAKE j \in 1..k
  <2>1. Len(sets[j].items) = 1 \/ Len(sets[j].items) = 0
    BY <1>7
  <2> DEFINE a == Len(sets[j].items)
  <2>2. a = 1 \/ a = 0
    BY <2>1
  <2> HIDE DEF a
  <2>3. a <= 1
    BY <2>2
  <2> QED BY <2>3 DEF a
<1>15. Fair(lens, n, k, d, eq, sets)
  <2>1. sets \in [1..k -> SetsOver(n)]
    BY <1>3, <1>8
  <2> QED BY <1>9, <1>10, <1>11, <1>12, <1>13, <1>14, <2>1 DEF Fair
<1>16. RowsOf(k, sets) = Members(part)
  <2>1. \A x : x \in Members(part) <=> \E p \in 1..m : part[p] = x
    BY <1>0, MembersIs DEF m
  <2>2. \A x : x \in RowsOf(k, sets) <=> \E i \in 1..k : x \in Members(sets[i].items)
    BY RowsOfMember
  <2>3. \A x : x \in RowsOf(k, sets) <=> \E p \in 1..m : part[p] = x
    <3> TAKE x
    <3>1. \A i \in 1..k : x \in Members(sets[i].items) <=> i <= m /\ x = part[i]
      <4> TAKE i \in 1..k
      <4> DEFINE M == Members(sets[i].items)
      <4>1. (i <= m => M = {part[i]}) /\ (~(i <= m) => M = {})
        BY <1>7
      <4> HIDE DEF M
      <4>2. x \in M <=> i <= m /\ x = part[i]
        BY <4>1
      <4> QED BY <4>2 DEF M
    <3>2. x \in RowsOf(k, sets) <=> \E i \in 1..k : i <= m /\ x = part[i]
      BY <2>2, <3>1
    <3> QED BY <1>1, <3>2
  <2> QED BY <2>1, <2>3
<1> QED BY <1>6, <1>15, <1>16, DecreasingGood

\* The first states share the rows between them.
LEMMA InitialGood ==
  ASSUME NEW n \in Nat, NEW k \in 1..n, NEW lens \in [1..n -> Nat \ {0}], NEW d \in Nat, NEW eq \in BOOLEAN,
         eq => n % k = 0, SpreadBound(lens, n, eq, d)
  PROVE  /\ GoodHeap(lens, n, k, d, eq, InitialStates(lens, k, eq))
         /\ RowsOfHeap(k, InitialStates(lens, k, eq)) = 1..n
         /\ InitialStates(lens, k, eq) # {}
<1> DEFINE size == IF eq THEN k ELSE 1
           m == n \div size
           rows == ByLength(lens)
           part(g) == SubSeq(rows, g * size + 1, (g + 1) * size)
           S(g) == StateOf(lens, part(g), k)
           H == {S(g) : g \in 0..(m - 1)}
<1>1. size \in Nat \ {0} /\ n % size = 0 /\ size = IF eq THEN k ELSE 1
  <2>1. n % 1 = 0
    OBVIOUS
  <2> QED BY <2>1
<1>2. InitialStates(lens, k, eq) = H
  <2>1. Len(lens) = n
    OBVIOUS
  <2> QED BY <2>1 DEF InitialStates
<1> HIDE DEF size
<1>3. m \in Nat /\ n = m * size
  BY <1>1, Divides
<1> HIDE DEF m, rows
<1>4. Lists(rows, n, 1..n) /\ rows \in Seq(1..n) /\ Len(rows) = n
  BY ByLengthLists DEF rows
<1>5. /\ \A g \in 0..(m - 1), i \in 1..size : g * size + i \in 1..n /\ g * size \in Nat
      /\ \A g, h \in 0..(m - 1) : \A i, j \in 1..size : g * size + i = h * size + j => g = h /\ i = j
      /\ \A r \in 1..n : \E g \in 0..(m - 1) : \E i \in 1..size : r = g * size + i
  <2>1. m \in Nat /\ size \in Nat \ {0}
    BY <1>1, <1>3
  <2>2. InBlocks(size, m, m * size)
    BY <2>1, Blocks
  <2>3. InBlocks(size, m, n)
    BY <1>3, <2>2
  <2> QED BY <2>3 DEF InBlocks
<1> HIDE DEF part
<1>6. \A g \in 0..(m - 1) : /\ part(g) \in Seq(1..n) /\ Len(part(g)) = size
                            /\ \A i \in 1..size : part(g)[i] = rows[g * size + i]
  <2> TAKE g \in 0..(m - 1)
  <2> DEFINE a == g * size
  <2>1. (g + 1) * size = a + size /\ a \in Nat /\ 1 \in 1..size
    BY <1>1, <1>5
  <2>2. a + size \in 1..n
    <3>1. size \in 1..size
      BY <1>1
    <3> QED BY <1>5, <3>1
  <2>3. part(g) = SubSeq(rows, a + 1, a + size)
    BY <2>1 DEF part
  <2>4. \A i \in 1..size : part(g)[i] = rows[g * size + i] <=> part(g)[i] = rows[a + i]
    OBVIOUS
  <2> HIDE DEF a
  <2>5. SubSeq(rows, a + 1, a + size) \in Seq(1..n) /\ Len(SubSeq(rows, a + 1, a + size)) = size
    BY <1>1, <1>4, <2>1, <2>2, SMTT(30)
  <2>6. \A i \in 1..size : SubSeq(rows, a + 1, a + size)[i] = rows[a + i]
    BY <1>1, <1>4, <2>1, <2>2
  <2> QED BY <2>3, <2>4, <2>5, <2>6
<1>7. /\ \A p, q \in 1..n : rows[p] = rows[q] => p = q
      /\ \A r \in 1..n : \E p \in 1..n : rows[p] = r
      /\ \A p \in 1..n : rows[p] \in 1..n
  BY <1>4 DEF Lists
<1>8. \A g \in 0..(m - 1) : \A x : x \in Members(part(g)) <=> \E i \in 1..size : x = rows[g * size + i]
  <2> TAKE g \in 0..(m - 1)
  <2>1. \A x : x \in Members(part(g)) <=> \E i \in 1..Len(part(g)) : part(g)[i] = x
    BY <1>6, MembersIs
  <2> QED BY <1>6, <2>1
<1>9. \A g \in 0..(m - 1) : GoodState(lens, n, k, d, eq, S(g)) /\ RowsOf(k, S(g)) = Members(part(g))
  <2> TAKE g \in 0..(m - 1)
  <2>1. part(g) \in Seq(1..n) /\ Len(part(g)) = IF eq THEN k ELSE 1
    BY <1>1, <1>6
  <2>2. \A p, q \in 1..Len(part(g)) : part(g)[p] = part(g)[q] => p = q
    <3> SUFFICES ASSUME NEW p \in 1..size, NEW q \in 1..size, part(g)[p] = part(g)[q] PROVE p = q
      BY <1>6
    <3>1. rows[g * size + p] = rows[g * size + q]
      BY <1>6
    <3>2. g * size + p = g * size + q
      BY <1>5, <1>7, <3>1
    <3> QED BY <1>5, <3>2
  <2>3. k \in Nat \ {0}
    OBVIOUS
  <2>4. FirstRows(n, k, eq, part(g))
    BY <2>1, <2>2 DEF FirstRows
  <2> QED BY <2>3, <2>4, StateOfGood
<1> HIDE DEF S
<1>10. \A g, h \in 0..(m - 1) : g # h => RowsOf(k, S(g)) \cap RowsOf(k, S(h)) = {}
  <2> SUFFICES ASSUME NEW g \in 0..(m - 1), NEW h \in 0..(m - 1), NEW x,
                      x \in RowsOf(k, S(g)), x \in RowsOf(k, S(h))
               PROVE  g = h
    OBVIOUS
  <2>1. PICK i \in 1..size : x = rows[g * size + i]
    BY <1>8, <1>9
  <2>2. PICK j \in 1..size : x = rows[h * size + j]
    BY <1>8, <1>9
  <2>3. g * size + i = h * size + j
    BY <1>5, <1>7, <2>1, <2>2
  <2> QED BY <1>5, <2>3
<1>11. GoodHeap(lens, n, k, d, eq, H)
  <2>1. IsFiniteSet(0..(m - 1))
    BY <1>3, FS_Interval
  <2> DEFINE f == [g \in 0..(m - 1) |-> S(g)]
  <2>3. f \in Surjection(0..(m - 1), H)
    <3>1. f \in [0..(m - 1) -> H] /\ \A x \in H : \E g \in 0..(m - 1) : f[g] = x
      OBVIOUS
    <3> QED BY <3>1 DEF Surjection
  <2> HIDE DEF f
  <2>2. IsFiniteSet(H)
    BY <2>1, <2>3, FS_Surjection
  <2> QED BY <1>9, <1>10, <2>2 DEF GoodHeap
<1>12. \A r \in 1..n : \E g \in 0..(m - 1) : r \in RowsOf(k, S(g))
  <2> TAKE r \in 1..n
  <2>1. PICK p \in 1..n : rows[p] = r
    BY <1>7
  <2>2. PICK g \in 0..(m - 1), i \in 1..size : p = g * size + i
    BY <1>5
  <2>3. r \in Members(part(g))
    BY <1>8, <2>1, <2>2
  <2> QED BY <1>9, <2>3
<1>13. \A g \in 0..(m - 1) : RowsOf(k, S(g)) \subseteq 1..n
  BY <1>6, <1>9, MembersIs
<1>14. RowsOfHeap(k, H) = 1..n
  BY <1>12, <1>13 DEF RowsOfHeap
<1>15. H # {}
  <2>1. 1 \in 1..n
    OBVIOUS
  <2> QED BY <1>12, <2>1
<1> HIDE DEF H
<1> QED BY <1>2, <1>11, <1>14, <1>15

-----------------------------------------------------------------------------
(* Karmarkar and Karp's method: the rounds *)

\* h[i] is the heap after i rounds.
Rounds(h, H, r) == h = [i \in 0..r |-> IF i = 0 THEN H ELSE MergeTwo(h[i - 1])]

LEMMA RoundsAre ==
  ASSUME NEW r \in Nat, NEW H, NEW h, Rounds(h, H, r)
  PROVE  h[0] = H /\ \A i \in 0..r : i + 1 \in 0..r => h[i + 1] = MergeTwo(h[i])
<1>1. \A i \in 0..r : h[i] = IF i = 0 THEN H ELSE MergeTwo(h[i - 1])
  BY DEF Rounds
<1>2. h[0] = H
  BY <1>1
<1>3. ASSUME NEW i \in 0..r, i + 1 \in 0..r PROVE h[i + 1] = MergeTwo(h[i])
  <2>1. i + 1 # 0 /\ (i + 1) - 1 = i
    OBVIOUS
  <2>2. h[i + 1] = MergeTwo(h[(i + 1) - 1])
    BY <1>1, <1>3, <2>1
  <2> QED BY <2>1, <2>2
<1> QED BY <1>2, <1>3

LEMMA RoundsExist ==
  ASSUME NEW H, NEW r \in Nat
  PROVE  \E h : Rounds(h, H, r)
<1> DEFINE T == {m \in Nat : \E h : Rounds(h, H, m)}
<1>1. 0 \in T
  <2> DEFINE h == [i \in 0..0 |-> H]
  <2>1. h = [i \in 0..0 |-> IF i = 0 THEN H ELSE MergeTwo(h[i - 1])]
    OBVIOUS
  <2>2. Rounds(h, H, 0)
    BY <2>1 DEF Rounds
  <2> QED BY <2>2
<1>2. ASSUME NEW m \in Nat, m \in T PROVE m + 1 \in T
  <2>1. PICK h : Rounds(h, H, m)
    BY <1>2
  <2> DEFINE g == [i \in 0..(m + 1) |-> IF i = m + 1 THEN MergeTwo(h[m]) ELSE h[i]]
  <2>2. \A i \in 0..m : h[i] = IF i = 0 THEN H ELSE MergeTwo(h[i - 1])
    BY <2>1 DEF Rounds
  <2>3. ASSUME NEW i \in 0..(m + 1) PROVE g[i] = IF i = 0 THEN H ELSE MergeTwo(g[i - 1])
    <3>1. CASE i = m + 1
      <4>1. i # 0 /\ i - 1 = m /\ m \in 0..(m + 1) /\ m # m + 1
        BY <3>1
      <4>2. g[i] = MergeTwo(h[m]) /\ g[m] = h[m]
        BY <3>1, <4>1
      <4> QED BY <4>1, <4>2
    <3>2. CASE i \in 1..m
      <4>1. i # 0 /\ i # m + 1 /\ i \in 0..m /\ i - 1 \in 0..(m + 1) /\ i - 1 # m + 1
        BY <3>2
      <4>2. g[i] = h[i] /\ g[i - 1] = h[i - 1]
        BY <4>1
      <4>3. h[i] = MergeTwo(h[i - 1])
        BY <2>2, <4>1
      <4> QED BY <4>1, <4>2, <4>3
    <3>3. CASE i = 0
      BY <2>2, <3>3
    <3> QED BY <3>1, <3>2, <3>3
  <2>4. g = [i \in 0..(m + 1) |-> g[i]]
    OBVIOUS
  <2> HIDE DEF g
  <2>5. g = [i \in 0..(m + 1) |-> IF i = 0 THEN H ELSE MergeTwo(g[i - 1])]
    BY <2>3, <2>4
  <2>6. Rounds(g, H, m + 1)
    BY <2>5 DEF Rounds
  <2> QED BY <2>6
<1> HIDE DEF T
<1>3. Nat \subseteq T
  BY <1>1, <1>2, Induct
<1> QED BY <1>3 DEF T

\* Every round leaves one state less, and all the rows.
LEMMA RoundsGood ==
  ASSUME NEW n \in Nat, NEW k \in Nat, NEW lens, Lengths(lens, n), NEW d \in Nat, NEW eq \in BOOLEAN,
         NEW rows, NEW r \in Nat, NEW H, HeapOf(lens, n, k, d, eq, rows, r + 1, H), NEW h, Rounds(h, H, r)
  PROVE  HeapOf(lens, n, k, d, eq, rows, 1, h[r])
<1> DEFINE Good(c, G) == HeapOf(lens, n, k, d, eq, rows, c, G)
           T == {i \in Nat : i <= r => Good(r + 1 - i, h[i])}
<1>1. h[0] = H /\ \A i \in 0..r : i + 1 \in 0..r => h[i + 1] = MergeTwo(h[i])
  BY RoundsAre
<1>2. \A c \in Nat : \A G : c > 1 /\ Good(c, G) => Good(c - 1, MergeTwo(G))
  BY MergeTwoGood
<1>3. Good(r + 1, H)
  OBVIOUS
<1> HIDE DEF Good
<1>4. 0 \in T
  BY <1>1, <1>3
<1>5. ASSUME NEW i \in Nat, i \in T PROVE i + 1 \in T
  <2> SUFFICES ASSUME i + 1 <= r PROVE Good(r + 1 - (i + 1), h[i + 1])
    OBVIOUS
  <2>1. Good(r + 1 - i, h[i])
    BY <1>5
  <2>2. h[i + 1] = MergeTwo(h[i])
    BY <1>1
  <2>3. r + 1 - i \in Nat /\ r + 1 - i > 1 /\ (r + 1 - i) - 1 = r + 1 - (i + 1)
    OBVIOUS
  <2>4. Good((r + 1 - i) - 1, MergeTwo(h[i]))
    BY <1>2, <2>1, <2>3
  <2> QED BY <2>2, <2>3, <2>4
<1> HIDE DEF T
<1>6. Nat \subseteq T
  BY <1>4, <1>5, Induct
<1>7. Good(r + 1 - r, h[r])
  BY <1>6 DEF T
<1>8. r + 1 - r = 1
  OBVIOUS
<1> QED BY <1>7, <1>8 DEF Good

\* The method ends with one good state, which holds all rows.
LEMMA KarmarkarKarpIs ==
  ASSUME NEW n \in Nat, NEW k \in 1..n, NEW lens \in [1..n -> Nat \ {0}], NEW d \in Nat, NEW eq \in BOOLEAN,
         eq => n % k = 0, SpreadBound(lens, n, eq, d)
  PROVE  \E st : /\ GoodState(lens, n, k, d, eq, st) /\ RowsOf(k, st) = 1..n
                 /\ KarmarkarKarp(lens, k, eq) = [i \in 1..k |-> st[i].items]
<1> DEFINE H == InitialStates(lens, k, eq)
           r == Cardinality(H) - 1
           h == CHOOSE h : Rounds(h, H, r)
           st == CHOOSE st \in h[r] : TRUE
<1>1. KarmarkarKarp(lens, k, eq) = [i \in 1..k |-> st[i].items]
  BY DEF KarmarkarKarp, Rounds
<1> HIDE DEF H
<1>2. GoodHeap(lens, n, k, d, eq, H) /\ RowsOfHeap(k, H) = 1..n /\ H # {}
  BY InitialGood DEF H
<1>3. IsFiniteSet(H)
  BY <1>2 DEF GoodHeap
<1>4. r \in Nat /\ Cardinality(H) = r + 1
  <2>1. Cardinality(H) \in Nat /\ Cardinality(H) # 0
    BY <1>2, <1>3, FS_CardinalityType, FS_EmptySet
  <2> QED BY <2>1
<1> HIDE DEF r
<1>5. Rounds(h, H, r)
  BY <1>4, RoundsExist
<1> HIDE DEF h
<1>6. Lengths(lens, n)
  BY DEF Lengths
<1>7. GoodHeap(lens, n, k, d, eq, h[r]) /\ RowsOfHeap(k, h[r]) = RowsOfHeap(k, H) /\ Cardinality(h[r]) = 1
  <2>1. k \in Nat
    OBVIOUS
  <2>2. HeapOf(lens, n, k, d, eq, 1..n, r + 1, H)
    BY <1>2, <1>4 DEF HeapOf
  <2>3. HeapOf(lens, n, k, d, eq, 1..n, 1, h[r])
    BY <1>4, <1>5, <1>6, <2>1, <2>2, RoundsGood
  <2> QED BY <1>2, <2>3 DEF HeapOf
<1>8. IsFiniteSet(h[r])
  BY <1>7 DEF GoodHeap
<1>9. PICK x : h[r] = {x}
  BY <1>7, <1>8, FS_Singleton
<1>10. st = x /\ st \in h[r]
  BY <1>9
<1> HIDE DEF st
<1>11. GoodState(lens, n, k, d, eq, st)
  BY <1>7, <1>10 DEF GoodHeap
<1>12. RowsOf(k, st) = 1..n
  BY <1>2, <1>7, <1>9, <1>10 DEF RowsOfHeap
<1> QED BY <1>1, <1>11, <1>12

-----------------------------------------------------------------------------
(* Partitions *)

\* The parts name every row once, each in batch order; none is empty.
Partitions(P, n, k) ==
  /\ P \in [1..k -> Seq(1..n)]
  /\ \A i \in 1..k : P[i] # <<>> /\ \A a, b \in 1..Len(P[i]) : a < b => P[i][a] < P[i][b]
  /\ Apart(P, k)
  /\ \A r \in 1..n : \E i \in 1..k : \E a \in 1..Len(P[i]) : P[i][a] = r

\* No part has more tokens than another one and d.
TokensWithin(lens, P, k, d) ==
  \A i, j \in 1..k : Tokens(lens, P[i]) \in Nat /\ Tokens(lens, P[i]) <= Tokens(lens, P[j]) + d

SameSize(P, k) == \A i, j \in 1..k : Len(P[i]) = Len(P[j])

\* get_seqlen_balanced_partitions never fails the checks at its end, whatever the
\* lengths: there are k parts, none is empty, and together they name every row.  No
\* row is in two parts, the parts are of equal size when that is asked for, and no
\* part is ahead of another by more tokens than two rows differ (equal sizes) or
\* than the longest row has (otherwise).
THEOREM BalancedPartitionsCorrect ==
  ASSUME NEW n \in Nat, NEW k \in 1..n, NEW lens \in [1..n -> Nat \ {0}], NEW d \in Nat, NEW eq \in BOOLEAN,
         eq => n % k = 0, SpreadBound(lens, n, eq, d)
  PROVE  LET P == BalancedPartitions(lens, k, eq)
         IN  Partitions(P, n, k) /\ TokensWithin(lens, P, k, d) /\ (eq => SameSize(P, k))
<1> DEFINE kk == KarmarkarKarp(lens, k, eq)
           P == [i \in 1..k |-> RowsIn(ToSet(kk[i]))]
<1>1. PICK st : /\ GoodState(lens, n, k, d, eq, st) /\ RowsOf(k, st) = 1..n
                /\ kk = [i \in 1..k |-> st[i].items]
  BY KarmarkarKarpIs
<1>2. Fair(lens, n, k, d, eq, st) /\ \A i, j \in 1..k : i < j => st[i].sum >= st[j].sum
  BY <1>1 DEF GoodState
<1>3. /\ st \in [1..k -> SetsOver(n)] /\ \A i \in 1..k : GoodSet(lens, n, st[i])
      /\ \A i, j \in 1..k : i # j => Members(st[i].items) \cap Members(st[j].items) = {}
      /\ \A i, j \in 1..k : st[i].sum <= st[j].sum + d
      /\ eq => \A i, j \in 1..k : Len(st[i].items) = Len(st[j].items)
      /\ ~eq => \A i, j \in 1..k : Len(st[i].items) = 0 => Len(st[j].items) <= 1
  BY <1>2 DEF Fair
<1> DEFINE f(i) == st[i].items
           M(i) == Members(f(i))
<1>4. /\ \A i \in 1..k : f(i) \in Seq(1..n) /\ \A p, q \in 1..Len(f(i)) : f(i)[p] = f(i)[q] => p = q
      /\ \A i, j \in 1..k : i # j => M(i) \cap M(j) = {}
      /\ \A i \in 1..k : st[i].sum \in Nat /\ st[i].sum = Weight(lens, M(i))
      /\ eq => \A i, j \in 1..k : Len(f(i)) = Len(f(j))
      /\ ~eq => \A i, j \in 1..k : Len(f(i)) = 0 => Len(f(j)) <= 1
  BY <1>3 DEF GoodSet, SetsOver
<1>5. \A r : r \in 1..n <=> \E i \in 1..k : r \in M(i)
  BY <1>1, RowsOfMember
<1>6. \A i \in 1..k : ToSet(kk[i]) = M(i)
  <2> TAKE i \in 1..k
  <2>1. kk[i] = f(i)
    BY <1>1
  <2> QED BY <2>1 DEF ToSet, Members
<1> HIDE DEF kk, f
<1>7. \A i \in 1..k : /\ M(i) \subseteq 1..n /\ (M(i) = {} <=> Len(f(i)) = 0)
                      /\ \A x : x \in M(i) <=> \E p \in 1..Len(f(i)) : f(i)[p] = x
  BY <1>4, MembersIs
<1> HIDE DEF M
<1>8. \A i \in 1..k : IsFiniteSet(M(i)) /\ Cardinality(M(i)) = Len(f(i))
  <2> TAKE i \in 1..k
  <2> DEFINE m == Len(f(i))
  <2>4. f(i) \in Seq(1..n) /\ \A x : x \in M(i) <=> \E p \in 1..m : f(i)[p] = x
    BY <1>4, <1>7
  <2>5. m \in Nat
    BY <2>4
  <2>1. m \in Nat /\ \A p \in 1..m : f(i)[p] \in M(i)
    BY <2>4, <2>5
  <2> DEFINE g == [p \in 1..m |-> f(i)[p]]
  <2>2. Lists(g, m, M(i))
    <3>1. g \in [1..m -> M(i)]
      BY <2>1
    <3>2. \A p, q \in 1..m : g[p] = g[q] => p = q
      BY <1>4
    <3>3. \A x \in M(i) : \E p \in 1..m : g[p] = x
      BY <1>7
    <3> QED BY <3>1, <3>2, <3>3 DEF Lists
  <2> HIDE DEF g, m
  <2>3. IsFiniteSet(M(i)) /\ Cardinality(M(i)) = m
    BY <2>1, <2>2, ListsLen
  <2> QED BY <2>3 DEF m
<1>9. \A i \in 1..k : Len(f(i)) # 0
  <2> SUFFICES ASSUME NEW i \in 1..k, Len(f(i)) = 0 PROVE FALSE
    OBVIOUS
  <2>1. M(i) = {}
    BY <1>7
  <2>2. CASE eq
    <3>1. \A j \in 1..k : M(j) = {}
      BY <1>4, <1>7, <2>2
    <3>2. 1 \in 1..n
      OBVIOUS
    <3> QED BY <1>5, <3>1, <3>2
  <2>3. CASE ~eq
    <3>1. \A j \in 1..k : \A x, y \in M(j) : x = y
      <4> SUFFICES ASSUME NEW j \in 1..k, NEW x \in M(j), NEW y \in M(j) PROVE x = y
        OBVIOUS
      <4>1. PICK p \in 1..Len(f(j)) : f(j)[p] = x
        BY <1>7
      <4>2. PICK q \in 1..Len(f(j)) : f(j)[q] = y
        BY <1>7
      <4>3. Len(f(j)) \in Nat /\ Len(f(j)) <= 1
        BY <1>4, <2>3
      <4>4. p = q
        BY <4>3
      <4> QED BY <4>1, <4>2, <4>4
    <3> DEFINE rest == (1..k) \ {i}
               g == [r \in 1..n |-> CHOOSE j \in 1..k : r \in M(j)]
    <3>2. \A r \in 1..n : g[r] \in 1..k /\ r \in M(g[r])
      BY <1>5
    <3>3. \A r \in 1..n : g[r] \in rest
      BY <2>1, <3>2
    <3>4. g \in [1..n -> rest]
      BY <3>3
    <3> HIDE DEF g
    <3>5. \A r, q \in 1..n : g[r] = g[q] => r = q
      BY <3>1, <3>2
    <3>6. g \in Injection(1..n, rest)
      BY <3>4, <3>5 DEF Injection, IsInjective
    <3>7. /\ IsFiniteSet(1..n) /\ Cardinality(1..n) = n
          /\ IsFiniteSet(1..k) /\ Cardinality(1..k) = k
      BY FS_Interval
    <3>8. IsFiniteSet(rest) /\ Cardinality(rest) = k - 1
      <4>1. IsFiniteSet(1..k) /\ i \in 1..k
        BY <3>7
      <4>2. IsFiniteSet((1..k) \ {i}) /\ Cardinality((1..k) \ {i}) = Cardinality(1..k) - 1
        BY <4>1, FS_RemoveElement
      <4> QED BY <3>7, <4>2
    <3>9. Cardinality(1..n) <= Cardinality(rest)
      BY <3>6, <3>8, FS_Injection
    <3> QED BY <3>7, <3>8, <3>9
  <2> QED BY <2>2, <2>3
<1>10. \A i \in 1..k : /\ P[i] = RowsIn(M(i)) /\ P[i] \in Seq(1..n) /\ Len(P[i]) = Len(f(i))
                       /\ Lists(P[i], Len(f(i)), M(i)) /\ Len(f(i)) \in Nat
                       /\ \A a, b \in 1..Len(P[i]) : a < b => P[i][a] < P[i][b]
  <2> TAKE i \in 1..k
  <2>1. P[i] = RowsIn(M(i))
    BY <1>6
  <2>2. M(i) \in SUBSET (1..n) /\ Cardinality(M(i)) = Len(f(i)) /\ Len(f(i)) \in Nat
    BY <1>4, <1>7, <1>8
  <2> DEFINE S == M(i)
             c == Len(f(i))
  <2>3. S \in SUBSET (1..n) /\ Cardinality(S) = c
    BY <2>2
  <2> HIDE DEF S, c, P
  <2>4. /\ Lists(RowsIn(S), c, S) /\ RowsIn(S) \in Seq(1..n) /\ Len(RowsIn(S)) = c
        /\ \A a, b \in 1..c : a < b => RowsIn(S)[a] < RowsIn(S)[b]
    BY <2>3, RowsInLists
  <2> QED BY <2>1, <2>2, <2>4 DEF S, c
<1>11. P = [i \in 1..k |-> P[i]]
  OBVIOUS
<1>12. BalancedPartitions(lens, k, eq) = Evaluated(P)
  BY DEF BalancedPartitions, kk
<1> HIDE DEF P
<1>13. P \in [1..k -> Seq(1..n)]
  BY <1>10, <1>11
<1>14. k \in Nat
  OBVIOUS
<1>15. BalancedPartitions(lens, k, eq) = P
  BY <1>12, <1>13, <1>14, EvaluatedIs
<1>16. \A i \in 1..k : /\ \A a \in 1..Len(P[i]) : P[i][a] \in M(i)
                       /\ \A a, b \in 1..Len(P[i]) : P[i][a] = P[i][b] => a = b
                       /\ \A x \in M(i) : \E a \in 1..Len(P[i]) : P[i][a] = x
  BY <1>10 DEF Lists
<1>17. Partitions(P, n, k)
  <2>1. \A i \in 1..k : P[i] # <<>>
    BY <1>9, <1>10
  <2>2. \A i, j \in 1..k : \A a \in 1..Len(P[i]), b \in 1..Len(P[j]) : P[i][a] = P[j][b] => i = j /\ a = b
    <3> SUFFICES ASSUME NEW i \in 1..k, NEW j \in 1..k, NEW a \in 1..Len(P[i]), NEW b \in 1..Len(P[j]),
                        P[i][a] = P[j][b]
                 PROVE  i = j /\ a = b
      OBVIOUS
    <3>1. P[i][a] \in M(i) /\ P[i][a] \in M(j)
      BY <1>16
    <3>2. i = j
      BY <1>4, <3>1
    <3> QED BY <1>16, <3>2
  <2>3. \A r \in 1..n : \E i \in 1..k : \E a \in 1..Len(P[i]) : P[i][a] = r
    BY <1>5, <1>16
  <2> QED BY <1>10, <1>13, <2>1, <2>2, <2>3 DEF Partitions, Apart
<1>18. \A i \in 1..k : Tokens(lens, P[i]) = st[i].sum
  <2> TAKE i \in 1..k
  <2>1. \A r \in 1..n : lens[r] \in Nat
    OBVIOUS
  <2>2. P[i] \in Seq(1..n) /\ \A p, q \in 1..Len(P[i]) : P[i][p] = P[i][q] => p = q
    BY <1>10, <1>16
  <2>3. Tokens(lens, P[i]) = Weight(lens, Members(P[i]))
    BY <2>1, <2>2, TokensAre
  <2>4. Members(P[i]) = M(i)
    <3>1. \A x : x \in Members(P[i]) <=> \E p \in 1..Len(P[i]) : P[i][p] = x
      BY <2>2, MembersIs
    <3>2. /\ \A a \in 1..Len(P[i]) : P[i][a] \in M(i)
          /\ \A x \in M(i) : \E a \in 1..Len(P[i]) : P[i][a] = x
      BY <1>16
    <3>3. \A x : x \in Members(P[i]) <=> x \in M(i)
      BY <3>1, <3>2
    <3> QED BY <3>3
  <2> QED BY <1>4, <2>3, <2>4
<1>19. TokensWithin(lens, P, k, d) /\ (eq => SameSize(P, k))
  <2>1. \A i, j \in 1..k : st[i].sum \in Nat /\ st[i].sum <= st[j].sum + d
    BY <1>3, <1>4
  <2>2. eq => \A i, j \in 1..k : Len(P[i]) = Len(P[j])
    BY <1>4, <1>10
  <2>3. \A i, j \in 1..k : Tokens(lens, P[i]) \in Nat /\ Tokens(lens, P[i]) <= Tokens(lens, P[j]) + d
    BY <1>18, <2>1
  <2> QED BY <2>2, <2>3 DEF TokensWithin, SameSize
<1> QED BY <1>15, <1>17, <1>19

-----------------------------------------------------------------------------
(* Micro-batches *)

LEMMA WorkNat ==
  ASSUME NEW n \in Nat, NEW lens \in [1..n -> Nat \ {0}], NEW part \in Seq(1..n)
  PROVE  Work(lens, part) \in Nat /\ FirstRow(part) \in Nat
<1> DEFINE T == TokensOf(lens, part)
           W == UNION {{p} \X (1..lens[part[p]]) \X (1..lens[part[p]]) : p \in DOMAIN part}
           g == [p \in 1..Len(part) |-> lens[part[p]]]
           f == [x \in W |-> <<<<x[1], x[2]>>, <<x[1], x[3]>>>>]
<1>1. DOMAIN part = 1..Len(part) /\ Len(part) \in Nat /\ \A p \in 1..Len(part) : part[p] \in 1..n
  OBVIOUS
<1>2. IsFiniteSet(T)
  <2>1. T = RowTokens(g, 1..Len(part))
    BY <1>1 DEF TokensOf, RowTokens
  <2>2. \A p \in 1..Len(part) : g[p] \in Nat
    BY <1>1
  <2> HIDE DEF g, T
  <2>3. IsFiniteSet(RowTokens(g, 1..Len(part)))
    BY <1>1, <2>2, RowTokensFinite
  <2> QED BY <2>1, <2>3
<1>3. \A x \in W : <<x[1], x[2]>> \in T /\ <<x[1], x[3]>> \in T /\ x = <<x[1], x[2], x[3]>>
  <2> SUFFICES ASSUME NEW p \in DOMAIN part, NEW x \in {p} \X (1..lens[part[p]]) \X (1..lens[part[p]])
               PROVE  <<x[1], x[2]>> \in T /\ <<x[1], x[3]>> \in T /\ x = <<x[1], x[2], x[3]>>
    BY ZenonT(30)
  <2>1. x = <<x[1], x[2], x[3]>> /\ x[1] = p /\ x[2] \in 1..lens[part[p]] /\ x[3] \in 1..lens[part[p]]
    OBVIOUS
  <2>2. <<x[1], x[2]>> \in {p} \X (1..lens[part[p]]) /\ <<x[1], x[3]>> \in {p} \X (1..lens[part[p]])
    BY <2>1
  <2> QED BY <2>1, <2>2 DEF TokensOf
<1> HIDE DEF W, T
<1>4. f \in Injection(W, T \X T)
  <2>1. f \in [W -> T \X T]
    BY <1>3
  <2>2. ASSUME NEW x \in W, NEW y \in W, f[x] = f[y] PROVE x = y
    <3>1. <<<<x[1], x[2]>>, <<x[1], x[3]>>>> = <<<<y[1], y[2]>>, <<y[1], y[3]>>>>
      BY <2>2
    <3>2. x[1] = y[1] /\ x[2] = y[2] /\ x[3] = y[3]
      BY <3>1
    <3> QED BY <1>3, <3>2
  <2> QED BY <2>1, <2>2 DEF Injection, IsInjective
<1>5. IsFiniteSet(T \X T)
  BY <1>2, FS_Product
<1> HIDE DEF f
<1>6. IsFiniteSet(W)
  BY <1>4, <1>5, FS_Injection
<1>7. Cardinality(W) \in Nat
  BY <1>6, FS_CardinalityType
<1>8. Work(lens, part) \in Nat
  BY <1>7 DEF Work, W
<1>9. FirstRow(part) \in Nat
  <2>1. CASE part = <<>>
    BY <2>1 DEF FirstRow
  <2>2. CASE part # <<>>
    <3>1. Len(part) # 0 /\ Head(part) = part[1]
      BY <2>2
    <3>2. part[1] \in 1..n
      BY <1>1, <3>1
    <3> QED BY <2>2, <3>1, <3>2 DEF FirstRow
  <2> QED BY <2>1, <2>2
<1> QED BY <1>8, <1>9

\* The micro-batches are the parts, rearranged.
LEMMA MicroBatchesAre ==
  ASSUME NEW n \in Nat, NEW lens \in [1..n -> Nat \ {0}], NEW k \in Nat,
         BalancedPartitions(lens, k, FALSE) \in [1..k -> Seq(1..n)]
  PROVE  \E order : /\ Lists(order, k, 1..k)
                    /\ MicroBatches(lens, k) = [m \in 1..k |-> BalancedPartitions(lens, k, FALSE)[order[m]]]
<1> DEFINE parts == BalancedPartitions(lens, k, FALSE)
           R == {pq \in (1..k) \X (1..k) : Precedes(lens, parts, pq[1], pq[2])}
           order == InOrder(1..k, R)
           w(p) == Work(lens, parts[p])
           f(p) == FirstRow(parts[p])
<1>1. \A p \in 1..k : w(p) \in Nat /\ f(p) \in Nat
  BY WorkNat
<1>2. \A p, q \in 1..k : <<p, q>> \in R <=>
        w(p) > w(q) \/ (w(p) = w(q) /\ f(p) > f(q)) \/ (w(p) = w(q) /\ f(p) = f(q) /\ p < q)
  BY DEF Precedes
<1>3. MicroBatches(lens, k) = [m \in 1..k |-> parts[order[m]]]
  BY DEF MicroBatches
<1> HIDE DEF parts, R, w, f
<1>4. StrictOrder(R, 1..k)
  <2>1. \A x \in 1..k : <<x, x>> \notin R
    BY <1>1, <1>2
  <2>2. \A x, y, z \in 1..k : <<x, y>> \in R /\ <<y, z>> \in R => <<x, z>> \in R
    <3> SUFFICES ASSUME NEW x \in 1..k, NEW y \in 1..k, NEW z \in 1..k, <<x, y>> \in R, <<y, z>> \in R
                 PROVE  <<x, z>> \in R
      OBVIOUS
    <3>1. /\ w(x) \in Nat /\ w(y) \in Nat /\ w(z) \in Nat
          /\ f(x) \in Nat /\ f(y) \in Nat /\ f(z) \in Nat
      BY <1>1
    <3>2. w(x) > w(y) \/ (w(x) = w(y) /\ f(x) > f(y)) \/ (w(x) = w(y) /\ f(x) = f(y) /\ x < y)
      BY <1>2
    <3>3. w(y) > w(z) \/ (w(y) = w(z) /\ f(y) > f(z)) \/ (w(y) = w(z) /\ f(y) = f(z) /\ y < z)
      BY <1>2
    <3>4. w(x) > w(z) \/ (w(x) = w(z) /\ f(x) > f(z)) \/ (w(x) = w(z) /\ f(x) = f(z) /\ x < z)
      BY <3>1, <3>2, <3>3
    <3> QED BY <1>2, <3>4
  <2>3. \A x, y \in 1..k : x # y => <<x, y>> \in R \/ <<y, x>> \in R
    <3> SUFFICES ASSUME NEW x \in 1..k, NEW y \in 1..k, x # y PROVE <<x, y>> \in R \/ <<y, x>> \in R
      OBVIOUS
    <3>1. w(x) \in Nat /\ w(y) \in Nat /\ f(x) \in Nat /\ f(y) \in Nat
      BY <1>1
    <3>2. \/ w(x) > w(y) \/ (w(x) = w(y) /\ f(x) > f(y)) \/ (w(x) = w(y) /\ f(x) = f(y) /\ x < y)
          \/ w(y) > w(x) \/ (w(y) = w(x) /\ f(y) > f(x)) \/ (w(y) = w(x) /\ f(y) = f(x) /\ y < x)
      BY <3>1
    <3> QED BY <1>2, <3>2
  <2> QED BY <2>1, <2>2, <2>3 DEF StrictOrder
<1>5. IsFiniteSet(1..k) /\ Cardinality(1..k) = k
  BY FS_Interval
<1>6. Lists(order, k, 1..k)
  BY <1>4, <1>5, InOrderLists
<1> HIDE DEF order
<1> QED BY <1>3, <1>6 DEF parts

LEMMA Rearranged ==
  ASSUME NEW n \in Nat, NEW k \in Nat, NEW B, Partitions(B, n, k), NEW order, Lists(order, k, 1..k),
         NEW P, P = [m \in 1..k |-> B[order[m]]]
  PROVE  Partitions(P, n, k)
<1>1. B \in [1..k -> Seq(1..n)]
  BY DEF Partitions, Apart
<1>2. /\ \A m \in 1..k : order[m] \in 1..k
      /\ \A i, j \in 1..k : order[i] = order[j] => i = j
      /\ \A x \in 1..k : \E i \in 1..k : order[i] = x
  BY DEF Lists
<1>3. \A m \in 1..k : P[m] = B[order[m]]
  OBVIOUS
<1>4. P \in [1..k -> Seq(1..n)]
  BY <1>1, <1>2
<1>5. ASSUME NEW i \in 1..k
      PROVE  P[i] # <<>> /\ \A a, b \in 1..Len(P[i]) : a < b => P[i][a] < P[i][b]
  <2>1. \A x \in 1..k : B[x] # <<>> /\ \A a, b \in 1..Len(B[x]) : a < b => B[x][a] < B[x][b]
    BY DEF Partitions, Apart
  <2>2. order[i] \in 1..k /\ P[i] = B[order[i]]
    BY <1>2, <1>3
  <2> QED BY <2>1, <2>2
<1>6. ASSUME NEW i \in 1..k, NEW j \in 1..k, NEW a \in 1..Len(P[i]), NEW b \in 1..Len(P[j]), P[i][a] = P[j][b]
      PROVE  i = j /\ a = b
  <2>1. \A x, y \in 1..k : \A c \in 1..Len(B[x]), e \in 1..Len(B[y]) : B[x][c] = B[y][e] => x = y /\ c = e
    BY DEF Partitions, Apart
  <2>2. order[i] \in 1..k /\ order[j] \in 1..k /\ P[i] = B[order[i]] /\ P[j] = B[order[j]]
    BY <1>2, <1>3
  <2>3. order[i] = order[j] /\ a = b
    BY <1>6, <2>1, <2>2, SMTT(30)
  <2> QED BY <1>2, <2>3
<1>7. ASSUME NEW r \in 1..n PROVE \E i \in 1..k : \E a \in 1..Len(P[i]) : P[i][a] = r
  <2>1. PICK x \in 1..k : \E a \in 1..Len(B[x]) : B[x][a] = r
    BY DEF Partitions, Apart
  <2>2. PICK i \in 1..k : order[i] = x
    BY <1>2
  <2>3. P[i] = B[x]
    BY <1>3, <2>2
  <2> QED BY <2>1, <2>3
<1> QED BY <1>4, <1>5, <1>6, <1>7 DEF Partitions, Apart

\* The micro-batches of rearrange_micro_batches name every row of the mini-batch
\* once, none is empty, and none has more tokens than another one and the longest row.
THEOREM MicroBatchesCorrect ==
  ASSUME NEW n \in Nat, NEW k \in 1..n, NEW lens \in [1..n -> Nat \ {0}], NEW d \in Nat,
         SpreadBound(lens, n, FALSE, d)
  PROVE  LET P == MicroBatches(lens, k)
         IN  Partitions(P, n, k) /\ TokensWithin(lens, P, k, d)
<1> DEFINE B == BalancedPartitions(lens, k, FALSE)
           P == MicroBatches(lens, k)
<1>1. Partitions(B, n, k) /\ TokensWithin(lens, B, k, d)
  BY BalancedPartitionsCorrect
<1>3. k \in Nat
  OBVIOUS
<1>4. B \in [1..k -> Seq(1..n)]
  BY <1>1 DEF Partitions, Apart
<1>5. \E order : Lists(order, k, 1..k) /\ P = [m \in 1..k |-> B[order[m]]]
  BY <1>3, <1>4, MicroBatchesAre, ZenonT(30)
<1> HIDE DEF B, P
<1>6. PICK order : Lists(order, k, 1..k) /\ P = [m \in 1..k |-> B[order[m]]]
  BY <1>5
<1>7. Partitions(P, n, k)
  BY <1>1, <1>3, <1>6, Rearranged
<1>8. ASSUME NEW i \in 1..k, NEW j \in 1..k
      PROVE  Tokens(lens, P[i]) \in Nat /\ Tokens(lens, P[i]) <= Tokens(lens, P[j]) + d
  <2>1. order[i] \in 1..k /\ order[j] \in 1..k
    BY <1>6 DEF Lists
  <2>2. P[i] = B[order[i]] /\ P[j] = B[order[j]]
    BY <1>6
  <2> QED BY <1>1, <2>1, <2>2 DEF TokensWithin
<1> QED BY <1>7, <1>8 DEF P, TokensWithin

-----------------------------------------------------------------------------
(* What partitions add up to *)

\* The concatenation of the parts names every row once.
LEMMA PartitionsConcat ==
  ASSUME NEW n \in Nat, NEW k \in Nat, NEW P, Partitions(P, n, k)
  PROVE  /\ FlattenSeq(P) \in Seq(1..n) /\ Len(FlattenSeq(P)) = n
         /\ Lists(FlattenSeq(P), n, 1..n)
<1>1. P \in [1..k -> Seq(1..n)] /\ Apart(P, k)
  BY DEF Partitions
<1> DEFINE f == FlattenSeq(P)
           m == Len(f)
           s == P
<1>9. s \in [1..k -> Seq(1..n)] /\ Apart(s, k)
  BY <1>1
<1> HIDE DEF s
<1>10. /\ FlattenSeq(s) \in Seq(1..n)
       /\ \A p, q \in 1..Len(FlattenSeq(s)) : FlattenSeq(s)[p] = FlattenSeq(s)[q] => p = q
       /\ \A i \in 1..k : \A a \in 1..Len(s[i]) : \E p \in 1..Len(FlattenSeq(s)) : FlattenSeq(s)[p] = s[i][a]
  <2> DEFINE X == 1..n
  <2>1. s \in [1..k -> Seq(X)]
    BY <1>9
  <2> HIDE DEF X
  <2>2. Joins(FlattenSeq(s), X, s, k)
    BY <1>9, <2>1, FlattenLists
  <2> QED BY <2>2 DEF X, Joins
<1>2. /\ f \in Seq(1..n)
      /\ \A p, q \in 1..m : f[p] = f[q] => p = q
      /\ \A i \in 1..k : \A a \in 1..Len(P[i]) : \E p \in 1..m : f[p] = P[i][a]
  BY <1>10 DEF s
<1> HIDE DEF f
<1>3. m \in Nat /\ f \in [1..m -> 1..n]
  BY <1>2
<1>4. \A r \in 1..n : \E p \in 1..m : f[p] = r
  <2> TAKE r \in 1..n
  <2>1. PICK i \in 1..k : \E a \in 1..Len(P[i]) : P[i][a] = r
    BY DEF Partitions, Apart
  <2>2. PICK a \in 1..Len(P[i]) : P[i][a] = r
    BY <2>1
  <2>3. PICK p \in 1..m : f[p] = P[i][a]
    BY <1>2
  <2> QED BY <2>2, <2>3
<1>5. Lists(f, m, 1..n)
  BY <1>2, <1>3, <1>4 DEF Lists
<1>8. Cardinality(1..n) = n
  BY FS_Interval
<1>6. Cardinality(1..n) = m /\ Cardinality(1..n) = n
  BY <1>3, <1>5, <1>8, ListsLen
<1>7. m = n
  BY <1>6
<1> QED BY <1>2, <1>5, <1>7 DEF f

\* g is f and then t.
Appends(f, t, g, X) ==
  /\ f \in Seq(X) /\ g \in Seq(X) /\ t \in Seq(X) /\ g = f \o t
  /\ Len(g) = Len(f) + Len(t)
  /\ \A p \in 1..Len(f) : g[p] = f[p]
  /\ \A a \in 1..Len(t) : g[Len(f) + a] = t[a]

\* A step of the concatenation.
LEMMA FlatAppends ==
  ASSUME NEW X, NEW k \in Nat, NEW s \in [1..k -> Seq(X)], NEW d \in 0..k, d + 1 \in 1..k
  PROVE  Appends(Flat(s, d), s[d + 1], Flat(s, d + 1), X)
<1>1. \A e \in 0..k : Flat(s, e) \in Seq(X)
  BY FlatStep
<1>2. \A e \in 1..k : Flat(s, e) = Flat(s, e - 1) \o s[e]
  BY FlatStep
<1>3. (d + 1) - 1 = d /\ d + 1 \in 0..k
  OBVIOUS
<1> DEFINE F == Flat(s, d)
           G == Flat(s, d + 1)
           t == s[d + 1]
<1>4. F \in Seq(X) /\ G \in Seq(X) /\ t \in Seq(X) /\ G = F \o t
  BY <1>1, <1>2, <1>3
<1> HIDE DEF F, G, t
<1>5. /\ Len(G) = Len(F) + Len(t)
      /\ \A p \in 1..Len(F) : G[p] = F[p]
      /\ \A a \in 1..Len(t) : G[Len(F) + a] = t[a]
  BY <1>4
<1> QED BY <1>4, <1>5 DEF F, G, t, Appends

\* f holds the k sequences s of c members in turn.
InTurn(f, s, k, c) ==
  /\ Len(f) = k * c
  /\ \A g \in 0..(k - 1) : \A a \in 1..c : f[g * c + a] = s[g + 1][a]

\* The concatenation of k sequences of c members.
LEMMA FlatBlocks ==
  ASSUME NEW X, NEW k \in Nat, NEW s \in [1..k -> Seq(X)], NEW c \in Nat, \A i \in 1..k : Len(s[i]) = c
  PROVE  InTurn(FlattenSeq(s), s, k, c)
<1> DEFINE at(g) == g * c
           Good(d, F) == Len(F) = at(d) /\ \A g \in 0..(d - 1) : \A a \in 1..c : F[at(g) + a] = s[g + 1][a]
           T == {d \in Nat : d <= k => Good(d, Flat(s, d))}
<1>1. /\ at(0) = 0
      /\ \A g \in Nat : at(g) \in Nat /\ at(g + 1) = at(g) + c
      /\ \A g, h \in Nat : g < h => at(g) + c <= at(h)
  <2>1. \A g \in Nat : (g + 1) * c = g * c + c
    OBVIOUS
  <2>2. \A g \in Nat : g * c \in Nat
    OBVIOUS
  <2>3. 0 * c = 0
    OBVIOUS
  <2> QED BY <2>1, <2>2, <2>3, BlockEnds
<1> HIDE DEF at
<1>2. 0 \in T
  <2>1. Flat(s, 0) = <<>>
    BY FlatStep
  <2>2. Len(<<>>) = 0 /\ 0..(0 - 1) = {}
    OBVIOUS
  <2> QED BY <1>1, <2>1, <2>2
<1>3. ASSUME NEW d \in Nat, d \in T PROVE d + 1 \in T
  <2> SUFFICES ASSUME d + 1 <= k PROVE Good(d + 1, Flat(s, d + 1))
    OBVIOUS
  <2> DEFINE F == Flat(s, d)
             G == Flat(s, d + 1)
  <2>1. d \in 0..k /\ d + 1 \in 1..k
    OBVIOUS
  <2>2. /\ Len(G) = Len(F) + Len(s[d + 1])
        /\ \A p \in 1..Len(F) : G[p] = F[p]
        /\ \A a \in 1..Len(s[d + 1]) : G[Len(F) + a] = s[d + 1][a]
    BY <2>1, FlatAppends DEF Appends
  <2>3. Len(F) = at(d) /\ \A g \in 0..(d - 1) : \A a \in 1..c : F[at(g) + a] = s[g + 1][a]
    BY <1>3
  <2> HIDE DEF F, G
  <2>4. Len(G) = at(d + 1)
    BY <1>1, <2>1, <2>2, <2>3
  <2>5. ASSUME NEW g \in 0..((d + 1) - 1), NEW a \in 1..c PROVE G[at(g) + a] = s[g + 1][a]
    <3>1. CASE g = d
      BY <2>1, <2>2, <2>3, <3>1
    <3>2. CASE g < d
      <4>1. g \in 0..(d - 1) /\ g \in Nat
        BY <3>2
      <4>2. at(g) \in Nat /\ at(d) \in Nat /\ at(g) + c <= at(d)
        BY <1>1, <3>2, <4>1
      <4>3. at(g) + a \in 1..Len(F)
        BY <2>3, <4>2
      <4>4. G[at(g) + a] = F[at(g) + a]
        BY <2>2, <4>3
      <4>5. F[at(g) + a] = s[g + 1][a]
        BY <2>3, <4>1
      <4> QED BY <4>4, <4>5
    <3> QED BY <3>1, <3>2
  <2> QED BY <2>4, <2>5 DEF G
<1> HIDE DEF T
<1>4. Nat \subseteq T
  BY <1>2, <1>3, Induct
<1>5. Good(k, Flat(s, k))
  BY <1>4 DEF T
<1>6. FlattenSeq(s) = Flat(s, k)
  BY FlatStep
<1> QED BY <1>5, <1>6 DEF at, InTurn

\* The tokens of all rows, and of the parts one after another.
LEMMA AllTokens ==
  ASSUME NEW n \in Nat, NEW lens \in [1..n -> Nat \ {0}]
  PROVE  Tokens(lens, Rows(n)) = Weight(lens, 1..n) /\ Weight(lens, 1..n) \in Nat
<1>1. Rows(n) \in Seq(1..n) /\ Len(Rows(n)) = n /\ \A p \in 1..n : Rows(n)[p] = p
  BY DEF Rows
<1>2. \A i \in 1..n : lens[i] \in Nat
  OBVIOUS
<1>3. Tokens(lens, Rows(n)) = Weight(lens, Members(Rows(n)))
  BY <1>1, <1>2, TokensAre
<1>4. Members(Rows(n)) = 1..n
  <2>1. \A x : x \in Members(Rows(n)) <=> \E p \in 1..n : Rows(n)[p] = x
    BY <1>1, MembersIs
  <2>2. \A x : x \in Members(Rows(n)) <=> x \in 1..n
    BY <1>1, <2>1
  <2> QED BY <2>2
<1>5. Weight(lens, 1..n) \in Nat
  BY <1>2, RowTokensFinite
<1> QED BY <1>3, <1>4, <1>5

\* Not every part is above the average.
LEMMA SomeSmallPart ==
  ASSUME NEW n \in Nat, NEW k \in Nat \ {0}, NEW lens \in [1..n -> Nat \ {0}], NEW P, Partitions(P, n, k),
         NEW m \in Nat, Weight(lens, 1..n) <= k * m
  PROVE  \E j \in 1..k : Tokens(lens, P[j]) <= m
<1> SUFFICES ASSUME \A j \in 1..k : ~(Tokens(lens, P[j]) <= m) PROVE FALSE
  OBVIOUS
<1>1. /\ P \in [1..k -> Seq(1..n)]
      /\ \A i, j \in 1..k : \A a \in 1..Len(P[i]), b \in 1..Len(P[j]) : P[i][a] = P[j][b] => i = j /\ a = b
  BY DEF Partitions, Apart
<1>2. \A i \in 1..n : lens[i] \in Nat
  OBVIOUS
<1> DEFINE M(j) == Members(P[j])
           U(c) == UNION {M(j) : j \in 1..c}
           at(c) == c * (m + 1)
           T == {c \in Nat : c <= k => Weight(lens, U(c)) >= at(c)}
<1>3. \A j \in 1..k : /\ M(j) \subseteq 1..n
                      /\ \A x : x \in M(j) <=> \E p \in 1..Len(P[j]) : P[j][p] = x
  BY <1>1, MembersIs
<1>4. \A j \in 1..k : Weight(lens, M(j)) = Tokens(lens, P[j]) /\ Weight(lens, M(j)) \in Nat
  <2> TAKE j \in 1..k
  <2>1. P[j] \in Seq(1..n) /\ \A p, q \in 1..Len(P[j]) : P[j][p] = P[j][q] => p = q
    BY <1>1
  <2>2. Tokens(lens, P[j]) = Weight(lens, M(j))
    BY <1>2, <2>1, TokensAre
  <2> QED BY <1>2, <1>3, <2>2, RowTokensFinite
<1> HIDE DEF M
<1>5. \A i, j \in 1..k : i # j => M(i) \cap M(j) = {}
  <2> SUFFICES ASSUME NEW i \in 1..k, NEW j \in 1..k, NEW x \in M(i), x \in M(j) PROVE i = j
    OBVIOUS
  <2>1. PICK p \in 1..Len(P[i]) : P[i][p] = x
    BY <1>3
  <2>2. PICK q \in 1..Len(P[j]) : P[j][q] = x
    BY <1>3
  <2> QED BY <1>1, <2>1, <2>2
<1>14. at(0) = 0 /\ \A c \in Nat : at(c) \in Nat /\ at(c + 1) = at(c) + (m + 1)
  <2>1. \A c \in Nat : (c + 1) * (m + 1) = c * (m + 1) + (m + 1)
    OBVIOUS
  <2>2. \A c \in Nat : c * (m + 1) \in Nat
    OBVIOUS
  <2> QED BY <2>1, <2>2
<1>15. at(k) = k * m + k /\ k * m \in Nat
  OBVIOUS
<1> HIDE DEF at
<1>6. 0 \in T
  <2>1. U(0) = {}
    OBVIOUS
  <2>2. Weight(lens, U(0)) = 0
    BY <2>1, WeightNone
  <2> QED BY <1>14, <2>2
<1>7. ASSUME NEW c \in Nat, c \in T PROVE c + 1 \in T
  <2> SUFFICES ASSUME c + 1 <= k PROVE Weight(lens, U(c + 1)) >= at(c + 1)
    OBVIOUS
  <2> DEFINE A == U(c)
             B == M(c + 1)
  <2>1. U(c + 1) = A \cup B
    <3>1. \A j : j \in 1..(c + 1) <=> j \in 1..c \/ j = c + 1
      OBVIOUS
    <3> QED BY <3>1
  <2>2. A \subseteq 1..n /\ B \subseteq 1..n /\ A \cap B = {}
    <3>1. c + 1 \in 1..k /\ \A j \in 1..c : j \in 1..k /\ j # c + 1
      OBVIOUS
    <3> QED BY <1>3, <1>5, <3>1
  <2> HIDE DEF A, B, U
  <2>3. IsFiniteSet(RowTokens(lens, A)) /\ IsFiniteSet(RowTokens(lens, B))
    BY <1>2, <2>2, RowTokensFinite
  <2>4. /\ Weight(lens, A \cup B) = Weight(lens, A) + Weight(lens, B)
        /\ Weight(lens, A) \in Nat /\ Weight(lens, B) \in Nat
    BY <2>2, <2>3, WeightUnion
  <2>5. Weight(lens, B) >= m + 1
    <3>1. c + 1 \in 1..k
      OBVIOUS
    <3>2. Weight(lens, B) = Tokens(lens, P[c + 1])
      BY <1>4, <3>1 DEF B
    <3> QED BY <2>4, <3>1, <3>2
  <2>6. Weight(lens, A) >= at(c)
    BY <1>7 DEF A
  <2>7. at(c + 1) = at(c) + (m + 1) /\ at(c) \in Nat
    BY <1>14
  <2>8. Weight(lens, U(c + 1)) = Weight(lens, A) + Weight(lens, B)
    BY <2>1, <2>4
  <2> DEFINE a == Weight(lens, A)
             b == Weight(lens, B)
  <2>9. a \in Nat /\ b \in Nat /\ b >= m + 1 /\ a >= at(c)
    BY <2>4, <2>5, <2>6
  <2> HIDE DEF a, b
  <2>10. a + b >= at(c + 1)
    BY <2>7, <2>9
  <2> QED BY <2>8, <2>10 DEF a, b
<1> HIDE DEF T
<1>8. Nat \subseteq T
  BY <1>6, <1>7, Induct
<1>9. Weight(lens, U(k)) >= at(k)
  BY <1>8 DEF T
<1>10. U(k) = 1..n
  <2>1. \A r \in 1..n : \E j \in 1..k : r \in M(j)
    BY <1>3 DEF Partitions, Apart
  <2> QED BY <1>3, <2>1
<1>12. Weight(lens, 1..n) \in Nat
  BY AllTokens
<1> DEFINE w == Weight(lens, 1..n)
           km == k * m
<1>13. w \in Nat /\ km \in Nat /\ w >= km + k /\ w <= km
  BY <1>9, <1>10, <1>12, <1>15
<1> HIDE DEF w, km
<1> QED BY <1>13

-----------------------------------------------------------------------------
(* Cutting a batch *)

LEMMA SubSeqIs ==
  ASSUME NEW s, NEW m \in Int, NEW n \in Int, m <= n + 1
  PROVE  SubSeq(s, m, n) = [i \in 1..(n - m + 1) |-> s[m + i - 1]]
<1> DEFINE S == {s[i] : i \in m..n}
           t == SubSeq(s, m, n)
           k == n - m + 1
<1>1. k \in Nat
  OBVIOUS
<1>2. \A i \in m..n : s[i] \in S
  OBVIOUS
<1>3. /\ t \in Seq(S) /\ Len(t) = IF m <= n THEN n - m + 1 ELSE 0
      /\ \A i \in 1..(n - m + 1) : t[i] = s[m + i - 1]
  BY <1>2, SubSeqProperties
<1>4. Len(t) = k
  <2>1. ~(m <= n) => k = 0
    OBVIOUS
  <2> HIDE DEF t
  <2> QED BY <1>3, <2>1
<1> HIDE DEF t, S, k
<1>5. t = [i \in 1..k |-> t[i]]
  BY <1>1, <1>3, <1>4
<1>6. \A i \in 1..k : t[i] = s[m + i - 1]
  BY <1>3 DEF k
<1>7. t = [i \in 1..k |-> s[m + i - 1]]
  BY <1>5, <1>6
<1> QED BY <1>7 DEF t, k

\* Where the c-th part of a batch of n rows ends when parts have size rows, and
\* the parts themselves.
EndOf(n, size, c) == SmallerOf(c * size, n)
Part(n, size, c) ==
  [p \in 1..(EndOf(n, size, c + 1) - EndOf(n, size, c)) |-> EndOf(n, size, c) + p]

\* The parts come one after another, none is empty, and they end with the batch.
Cut(n, size, parts) ==
  /\ parts \in Seq(Seq(1..n)) /\ Len(parts) \in Nat \ {0}
  /\ EndOf(n, size, 0) = 0 /\ EndOf(n, size, Len(parts)) = n
  /\ \A c \in 0..(Len(parts) - 1) :
       /\ EndOf(n, size, c) \in Nat /\ EndOf(n, size, c + 1) \in 1..n
       /\ EndOf(n, size, c) < EndOf(n, size, c + 1)
       /\ parts[c + 1] = Part(n, size, c)

LEMMA SplitIs ==
  ASSUME NEW n \in Nat \ {0}, NEW size \in Nat \ {0}
  PROVE  Cut(n, size, Split(Rows(n), size))
<1> DEFINE at(c) == c * size
           k == (n + size - 1) \div size
           rows == Rows(n)
           parts == Split(rows, size)
           E(c) == EndOf(n, size, c)
<1>1. rows \in [1..n -> 1..n] /\ Len(rows) = n /\ \A i \in 1..n : rows[i] = i
  <2>1. rows \in [1..n -> 1..n] /\ \A i \in 1..n : rows[i] = i
    BY DEF Rows
  <2>2. rows \in Seq(1..n) /\ Len(rows) = n
    BY <2>1, EvaluatedIs
  <2> QED BY <2>1, <2>2
<1>2. /\ at(0) = 0
      /\ \A c \in Nat : at(c) \in Nat /\ at(c + 1) = at(c) + size
      /\ \A c, d \in Nat : c < d => at(c) + size <= at(d)
  <2>1. \A c \in Nat : (c + 1) * size = c * size + size
    OBVIOUS
  <2>2. \A c \in Nat : c * size \in Nat
    OBVIOUS
  <2>3. 0 * size = 0
    OBVIOUS
  <2> QED BY <2>1, <2>2, <2>3, BlockEnds
<1>3. k \in Nat /\ at(k) >= n /\ \A c \in Nat : c < k => at(c) < n
  <2>1. k \in Nat /\ n + size - 1 = size * k + ((n + size - 1) % size) /\ (n + size - 1) % size \in 0..(size - 1)
    <3> DEFINE x == n + size - 1
    <3>1. x \in Nat
      OBVIOUS
    <3> HIDE DEF x
    <3>2. x \div size \in Nat /\ x = size * (x \div size) + (x % size) /\ x % size \in 0..(size - 1)
      BY <3>1
    <3> QED BY <3>2 DEF x
  <2> DEFINE m == (n + size - 1) % size
  <2> HIDE DEF m, k
  <2>2. size * k = at(k)
    BY <2>1
  <2> HIDE DEF at
  <2>3. n + size - 1 = at(k) + m /\ m \in 0..(size - 1) /\ at(k) \in Nat
    BY <1>2, <2>1, <2>2 DEF m, k
  <2>4. at(k) >= n
    BY <2>3
  <2>5. ASSUME NEW c \in Nat, c < k PROVE at(c) < n
    <3>1. at(c) + size <= at(k) /\ at(c) \in Nat
      BY <1>2, <2>1, <2>5 DEF k
    <3> QED BY <2>3, <3>1
  <2> QED BY <2>1, <2>4, <2>5 DEF k
<1> HIDE DEF rows, k
<1>4. parts = [c \in 1..k |-> SubSeq(rows, at(c - 1) + 1, SmallerOf(at(c), n))]
  <2>1. parts = [c \in 1..((n + size - 1) \div size) |->
                   SubSeq(rows, (c - 1) * size + 1, SmallerOf(c * size, n))]
    BY <1>1 DEF Split
  <2> QED BY <2>1 DEF k
<1>5. \A c : E(c) = SmallerOf(at(c), n)
  BY DEF EndOf
<1> HIDE DEF at, E, parts
<1>6. k # 0
  BY <1>2, <1>3
<1>7. E(0) = 0 /\ E(k) = n
  <2>1. E(0) = SmallerOf(0, n) /\ E(k) = SmallerOf(at(k), n)
    BY <1>2, <1>5
  <2>2. at(k) \in Nat /\ at(k) >= n
    BY <1>2, <1>3
  <2> DEFINE a == at(k)
  <2> HIDE DEF a
  <2>3. a \in Nat /\ a >= n
    BY <2>2 DEF a
  <2>4. SmallerOf(a, n) = n /\ SmallerOf(0, n) = 0
    BY <2>3 DEF SmallerOf
  <2> QED BY <2>1, <2>4 DEF a
<1>8. \A c \in 0..(k - 1) : E(c) = at(c) /\ E(c) \in Nat /\ E(c + 1) \in 1..n /\ E(c) < E(c + 1)
  <2> TAKE c \in 0..(k - 1)
  <2>1. c \in Nat /\ c < k /\ c + 1 \in Nat
    BY <1>3
  <2>2. at(c) < n /\ at(c) \in Nat /\ at(c + 1) = at(c) + size
    BY <1>2, <1>3, <2>1
  <2> QED BY <1>5, <2>2 DEF SmallerOf
<1>9. ASSUME NEW c \in 0..(k - 1) PROVE parts[c + 1] = [p \in 1..(E(c + 1) - E(c)) |-> E(c) + p]
  <2>1. c + 1 \in 1..k /\ (c + 1) - 1 = c
    BY <1>3
  <2>2. parts[c + 1] = SubSeq(rows, E(c) + 1, E(c + 1))
    BY <1>4, <1>5, <1>8, <2>1
  <2> DEFINE a == E(c)
             b == E(c + 1)
  <2>3. a \in Nat /\ b \in 1..n /\ a < b
    BY <1>8
  <2>4. parts[c + 1] = SubSeq(rows, a + 1, b)
    BY <2>2
  <2> HIDE DEF a, b
  <2>5. SubSeq(rows, a + 1, b) = [p \in 1..(b - (a + 1) + 1) |-> rows[(a + 1) + p - 1]]
    BY <2>3, SubSeqIs
  <2>6. b - (a + 1) + 1 = b - a /\ \A p \in 1..(b - a) : (a + 1) + p - 1 = a + p /\ a + p \in 1..n
    BY <2>3
  <2>7. \A p \in 1..(b - a) : rows[(a + 1) + p - 1] = a + p
    BY <1>1, <2>6
  <2>8. parts[c + 1] = [p \in 1..(b - a) |-> a + p]
    BY <2>4, <2>5, <2>6, <2>7
  <2> QED BY <2>8 DEF a, b
<1>10. parts \in Seq(Seq(1..n)) /\ Len(parts) = k
  <2>1. \A c \in 1..k : parts[c] \in Seq(1..n)
    <3> TAKE c \in 1..k
    <3>1. c - 1 \in 0..(k - 1) /\ (c - 1) + 1 = c
      BY <1>3
    <3> DEFINE a == E(c - 1)
               b == E((c - 1) + 1)
    <3>2. parts[c] = [p \in 1..(b - a) |-> a + p] /\ a \in Nat /\ b \in 1..n /\ a < b
      BY <1>8, <1>9, <3>1
    <3> HIDE DEF a, b
    <3>3. b - a \in Nat /\ \A p \in 1..(b - a) : a + p \in 1..n
      BY <3>2
    <3>4. parts[c] \in [1..(b - a) -> 1..n]
      BY <3>2, <3>3
    <3> QED BY <3>3, <3>4, EvaluatedIs
  <2>2. parts = [c \in 1..k |-> parts[c]]
    BY <1>4
  <2>3. parts \in [1..k -> Seq(1..n)]
    BY <2>1, <2>2
  <2> QED BY <1>3, <2>3, EvaluatedIs
<1> QED BY <1>3, <1>6, <1>7, <1>8, <1>9, <1>10 DEF Cut, Part, E, parts, rows

\* The parts from the (k + 1)-th on: the first, and the rest.
LEMMA RestOf ==
  ASSUME NEW S, NEW s \in Seq(S), NEW k \in 0..(Len(s) - 1)
  PROVE  LET t == SubSeq(s, k + 1, Len(s)) IN
         /\ Len(t) = Len(s) - k /\ t \in Seq(S) /\ Head(t) = s[k + 1]
         /\ Tail(t) = SubSeq(s, k + 2, Len(s)) /\ Len(Tail(t)) = Len(s) - (k + 1)
<1> DEFINE n == Len(s)
           t == SubSeq(s, k + 1, n)
<1>1. n \in Nat /\ k + 1 \in 1..n /\ n \in (k + 1)..n
  OBVIOUS
<1>2. \A i \in (k + 1)..n : s[i] \in S
  OBVIOUS
<1>3. t \in Seq(S) /\ Len(t) = IF k + 1 <= n THEN n - (k + 1) + 1 ELSE 0
  BY <1>1, <1>2, SubSeqProperties
<1>4. Head(t) = s[k + 1] /\ Tail(t) = SubSeq(s, (k + 1) + 1, n)
  BY <1>1, HeadTailOfSubSeq
<1>5. (k + 1) + 1 = k + 2 /\ n - (k + 1) + 1 = n - k /\ k + 1 <= n
  BY <1>1
<1> HIDE DEF t
<1>6. Len(t) = n - k
  BY <1>3, <1>5
<1>7. t # <<>>
  BY <1>1, <1>3, <1>6
<1>8. Len(Tail(t)) = Len(t) - 1
  BY <1>3, <1>7, HeadTailProperties
<1>9. Len(Tail(t)) = n - (k + 1)
  BY <1>1, <1>6, <1>8
<1> QED BY <1>3, <1>4, <1>5, <1>6, <1>9 DEF t

\* Consecutive pieces of g, of any lengths; the i-th ends at e[i].
Piece(g, x, y) == [a \in 1..(y - x) |-> g[x + a]]

\* The first n members.
Prefix(g, n) == [p \in 1..n |-> g[p]]

Pieces(s, g, e, k) ==
  /\ e \in [0..k -> Nat] /\ e[0] = 0
  /\ \A i \in 1..k : e[i - 1] <= e[i] /\ s[i] = Piece(g, e[i - 1], e[i])

LEMMA FlatCuts ==
  ASSUME NEW X, NEW k \in Nat, NEW s \in [1..k -> Seq(X)], NEW e, NEW g, Pieces(s, g, e, k)
  PROVE  FlattenSeq(s) = Prefix(g, e[k])
<1> DEFINE Good(d) == Flat(s, d) = [p \in 1..e[d] |-> g[p]]
           T == {d \in Nat : d <= k => Good(d)}
<1>1. 0 \in T
  <2>1. Flat(s, 0) = <<>>
    BY FlatStep
  <2>2. 1..e[0] = {}
    BY DEF Pieces
  <2>3. <<>> = [p \in {} |-> g[p]]
    OBVIOUS
  <2> QED BY <2>1, <2>2, <2>3
<1>2. ASSUME NEW d \in Nat, d \in T PROVE d + 1 \in T
  <2> SUFFICES ASSUME d + 1 <= k PROVE Good(d + 1)
    OBVIOUS
  <2> DEFINE F == Flat(s, d)
             G == Flat(s, d + 1)
             t == s[d + 1]
             x == e[d]
             y == e[d + 1]
  <2>1. d \in 0..k /\ d + 1 \in 1..k /\ (d + 1) - 1 = d
    OBVIOUS
  <2>2. F = [p \in 1..x |-> g[p]]
    BY <1>2, <2>1
  <2>3. x \in Nat /\ y \in Nat /\ x <= y /\ t = [a \in 1..(y - x) |-> g[x + a]]
    <3>1. e[(d + 1) - 1] <= e[d + 1] /\ s[d + 1] = Piece(g, e[(d + 1) - 1], e[d + 1])
      BY <2>1 DEF Pieces
    <3>2. x <= y /\ t = Piece(g, x, y)
      BY <2>1, <3>1
    <3>3. x \in Nat /\ y \in Nat
      <4>1. d + 1 \in 0..k
        BY <2>1
      <4> QED BY <2>1, <4>1 DEF Pieces
    <3> QED BY <3>2, <3>3 DEF Piece
  <2>4. Appends(F, t, G, X)
    BY <2>1, FlatAppends
  <2> HIDE DEF F, G, t, x, y
  <2>5. Len(F) = x
    <3>1. F = [p \in 1..x |-> F[p]] /\ F \in [1..x -> {F[p] : p \in 1..x}]
      BY <2>2
    <3> QED BY <2>3, <3>1, EvaluatedIs
  <2>6. Len(t) = y - x
    <3>1. t \in [1..(y - x) -> {t[p] : p \in 1..(y - x)}] /\ y - x \in Nat
      BY <2>3
    <3> QED BY <3>1, EvaluatedIs
  <2>7. Len(G) = y
    BY <2>3, <2>4, <2>5, <2>6 DEF Appends
  <2>8. \A p \in 1..y : G[p] = g[p]
    <3> TAKE p \in 1..y
    <3>1. CASE p <= x
      <4>1. p \in 1..x
        BY <2>3, <3>1
      <4> QED BY <2>2, <2>4, <2>5, <4>1 DEF Appends
    <3>2. CASE ~(p <= x)
      <4>1. p - x \in 1..(y - x) /\ x + (p - x) = p
        BY <2>3, <3>2
      <4>2. G[x + (p - x)] = t[p - x]
        BY <2>4, <2>5, <2>6, <4>1 DEF Appends
      <4>3. t[p - x] = g[x + (p - x)]
        BY <2>3, <4>1
      <4> QED BY <4>1, <4>2, <4>3
    <3> QED BY <3>1, <3>2
  <2>9. G = [p \in 1..y |-> G[p]]
    <3>1. G \in Seq(X)
      BY <2>4 DEF Appends
    <3>2. G = [p \in 1..Len(G) |-> G[p]]
      BY <3>1
    <3> QED BY <2>7, <3>2
  <2> QED BY <2>8, <2>9 DEF G, y
<1> HIDE DEF T
<1>3. k \in T
  BY <1>1, <1>2, Induct
<1>4. Good(k)
  BY <1>3 DEF T
<1>5. FlattenSeq(s) = Flat(s, k)
  BY FlatStep
<1> QED BY <1>4, <1>5 DEF Prefix

-----------------------------------------------------------------------------
(* Chunks *)

\* The rows of a batch from the g-th block of size rows.
Block(b, size, g) == [p \in 1..size |-> b[g * size + p]]

LEMMA ChunkIs ==
  ASSUME NEW b, Len(b) \in Nat, NEW k \in Nat \ {0}, NEW c \in 1..k
  PROVE  Chunk(b, k)[c] = Block(b, Len(b) \div k, c - 1)
<1> DEFINE n == Len(b)
           size == n \div k
           x == (c - 1) * size
           y == c * size
<1>1. n \in Nat /\ size \in Nat
  <2> HIDE DEF n
  <2>1. n \in Nat
    BY DEF n
  <2> QED BY <2>1
<1>2. x \in Nat /\ y \in Nat /\ y = x + size
  <2> HIDE DEF size
  <2>1. c - 1 \in Nat /\ c \in Nat /\ (c - 1) + 1 = c
    OBVIOUS
  <2>2. \A m \in Nat : (m + 1) * size = m * size + size /\ m * size \in Nat
    BY <1>1
  <2> QED BY <2>1, <2>2
<1>3. Chunk(b, k)[c] = SubSeq(b, x + 1, y)
  BY DEF Chunk
<1> HIDE DEF n, size, x, y
<1>4. SubSeq(b, x + 1, y) = [i \in 1..(y - (x + 1) + 1) |-> b[(x + 1) + i - 1]]
  BY <1>1, <1>2, SubSeqIs
<1>5. y - (x + 1) + 1 = size /\ \A i \in 1..size : (x + 1) + i - 1 = x + i
  BY <1>1, <1>2
<1>6. SubSeq(b, x + 1, y) = [i \in 1..size |-> b[x + i]]
  BY <1>4, <1>5
<1> QED BY <1>3, <1>6 DEF Block, n, size, x

\* The first n members of a sequence and another one.
LEMMA UnpadIs ==
  ASSUME NEW X, NEW s \in Seq(X), NEW t \in Seq(X)
  PROVE  Unpad(s \o t, Len(t)) = s
<1> DEFINE u == s \o t
<1>1. Len(u) = Len(s) + Len(t) /\ Len(s) \in Nat /\ Len(t) \in Nat /\ \A p \in 1..Len(s) : u[p] = s[p]
  OBVIOUS
<1> HIDE DEF u
<1>2. Unpad(u, Len(t)) = SubSeq(u, 1, Len(s))
  <2>1. Len(u) - Len(t) = Len(s)
    BY <1>1
  <2> QED BY <2>1 DEF Unpad
<1> DEFINE n == Len(s)
<1>3. n \in Nat /\ s = [p \in 1..n |-> s[p]]
  OBVIOUS
<1>4. \A p \in 1..n : u[p] = s[p]
  BY <1>1
<1> HIDE DEF n
<1>5. SubSeq(u, 1, n) = [i \in 1..(n - 1 + 1) |-> u[1 + i - 1]]
  BY <1>3, SubSeqIs
<1>6. n - 1 + 1 = n /\ \A i \in 1..n : 1 + i - 1 = i
  BY <1>3
<1>7. SubSeq(u, 1, n) = s
  BY <1>3, <1>4, <1>5, <1>6
<1> QED BY <1>2, <1>7 DEF u, n

-----------------------------------------------------------------------------
(* The number of micro-batches *)

\* n rows have at least n tokens, and at most n times those of the longest.
LEMMA WeightBounds ==
  ASSUME NEW n \in Nat, NEW lens \in [1..n -> Nat \ {0}], NEW m \in Nat, SpreadBound(lens, n, FALSE, m)
  PROVE  n <= Weight(lens, 1..n) /\ Weight(lens, 1..n) <= n * m /\ Weight(lens, 1..n) \in Nat
<1> DEFINE T == RowTokens(lens, 1..n)
<1>1. IsFiniteSet(T) /\ Weight(lens, 1..n) = Cardinality(T) /\ Weight(lens, 1..n) \in Nat
  <2>1. \A i \in 1..n : lens[i] \in Nat
    OBVIOUS
  <2>2. IsFiniteSet(T) /\ Weight(lens, 1..n) \in Nat
    BY <2>1, RowTokensFinite
  <2> QED BY <2>2 DEF Weight
<1>2. IsFiniteSet(1..n) /\ Cardinality(1..n) = n /\ IsFiniteSet(1..m) /\ Cardinality(1..m) = m
  <2>1. Cardinality(1..n) = IF 1 > n THEN 0 ELSE n - 1 + 1
    BY FS_Interval
  <2>2. Cardinality(1..m) = IF 1 > m THEN 0 ELSE m - 1 + 1
    BY FS_Interval
  <2>3. IsFiniteSet(1..n) /\ IsFiniteSet(1..m)
    BY FS_Interval
  <2> QED BY <2>1, <2>2, <2>3
<1>3. \A x : x \in T <=> \E i \in 1..n : \E t \in 1..lens[i] : x = <<i, t>>
  BY RowTokensMember
<1> HIDE DEF T
<1>4. n <= Cardinality(T)
  <2> DEFINE f == [i \in 1..n |-> <<i, 1>>]
  <2>1. \A i \in 1..n : f[i] \in T
    <3> TAKE i \in 1..n
    <3>1. 1 \in 1..lens[i] /\ f[i] = <<i, 1>>
      OBVIOUS
    <3> QED BY <1>3, <3>1
  <2>2. f \in Injection(1..n, T)
    BY <2>1 DEF Injection, IsInjective
  <2>3. Cardinality(1..n) <= Cardinality(T)
    BY <1>1, <2>2, FS_Injection DEF ExistsInjection
  <2> QED BY <1>2, <2>3
<1>5. Cardinality(T) <= n * m
  <2> DEFINE B == (1..n) \X (1..m)
  <2>1. IsFiniteSet(B) /\ Cardinality(B) = Cardinality(1..n) * Cardinality(1..m)
    BY <1>2, FS_Product
  <2>2. T \subseteq B
    <3> SUFFICES ASSUME NEW x \in T PROVE x \in B
      OBVIOUS
    <3>1. PICK i \in 1..n : \E t \in 1..lens[i] : x = <<i, t>>
      BY <1>3
    <3>2. PICK t \in 1..lens[i] : x = <<i, t>>
      BY <3>1
    <3>3. lens[i] <= m /\ lens[i] \in Nat
      BY DEF SpreadBound
    <3> DEFINE l == lens[i]
    <3>4. l <= m /\ l \in Nat /\ t \in 1..l
      BY <3>3
    <3> HIDE DEF l
    <3>5. t \in 1..m
      BY <3>4
    <3> QED BY <3>2, <3>5
  <2>3. Cardinality(T) <= Cardinality(B)
    BY <2>1, <2>2, FS_Subset
  <2> QED BY <1>2, <2>1, <2>3
<1> QED BY <1>1, <1>4, <1>5

\* A rank asks for a micro-batch per row at most, and for enough of them to
\* hold the tokens of all rows.
LEMMA NumEnough ==
  ASSUME NEW n \in Nat \ {0}, NEW lens \in [1..n -> Nat \ {0}], NEW m \in Nat \ {0},
         SpreadBound(lens, n, FALSE, m)
  PROVE  /\ NumMicroBatches(lens, m) \in 1..n
         /\ Weight(lens, 1..n) <= NumMicroBatches(lens, m) * m
<1> DEFINE w == Weight(lens, 1..n)
           q == CeilDiv(w, m)
           c == NumMicroBatches(lens, m)
<1>1. Len(lens) = n
  BY EvaluatedIs
<1>2. n <= w /\ w <= n * m /\ w \in Nat
  BY WeightBounds
<1>3. c = Min({n, q})
  BY <1>1, AllTokens DEF NumMicroBatches
<1> HIDE DEF w
<1>4. q \in Int /\ w <= q * m /\ q >= 1
  <2> DEFINE d == (-w) \div m
             z == (-w) % m
  <2>1. d \in Int /\ z \in 0..(m - 1) /\ -w = m * d + z
    <3> DEFINE x == -w
    <3>1. x \in Int
      BY <1>2
    <3> HIDE DEF x
    <3>2. x \div m \in Int /\ x % m \in 0..(m - 1) /\ x = m * (x \div m) + (x % m)
      BY <3>1
    <3> QED BY <3>2 DEF x
  <2>2. q = -d
    BY DEF CeilDiv
  <2> HIDE DEF d, z, q
  <2>3. (-d) * m = -(m * d)
    BY <2>1
  <2> DEFINE y == m * d
  <2>4. y \in Int
    BY <2>1
  <2>5. -w = y + z /\ q * m = -y
    BY <2>1, <2>2, <2>3
  <2> HIDE DEF y
  <2>6. w <= q * m /\ q \in Int
    BY <1>2, <2>1, <2>2, <2>4, <2>5
  <2>7. q >= 1
    <3> SUFFICES ASSUME ~(q >= 1) PROVE FALSE
      OBVIOUS
    <3>1. -q \in Nat
      BY <2>6
    <3>2. (-q) * m \in Nat /\ (-q) * m = -(q * m)
      BY <2>6, <3>1
    <3> QED BY <1>2, <2>4, <2>5, <2>6, <3>2
  <2> QED BY <2>6, <2>7
<1> HIDE DEF q
<1>5. c = n \/ c = q
  <2>1. PICK x \in {n, q} : \A y \in {n, q} : x <= y
    BY <1>4
  <2>2. Min({n, q}) \in {n, q}
    BY <2>1 DEF Min
  <2> QED BY <1>3, <2>2
<1>6. c <= n
  <2>1. \E x \in {n, q} : \A y \in {n, q} : x <= y
    BY <1>4
  <2>2. \A y \in {n, q} : Min({n, q}) <= y
    BY <2>1 DEF Min
  <2> QED BY <1>3, <2>2
<1> HIDE DEF c
<1>7. c \in 1..n
  BY <1>4, <1>5, <1>6
<1>8. w <= c * m
  BY <1>2, <1>4, <1>5
<1> QED BY <1>7, <1>8 DEF w, c

\* Micro-batches that have room for all tokens on average exceed it by the longest
\* row at most; rearrange_micro_batches promises no more about max_token_len.
THEOREM MicroBatchesFit ==
  ASSUME NEW n \in Nat, NEW k \in 1..n, NEW lens \in [1..n -> Nat \ {0}], NEW d \in Nat,
         SpreadBound(lens, n, FALSE, d), NEW m \in Nat, Weight(lens, 1..n) <= k * m
  PROVE  LET P == MicroBatches(lens, k)
         IN  Partitions(P, n, k) /\ \A i \in 1..k : Tokens(lens, P[i]) <= m + d
<1> DEFINE P == MicroBatches(lens, k)
<1>1. Partitions(P, n, k) /\ TokensWithin(lens, P, k, d)
  BY MicroBatchesCorrect
<1> HIDE DEF P
<1>2. k \in Nat \ {0}
  OBVIOUS
<1>3. PICK j \in 1..k : Tokens(lens, P[j]) <= m
  BY <1>1, <1>2, SomeSmallPart
<1>4. ASSUME NEW i \in 1..k PROVE Tokens(lens, P[i]) <= m + d
  <2> DEFINE a == Tokens(lens, P[i])
             b == Tokens(lens, P[j])
  <2>1. a \in Nat /\ b \in Nat /\ a <= b + d /\ b <= m
    BY <1>1, <1>3 DEF TokensWithin
  <2> HIDE DEF a, b
  <2>2. a <= m + d
    BY <2>1
  <2> QED BY <2>2 DEF a
<1> QED BY <1>1, <1>4 DEF P

-----------------------------------------------------------------------------
(* Rows named by positions *)

LEMMA FunctionLength ==
  ASSUME NEW n \in Nat, NEW f, f = [p \in 1..n |-> f[p]]
  PROVE  f \in Seq({f[p] : p \in 1..n}) /\ Len(f) = n
<1>1. f \in [1..n -> {f[p] : p \in 1..n}]
  OBVIOUS
<1> QED BY <1>1, EvaluatedIs

\* c holds the x members of a and then the y members of b.
Joining(a, x, b, y, c) ==
  /\ a = [p \in 1..x |-> a[p]]
  /\ b = [p \in 1..y |-> b[p]]
  /\ c = [p \in 1..(x + y) |-> c[p]]
  /\ \A p \in 1..x : c[p] = a[p]
  /\ \A p \in 1..y : c[x + p] = b[p]

\* A sequence is two others joined when its members are theirs.
LEMMA JoinedIs ==
  ASSUME NEW x \in Nat, NEW y \in Nat, NEW a, NEW b, NEW c, Joining(a, x, b, y, c)
  PROVE  a \o b = c
<1> USE DEF Joining
<1> DEFINE X == {a[p] : p \in 1..x} \cup {b[p] : p \in 1..y}
<1>1. a \in [1..x -> X] /\ b \in [1..y -> X]
  OBVIOUS
<1> HIDE DEF X
<1>2. a \in Seq(X) /\ Len(a) = x /\ b \in Seq(X) /\ Len(b) = y
  BY <1>1, EvaluatedIs
<1> DEFINE d == a \o b
<1>3. /\ d = [p \in 1..(x + y) |-> d[p]]
      /\ \A p \in 1..x : d[p] = a[p]
      /\ \A p \in 1..y : d[x + p] = b[p]
  <2>1. Len(d) = x + y /\ d \in Seq(X)
    BY <1>2
  <2>2. \A p \in 1..x : d[p] = a[p]
    BY <1>2
  <2>3. \A p \in 1..y : d[x + p] = b[p]
    BY <1>2
  <2>4. d = [p \in 1..Len(d) |-> d[p]]
    BY <2>1
  <2> QED BY <2>1, <2>2, <2>3, <2>4
<1> HIDE DEF d
<1>4. \A p \in 1..(x + y) : d[p] = c[p]
  <2> TAKE p \in 1..(x + y)
  <2>1. CASE p <= x
    <3>1. p \in 1..x
      BY <2>1
    <3> QED BY <1>3, <3>1
  <2>2. CASE ~(p <= x)
    <3>1. p - x \in 1..y /\ x + (p - x) = p
      BY <2>2
    <3> QED BY <1>3, <3>1, ZenonT(30)
  <2> QED BY <2>1, <2>2
<1>5. d = c
  BY <1>3, <1>4
<1> QED BY <1>5 DEF d

LEMMA MapAppends ==
  ASSUME NEW X, NEW f, NEW t, NEW g, Appends(f, t, g, X), NEW h
  PROVE  Image(h, g) = Image(h, f) \o Image(h, t)
<1> DEFINE x == Len(f)
           y == Len(t)
           a == [p \in 1..x |-> h[f[p]]]
           b == [p \in 1..y |-> h[t[p]]]
           c == [p \in 1..(x + y) |-> h[g[p]]]
<1>1. x \in Nat /\ y \in Nat
  BY DEF Appends
<1>2. /\ Len(g) = x + y
      /\ \A p \in 1..x : g[p] = f[p]
      /\ \A p \in 1..y : g[x + p] = t[p]
  BY DEF Appends
<1> HIDE DEF x, y
<1>3. /\ \A p \in 1..x : p \in 1..(x + y)
      /\ \A p \in 1..y : x + p \in 1..(x + y)
  BY <1>1
<1>4. \A p \in 1..x : c[p] = a[p]
  BY <1>2, <1>3
<1>5. \A p \in 1..y : c[x + p] = b[p]
  BY <1>2, <1>3
<1>6. a = [p \in 1..x |-> a[p]] /\ b = [p \in 1..y |-> b[p]] /\ c = [p \in 1..(x + y) |-> c[p]]
  OBVIOUS
<1> HIDE DEF a, b, c
<1>7. Joining(a, x, b, y, c)
  BY <1>4, <1>5, <1>6 DEF Joining
<1>8. a \o b = c
  BY <1>1, <1>7, JoinedIs
<1> QED BY <1>2, <1>8 DEF a, b, c, x, y, Image

=============================================================================
