-------------------------- MODULE Market_proofs ---------------------------
(***************************************************************************)
(* The order book a browser is shown is the exchange's, whatever the stream*)
(* loses and however late a snapshot is; and the walk of a book executes   *)
(* an order at the best the visible levels allow.                          *)
(***************************************************************************)
EXTENDS MarketHub, MarketFill, FiniteSetTheorems, WellFoundedInduction, TLAPS

-----------------------------------------------------------------------------
(* Folds.  The facts are proved by induction: a smallest set on which a    *)
(* fact fails is shown not to exist.                                       *)

\* A set of subsets of a finite set has a smallest member.
LEMMA SmallestSubset ==
  ASSUME NEW S, IsFiniteSet(S), NEW T, T \subseteq SUBSET S, T # {}
  PROVE  \E s \in T : \A x \in s : s \ {x} \notin T
  <1>1. IsWellFoundedOn(StrictSubsetOrdering(S), SUBSET S)
    BY FS_StrictSubsetOrderingWellFounded, FS_FiniteSubsetsOfFinite
  <1>2. PICK s \in T : \A t \in T : <<t, s>> \notin StrictSubsetOrdering(S)
    BY <1>1, WFMin
  <1>3. \A x \in s : <<s \ {x}, s>> \in StrictSubsetOrdering(S)
    BY <1>2 DEF StrictSubsetOrdering
  <1> QED
    BY <1>2, <1>3

\* A finite set of numbers has a greatest and a least.
LEMMA MaxIn ==
  ASSUME NEW S \in SUBSET Nat, IsFiniteSet(S), S # {}
  PROVE  Max(S) \in S /\ \A y \in S : y <= Max(S)
  <1> DEFINE HasMax(s) == \E x \in s : \A y \in s : x >= y
             T == {s \in SUBSET S : s # {} /\ ~HasMax(s)}
  <1>1. T = {}
    <2> SUFFICES ASSUME T # {} PROVE FALSE
      OBVIOUS
    <2>1. PICK s \in T : \A x \in s : s \ {x} \notin T
      BY SmallestSubset
    <2>2. PICK x \in s : TRUE
      BY <2>1
    <2>3. CASE s \ {x} = {}
      BY <2>1, <2>2, <2>3
    <2>4. CASE s \ {x} # {}
      <3>1. PICK z \in s \ {x} : \A y \in s \ {x} : z >= y
        BY <2>1, <2>2, <2>4
      <3>2. \A y \in s : x >= y \/ z >= y
        BY <2>1, <2>2, <3>1
      <3>3. CASE x >= z
        BY <2>1, <2>2, <3>1, <3>2, <3>3
      <3>4. CASE z >= x
        BY <2>1, <2>2, <3>1, <3>2, <3>4
      <3> QED
        BY <2>1, <2>2, <3>1, <3>3, <3>4
    <2> QED
      BY <2>3, <2>4
  <1>2. HasMax(S)
    BY <1>1
  <1>3. Max(S) \in S /\ \A y \in S : Max(S) >= y
    BY <1>2 DEF Max
  <1> QED
    BY <1>3

LEMMA MinIn ==
  ASSUME NEW S \in SUBSET Nat, IsFiniteSet(S), S # {}
  PROVE  Min(S) \in S /\ \A y \in S : Min(S) <= y
  <1> DEFINE HasMin(s) == \E x \in s : \A y \in s : x <= y
             T == {s \in SUBSET S : s # {} /\ ~HasMin(s)}
  <1>1. T = {}
    <2> SUFFICES ASSUME T # {} PROVE FALSE
      OBVIOUS
    <2>1. PICK s \in T : \A x \in s : s \ {x} \notin T
      BY SmallestSubset
    <2>2. PICK x \in s : TRUE
      BY <2>1
    <2>3. CASE s \ {x} = {}
      BY <2>1, <2>2, <2>3
    <2>4. CASE s \ {x} # {}
      <3>1. PICK z \in s \ {x} : \A y \in s \ {x} : z <= y
        BY <2>1, <2>2, <2>4
      <3>2. CASE x <= z
        BY <2>1, <2>2, <3>1, <3>2
      <3>3. CASE z <= x
        BY <2>1, <2>2, <3>1, <3>3
      <3> QED
        BY <2>1, <2>2, <3>1, <3>2, <3>3
    <2> QED
      BY <2>3, <2>4
  <1>2. HasMin(S)
    BY <1>1
  <1> QED
    BY <1>2 DEF Min

\* c chooses an element of every non-empty subset of D.
Chooses(c, D) == \A s \in SUBSET D : s # {} => c[s] \in s

LEMMA Misses == ASSUME NEW S, NEW s \in SUBSET S, s # S PROVE \E x \in S : s \subseteq S \ {x}
  OBVIOUS

\* The function a fold defines by recursion: b for the empty set, and F of the
\* chosen element c[s] and of the fold of the rest.
FoldsTo(g, S, c, V, b, F) ==
  /\ g \in [SUBSET S -> V]
  /\ \A s \in SUBSET S : g[s] = IF s = {} THEN b ELSE F[<<c[s], g[s \ {c[s]}]>>]

TheFold(S, c, V, b, F) == CHOOSE g : FoldsTo(g, S, c, V, b, F)

LEMMA FoldsAgree ==
  ASSUME NEW D, IsFiniteSet(D), NEW S, S \subseteq D, NEW c, NEW V, NEW b, NEW F,
         Chooses(c, D), NEW g, FoldsTo(g, D, c, V, b, F), NEW h, FoldsTo(h, S, c, V, b, F)
  PROVE  \A s \in SUBSET S : g[s] = h[s]
  <1> DEFINE T == {s \in SUBSET S : g[s] # h[s]}
  <1> SUFFICES ASSUME T # {} PROVE FALSE
    OBVIOUS
  <1>1. IsFiniteSet(S)
    BY FS_Subset
  <1>2. PICK s \in T : \A x \in s : s \ {x} \notin T
    BY <1>1, SmallestSubset
  <1>3. /\ g[s] = IF s = {} THEN b ELSE F[<<c[s], g[s \ {c[s]}]>>]
        /\ h[s] = IF s = {} THEN b ELSE F[<<c[s], h[s \ {c[s]}]>>]
    <2>1. s \in SUBSET S /\ s \in SUBSET D
      BY <1>2
    <2> QED
      BY <2>1 DEF FoldsTo
  <1>4. s # {} => g[s \ {c[s]}] = h[s \ {c[s]}]
    BY <1>2 DEF Chooses
  <1> QED
    BY <1>2, <1>3, <1>4

LEMMA FoldsRestrict ==
  ASSUME NEW D, NEW S, S \subseteq D, NEW c, NEW V, NEW b, NEW F,
         NEW g, FoldsTo(g, D, c, V, b, F)
  PROVE  FoldsTo([s \in SUBSET S |-> g[s]], S, c, V, b, F)
  <1> DEFINE h == [s \in SUBSET S |-> g[s]]
  <1>1. ASSUME NEW s \in SUBSET S
        PROVE  h[s] = IF s = {} THEN b ELSE F[<<c[s], h[s \ {c[s]}]>>]
    BY DEF FoldsTo
  <1>2. h \in [SUBSET S -> V]
    BY DEF FoldsTo
  <1> QED
    BY <1>1, <1>2 DEF FoldsTo

LEMMA FoldExists ==
  ASSUME NEW D, IsFiniteSet(D), NEW c, NEW V, NEW b \in V, NEW F \in [D \X V -> V],
         Chooses(c, D)
  PROVE  \E g : FoldsTo(g, D, c, V, b, F)
  <1> DEFINE Fold(S) == TheFold(S, c, V, b, F)
             T == {S \in SUBSET D : ~ \E g : FoldsTo(g, S, c, V, b, F)}
  <1> SUFFICES ASSUME T # {} PROVE FALSE
    OBVIOUS
  <1>1. PICK S \in T : \A x \in S : S \ {x} \notin T
    BY SmallestSubset
  <1>2. CASE S = {}
    <2>1. FoldsTo([s \in SUBSET S |-> b], S, c, V, b, F)
      BY <1>2 DEF FoldsTo
    <2> QED
      BY <1>1, <2>1
  <1>3. CASE S # {}
    <2> DEFINE W(s) == Fold(s)[s]
               G == [s \in SUBSET S |-> IF s = {} THEN b ELSE F[<<c[s], W(s \ {c[s]})>>]]
    <2>1. ASSUME NEW s \in SUBSET S, s # S PROVE FoldsTo(Fold(s), s, c, V, b, F)
      <3>1. PICK x \in S : s \subseteq S \ {x}
        BY <2>1, Misses
      <3>2. PICK g : FoldsTo(g, S \ {x}, c, V, b, F)
        BY <1>1
      <3>3. FoldsTo([t \in SUBSET s |-> g[t]], s, c, V, b, F)
        <4>1. s \subseteq S \ {x}
          BY <3>1
        <4> QED
          BY <4>1, <3>2, FoldsRestrict
      <3> QED
        BY <3>3 DEF TheFold
    <2>2. ASSUME NEW s \in SUBSET S, s # S PROVE W(s) = G[s] /\ W(s) \in V
      <3>1. W(s) \in V
        <4>1. FoldsTo(Fold(s), s, c, V, b, F)
          BY <2>1, <2>2
        <4> QED
          BY <4>1 DEF FoldsTo
      <3>2. CASE s = {}
        <4>1. FoldsTo(Fold(s), s, c, V, b, F)
          BY <2>1, <2>2
        <4>2. W(s) = b
          BY <4>1, <3>2 DEF FoldsTo
        <4> QED
          BY <3>1, <3>2, <4>2
      <3>3. CASE s # {}
        <4> DEFINE t == s \ {c[s]}
        <4>1. t \subseteq s /\ t \in SUBSET S /\ t # S
          BY <2>2, <3>3 DEF Chooses
        <4>2. FoldsTo(Fold(s), s, c, V, b, F) /\ FoldsTo(Fold(t), t, c, V, b, F)
          BY <2>1, <2>2, <4>1
        <4>3. IsFiniteSet(s) /\ Chooses(c, s)
          BY FS_Subset DEF Chooses
        <4>4. Fold(s)[t] = W(t)
          BY <4>1, <4>2, <4>3, FoldsAgree
        <4>5. W(s) = F[<<c[s], Fold(s)[t]>>]
          BY <3>3, <4>2 DEF FoldsTo
        <4> QED
          BY <2>2, <3>1, <3>3, <4>4, <4>5
      <3> QED
        BY <3>2, <3>3
    <2>3. ASSUME NEW s \in SUBSET S, s # {} PROVE s \ {c[s]} \in SUBSET S /\ s \ {c[s]} # S /\ c[s] \in D
      BY <2>3 DEF Chooses
    <2>4. G \in [SUBSET S -> V]
      BY <2>2, <2>3
    <2>5. ASSUME NEW s \in SUBSET S
          PROVE  G[s] = IF s = {} THEN b ELSE F[<<c[s], G[s \ {c[s]}]>>]
      BY <2>2, <2>3
    <2>6. FoldsTo(G, S, c, V, b, F)
      BY <2>4, <2>5 DEF FoldsTo
    <2> QED
      BY <1>1, <2>6
  <1> QED
    BY <1>2, <1>3

LEMMA NumbersAreFinite ==
  ASSUME NEW n \in Nat, NEW s \in SUBSET (0 .. n)
  PROVE  IsFiniteSet(s) /\ s \in SUBSET Nat
  <1>1. IsFiniteSet(0 .. n)
    BY FS_Interval
  <1>2. IsFiniteSet(s)
    BY <1>1, FS_Subset
  <1>3. 0 .. n \subseteq Nat
    OBVIOUS
  <1> QED
    BY <1>2, <1>3

\* A fold of a sequence takes its greatest index last: it goes from left to right.
Lasts(n) == [s \in SUBSET (1 .. n) |-> Max(s)]

LEMMA PrefixFold ==
  ASSUME NEW n \in Nat, NEW V, NEW b \in V, NEW F \in [(1 .. n) \X V -> V]
  PROVE  \E g : FoldsTo(g, 1 .. n, Lasts(n), V, b, F)
  <1> DEFINE D == 1 .. n
             c == Lasts(n)
  <1>1. IsFiniteSet(D)
    BY FS_Interval
  <1>2. ASSUME NEW s \in SUBSET D, s # {} PROVE c[s] \in s
    <2>1. s \in SUBSET (0 .. n)
      OBVIOUS
    <2>2. IsFiniteSet(s) /\ s \in SUBSET Nat
      BY <2>1, NumbersAreFinite
    <2> QED
      BY <1>2, <2>2, MaxIn DEF Lasts
  <1>3. Chooses(c, D)
    BY <1>2 DEF Chooses
  <1> QED
    BY <1>1, <1>3, FoldExists

LEMMA PrefixOfNumbers ==
  ASSUME NEW n \in Nat, NEW k \in 1 .. n
  PROVE  /\ 1 .. k \in SUBSET (1 .. n) /\ 1 .. (k - 1) \in SUBSET (1 .. n)
         /\ 1 .. k # {} /\ Max(1 .. k) = k /\ (1 .. k) \ {k} = 1 .. (k - 1)
  <1>1. IsFiniteSet(1 .. k) /\ 1 .. k # {} /\ 1 .. k \in SUBSET Nat /\ k \in 1 .. k
    <2>1. k \in Nat /\ 1 .. k \in SUBSET (0 .. k) /\ k \in 1 .. k
      OBVIOUS
    <2> QED
      BY <2>1, NumbersAreFinite
  <1>2. Max(1 .. k) \in 1 .. k /\ k <= Max(1 .. k)
    BY <1>1, MaxIn
  <1>3. Max(1 .. k) = k
    BY <1>2
  <1> QED
    BY <1>1, <1>3

\* A set of numbers has a member without a predecessor in it.
LEMMA SmallestNumber ==
  ASSUME NEW n \in Nat, NEW T \in SUBSET (0 .. n), T # {}
  PROVE  \E k \in T : k = 0 \/ (k \in 1 .. n /\ k - 1 \in 0 .. n /\ k - 1 \notin T)
  <1>1. IsFiniteSet(T) /\ T \in SUBSET Nat
    BY NumbersAreFinite
  <1>2. PICK k \in T : \A j \in T : k <= j
    BY <1>1, MinIn
  <1>3. k \in 0 .. n /\ (k # 0 => k - 1 \in 0 .. n /\ k \in 1 .. n)
    BY <1>2
  <1>4. k # 0 => k - 1 \notin T
    BY <1>2, <1>3
  <1> QED
    BY <1>2, <1>3, <1>4

\* Adding up a sequence.
LEMMA TotalFold ==
  ASSUME NEW f \in Seq(Int)
  PROVE  \E h \in [0 .. Len(f) -> Int] :
             /\ h[0] = 0
             /\ \A k \in 1 .. Len(f) : h[k] = h[k - 1] + f[k]
             /\ Total(f) = h[Len(f)]
  <1> DEFINE n == Len(f)
             F == [p \in (1 .. n) \X Int |-> p[2] + f[p[1]]]
             Sum(g) == g = [s \in SUBSET DOMAIN f |->
                               IF s = {} THEN 0 ELSE g[s \ {Max(s)}] + f[Max(s)]]
             g == CHOOSE g : Sum(g)
  <1>1. n \in Nat /\ DOMAIN f = 1 .. n /\ \A k \in 1 .. n : f[k] \in Int
    OBVIOUS
  <1> HIDE DEF n
  <1>2. F \in [(1 .. n) \X Int -> Int]
    BY <1>1
  <1>3. \E x : Sum(x) /\ x \in [SUBSET (1 .. n) -> Int]
    <2> HIDE DEF F
    <2>1. PICK x : FoldsTo(x, 1 .. n, Lasts(n), Int, 0, F)
      <3>1. n \in Nat /\ 0 \in Int
        BY <1>1
      <3> QED
        BY <1>2, <3>1, PrefixFold
    <2>2. /\ x \in [SUBSET (1 .. n) -> Int]
          /\ \A s \in SUBSET (1 .. n) :
                 x[s] = IF s = {} THEN 0 ELSE F[<<Max(s), x[s \ {Max(s)}]>>]
      BY <2>1 DEF FoldsTo, Lasts
    <2>3. ASSUME NEW s \in SUBSET (1 .. n), s # {}
          PROVE  F[<<Max(s), x[s \ {Max(s)}]>>] = x[s \ {Max(s)}] + f[Max(s)]
      <3>1. IsFiniteSet(s) /\ s \in SUBSET Nat
        <4>1. s \in SUBSET (0 .. n)
          BY <1>1
        <4> QED
          BY <1>1, <4>1, NumbersAreFinite
      <3>2. Max(s) \in 1 .. n
        BY <2>3, <3>1, MaxIn
      <3>3. x[s \ {Max(s)}] \in Int
        BY <2>2
      <3> QED
        BY <3>2, <3>3 DEF F
    <2>4. Sum(x)
      BY <1>1, <2>2, <2>3
    <2> QED
      BY <2>4, <2>2
  <1>4. Sum(g) /\ Total(f) = g[1 .. n]
    BY <1>1, <1>3 DEF Total, FoldLeft, MapThenFoldSet
  <1> HIDE DEF g, F
  <1>5. g[{}] = 0 /\ \A k \in 1 .. n : g[1 .. k] = g[1 .. (k - 1)] + f[k]
    <2>1. g[{}] = 0
      BY <1>4
    <2>2. ASSUME NEW k \in 1 .. n PROVE g[1 .. k] = g[1 .. (k - 1)] + f[k]
      <3>1. /\ 1 .. k \in SUBSET (1 .. n) /\ 1 .. k # {}
            /\ Max(1 .. k) = k /\ (1 .. k) \ {k} = 1 .. (k - 1)
        BY <1>1, PrefixOfNumbers
      <3> QED
        BY <1>1, <1>4, <3>1
    <2> QED
      BY <2>1, <2>2
  <1> DEFINE h == [k \in 0 .. n |-> g[1 .. k]]
  <1>6. h[0] = 0 /\ \A k \in 1 .. n : h[k] = h[k - 1] + f[k]
    <2>1. 1 .. 0 = {}
      OBVIOUS
    <2> QED
      BY <1>1, <1>5, <2>1
  <1>7. \A k \in 0 .. n : h[k] \in Int
    <2> SUFFICES ASSUME NEW k \in 0 .. n, h[k] \notin Int PROVE FALSE
      OBVIOUS
    <2> DEFINE Bad == {j \in 0 .. n : h[j] \notin Int}
    <2> HIDE DEF h
    <2>1. Bad # {} /\ Bad \in SUBSET (0 .. n)
      OBVIOUS
    <2>2. PICK j \in Bad : j = 0 \/ (j \in 1 .. n /\ j - 1 \in 0 .. n /\ j - 1 \notin Bad)
      BY <1>1, <2>1, SmallestNumber
    <2> QED
      BY <1>1, <1>6, <2>2
  <1>8. h \in [0 .. n -> Int]
    BY <1>7
  <1>9. Total(f) = h[n]
    BY <1>1, <1>4
  <1> QED
    BY <1>6, <1>8, <1>9 DEF n

\* Whatever adds up step by step is the total.
LEMMA TotalIs ==
  ASSUME NEW f \in Seq(Int), NEW h, h[0] = 0,
         \A k \in 1 .. Len(f) : h[k] = h[k - 1] + f[k]
  PROVE  Total(f) = h[Len(f)] /\ Total(f) \in Int
  <1>1. PICK g \in [0 .. Len(f) -> Int] :
          /\ g[0] = 0
          /\ \A k \in 1 .. Len(f) : g[k] = g[k - 1] + f[k]
          /\ Total(f) = g[Len(f)]
    BY TotalFold
  <1>2. Len(f) \in Nat
    OBVIOUS
  <1> DEFINE n == Len(f)
             Bad == {k \in 0 .. n : g[k] # h[k]}
  <1>3. Bad = {}
    <2> SUFFICES ASSUME Bad # {} PROVE FALSE
      OBVIOUS
    <2>1. Bad \in SUBSET (0 .. n)
      OBVIOUS
    <2>2. PICK j \in Bad : j = 0 \/ (j \in 1 .. n /\ j - 1 \in 0 .. n /\ j - 1 \notin Bad)
      BY <1>2, <2>1, SmallestNumber
    <2> QED
      BY <1>1, <2>2
  <1> QED
    BY <1>1, <1>2, <1>3

LEMMA TotalAppend ==
  ASSUME NEW f \in Seq(Int), NEW x \in Int
  PROVE  Total(Append(f, x)) = Total(f) + x
  <1>1. PICK h \in [0 .. Len(f) -> Int] :
          /\ h[0] = 0
          /\ \A k \in 1 .. Len(f) : h[k] = h[k - 1] + f[k]
          /\ Total(f) = h[Len(f)]
    BY TotalFold
  <1> DEFINE a == Append(f, x)
             n == Len(f)
             e == [k \in 0 .. n + 1 |-> IF k <= n THEN h[k] ELSE h[n] + x]
  <1>2. /\ n \in Nat /\ a \in Seq(Int) /\ Len(a) = n + 1
        /\ \A k \in 1 .. n : a[k] = f[k]
        /\ a[n + 1] = x
    OBVIOUS
  <1>3. e[0] = 0 /\ \A k \in 1 .. Len(a) : e[k] = e[k - 1] + a[k]
    <2> HIDE DEF a, n
    <2>1. e[0] = 0
      BY <1>1, <1>2
    <2>2. \A k \in 1 .. n : e[k] = e[k - 1] + a[k]
      BY <1>1, <1>2 DEF n
    <2>3. e[n + 1] = e[n] + a[n + 1]
      BY <1>2
    <2>4. \A k \in 1 .. n + 1 : k \in 1 .. n \/ k = n + 1
      BY <1>2
    <2>5. (n + 1) - 1 = n
      BY <1>2
    <2> QED
      BY <1>2, <2>1, <2>2, <2>3, <2>4, <2>5
  <1>4. Total(a) = e[n + 1]
    <2> HIDE DEF e, a, n
    <2> QED
      BY <1>2, <1>3, TotalIs
  <1> QED
    BY <1>1, <1>2, <1>4

\* Elements that are 0 add nothing.
LEMMA TotalPadded ==
  ASSUME NEW f \in Seq(Int), NEW n \in Nat, Len(f) <= n, NEW g \in Seq(Int), Len(g) = n,
         \A k \in 1 .. n : g[k] = IF k <= Len(f) THEN f[k] ELSE 0
  PROVE  Total(g) = Total(f)
  <1>1. PICK h \in [0 .. Len(f) -> Int] :
          /\ h[0] = 0
          /\ \A k \in 1 .. Len(f) : h[k] = h[k - 1] + f[k]
          /\ Total(f) = h[Len(f)]
    BY TotalFold
  <1> DEFINE m == Len(f)
             e == [k \in 0 .. n |-> IF k <= m THEN h[k] ELSE h[m]]
  <1>2. m \in Nat /\ m <= n
    OBVIOUS
  <1> HIDE DEF m
  <1>3. e[0] = 0 /\ e[n] = h[m]
    BY <1>1, <1>2
  <1>4. ASSUME NEW k \in 1 .. n PROVE e[k] = e[k - 1] + g[k]
    <2>1. CASE k <= m
      <3>1. k \in 1 .. m /\ k - 1 \in 0 .. n /\ k - 1 <= m
        BY <1>2, <2>1
      <3>2. h[k] = h[k - 1] + f[k] /\ g[k] = f[k]
        BY <1>1, <2>1, <3>1 DEF m
      <3> QED
        BY <2>1, <3>1, <3>2
    <2>2. CASE k > m
      <3>1. e[k] = h[m] /\ h[m] \in Int /\ k - 1 \in 0 .. n
        BY <1>1, <1>2, <2>2 DEF m
      <3>2. e[k - 1] = h[m]
        <4>1. k - 1 <= m => k - 1 = m
          BY <1>2, <2>2
        <4> QED
          BY <3>1, <4>1
      <3>3. g[k] = 0
        BY <1>2, <2>2 DEF m
      <3> QED
        BY <3>1, <3>2, <3>3
    <2> QED
      BY <1>2, <2>1, <2>2
  <1>5. Total(g) = e[n]
    <2> HIDE DEF e
    <2> QED
      BY <1>3, <1>4, TotalIs
  <1> QED
    BY <1>1, <1>3, <1>5 DEF m

LEMMA TotalInt == ASSUME NEW f \in Seq(Int) PROVE Total(f) \in Int
  <1>1. PICK h \in [0 .. Len(f) -> Int] : Total(f) = h[Len(f)]
    BY TotalFold
  <1> QED
    BY <1>1

LEMMA CompareStep ==
  ASSUME NEW p \in Int, NEW a \in Int, NEW b \in Int, NEW c \in Int, NEW d \in Int,
         NEW u \in Int, NEW v \in Int, NEW x \in Int, NEW y \in Int,
         p * (a - b) <= c - d, p * (u - v) <= x - y
  PROVE  p * ((a + u) - (b + v)) <= (c + x) - (d + y)
  <1>1. p * ((a + u) - (b + v)) = p * (a - b) + p * (u - v)
    OBVIOUS
  <1>2. p * (a - b) \in Int /\ p * (u - v) \in Int
    OBVIOUS
  <1> QED
    BY <1>1, <1>2

\* If every element of c exceeds that of d by p times what f has more than g,
\* so do the totals.
LEMMA TotalsCompare ==
  ASSUME NEW n \in Nat, NEW p \in Int,
         NEW c \in Seq(Int), NEW d \in Seq(Int), NEW f \in Seq(Int), NEW g \in Seq(Int),
         Len(c) = n, Len(d) = n, Len(f) = n, Len(g) = n,
         \A k \in 1 .. n : p * (f[k] - g[k]) <= c[k] - d[k]
  PROVE  p * (Total(f) - Total(g)) <= Total(c) - Total(d)
  <1> DEFINE Sums(q, h) == /\ h[0] = 0 /\ h \in [0 .. n -> Int]
                           /\ \A k \in 1 .. n : h[k] = h[k - 1] + q[k]
                           /\ Total(q) = h[n]
  <1>1. PICK cs : Sums(c, cs)
    BY TotalFold
  <1>2. PICK ds : Sums(d, ds)
    BY TotalFold
  <1>3. PICK fs : Sums(f, fs)
    BY TotalFold
  <1>4. PICK gs : Sums(g, gs)
    BY TotalFold
  <1> DEFINE Holds(k) == p * (fs[k] - gs[k]) <= cs[k] - ds[k]
             Bad == {k \in 0 .. n : ~Holds(k)}
  <1>5. Bad = {}
    <2> SUFFICES ASSUME Bad # {} PROVE FALSE
      OBVIOUS
    <2>1. Bad \in SUBSET (0 .. n)
      OBVIOUS
    <2>2. PICK j \in Bad : j = 0 \/ (j \in 1 .. n /\ j - 1 \in 0 .. n /\ j - 1 \notin Bad)
      BY <2>1, SmallestNumber
    <2>3. CASE j = 0
      <3>1. p * (0 - 0) <= 0 - 0
        OBVIOUS
      <3> QED
        BY <1>1, <1>2, <1>3, <1>4, <2>2, <2>3, <3>1
    <2>4. CASE j # 0
      <3>1. j \in 1 .. n /\ j - 1 \in 0 .. n /\ Holds(j - 1)
        BY <2>2, <2>4
      <3>2. /\ cs[j] = cs[j - 1] + c[j] /\ ds[j] = ds[j - 1] + d[j]
            /\ fs[j] = fs[j - 1] + f[j] /\ gs[j] = gs[j - 1] + g[j]
        BY <1>1, <1>2, <1>3, <1>4, <3>1
      <3>3. /\ cs[j - 1] \in Int /\ ds[j - 1] \in Int /\ fs[j - 1] \in Int /\ gs[j - 1] \in Int
            /\ c[j] \in Int /\ d[j] \in Int /\ f[j] \in Int /\ g[j] \in Int
        BY <1>1, <1>2, <1>3, <1>4, <3>1
      <3>4. p * (f[j] - g[j]) <= c[j] - d[j]
        BY <3>1
      <3>5. p * ((fs[j - 1] + f[j]) - (gs[j - 1] + g[j]))
              <= (cs[j - 1] + c[j]) - (ds[j - 1] + d[j])
        <4>1. p * (fs[j - 1] - gs[j - 1]) <= cs[j - 1] - ds[j - 1]
          BY <3>1
        <4> HIDE DEF Holds, Bad
        <4> QED
          BY <3>3, <3>4, <4>1, CompareStep
      <3>6. Holds(j)
        BY <3>2, <3>5
      <3> QED
        BY <2>2, <3>6
    <2> QED
      BY <2>3, <2>4
  <1>6. Holds(n)
    <2>1. n \in 0 .. n
      OBVIOUS
    <2> HIDE DEF Holds
    <2> QED
      BY <1>5, <2>1
  <1> QED
    BY <1>1, <1>2, <1>3, <1>4, <1>6

LEMMA TotalMonotone ==
  ASSUME NEW n \in Nat, NEW f \in Seq(Int), NEW g \in Seq(Int), Len(f) = n, Len(g) = n,
         \A k \in 1 .. n : f[k] <= g[k]
  PROVE  Total(f) <= Total(g)
  <1>1. \A k \in 1 .. n : f[k] \in Int /\ g[k] \in Int
    OBVIOUS
  <1>2. \A k \in 1 .. n : 0 * (f[k] - f[k]) <= g[k] - f[k]
    BY <1>1
  <1>3. 0 * (Total(f) - Total(f)) <= Total(g) - Total(f)
    <2> DEFINE zero == 0
    <2>1. zero \in Int /\ \A k \in 1 .. n : zero * (f[k] - f[k]) <= g[k] - f[k]
      BY <1>2
    <2> HIDE DEF zero
    <2>2. zero * (Total(f) - Total(f)) <= Total(g) - Total(f)
      BY <2>1, TotalsCompare
    <2> QED
      BY <2>2 DEF zero
  <1>4. Total(f) \in Int /\ Total(g) \in Int
    BY TotalInt
  <1> QED
    BY <1>3, <1>4

\* A level holds a positive price and a quantity that may be zero.
LEMMA LevelType ==
    ASSUME WalkTypeOK, row < Len(rows)
    PROVE  BestLevel \in FillLevels
<1>1. rows \in Seq(FillLevels)
    BY LaddersAssumption DEF WalkTypeOK
<1>2. row + 1 \in 1 .. Len(rows)
    BY <1>1 DEF WalkTypeOK
<1>3. ASSUME NEW S, NEW s \in Seq(S), NEW k \in 1 .. Len(s)
      PROVE  s[k] \in S
    BY <1>3
<1>4. rows[row + 1] \in FillLevels
    BY <1>1, <1>2, <1>3
<1> QED
    BY <1>4 DEF BestLevel

\* One iteration takes no more than is left, from one level more.
LEMMA TakeLevelType ==
    ASSUME WalkTypeOK, TakeLevel
    PROVE  WalkTypeOK'
<1> DEFINE level == BestLevel
           taken == TakenFrom(level)
<1>1. level \in FillLevels
    BY LevelType DEF TakeLevel
<1>2. quantity \in Nat /\ remaining \in Nat /\ Len(rows) \in Nat
    BY QuantitiesAssumption, LaddersAssumption DEF WalkTypeOK
<1>3. taken \in 0 .. remaining
    BY <1>1, <1>2 DEF TakenFrom, Lesser, FillLevels
<1>4. remaining' \in 0 .. quantity
    BY <1>2, <1>3 DEF TakeLevel, WalkTypeOK
<1>5. [price |-> level.price, quantity |-> taken] \in FillLevels
    BY <1>1, <1>2, <1>3 DEF FillLevels
<1>6. /\ levels' \in Seq(FillLevels)
      /\ Len(levels') = Len(levels) + 1
    BY <1>5 DEF TakeLevel, WalkTypeOK
<1>7. row' \in 0 .. Len(rows)
    BY <1>2 DEF TakeLevel, WalkTypeOK
<1> QED
    BY <1>4, <1>6, <1>7 DEF TakeLevel, WalkTypeOK

\* Walking a book never takes more than was asked for, and makes one fill level
\* of every level it looks at (calculate_market_fill).
THEOREM TypeCorrectness == WalkSpec => []WalkTypeOK
<1>1. WalkInit => WalkTypeOK
    <2> SUFFICES ASSUME WalkInit PROVE WalkTypeOK
        OBVIOUS
    <2>1. quantity \in Nat /\ Len(rows) \in Nat
        BY QuantitiesAssumption, LaddersAssumption DEF WalkInit
    <2> QED
        BY <2>1 DEF WalkInit, WalkTypeOK
<1>2. WalkTypeOK /\ [WalkNext]_walkVars => WalkTypeOK'
    <2> SUFFICES ASSUME WalkTypeOK, [WalkNext]_walkVars PROVE WalkTypeOK'
        OBVIOUS
    <2>1. CASE TakeLevel
        BY <2>1, TakeLevelType
    <2>2. CASE Finish
        BY <2>2 DEF Finish, WalkTypeOK
    <2>3. CASE UNCHANGED walkVars
        BY <2>3 DEF walkVars, WalkTypeOK
    <2> QED
        BY <2>1, <2>2, <2>3 DEF WalkNext
<1> QED
    BY <1>1, <1>2, PTL DEF WalkSpec


-----------------------------------------------------------------------------
(* The walk as a function of the book.                                     *)

\* A function defined by recursion on a prefix of the numbers exists.
Recursive(h, n, b, F) == h[0] = b /\ \A k \in 1 .. n : h[k] = F[<<k, h[k - 1]>>]

LEMMA RecursionExists ==
  ASSUME NEW n \in Nat, NEW V, NEW b \in V, NEW F \in [(1 .. n) \X V -> V]
  PROVE  \E h \in [0 .. n -> V] : Recursive(h, n, b, F)
  <1>1. PICK g : FoldsTo(g, 1 .. n, Lasts(n), V, b, F)
    BY PrefixFold
  <1>2. /\ g \in [SUBSET (1 .. n) -> V]
        /\ \A s \in SUBSET (1 .. n) :
               g[s] = IF s = {} THEN b ELSE F[<<Max(s), g[s \ {Max(s)}]>>]
    BY <1>1 DEF FoldsTo, Lasts
  <1> DEFINE h == [k \in 0 .. n |-> g[1 .. k]]
  <1>3. h \in [0 .. n -> V]
    <2>1. \A k \in 0 .. n : 1 .. k \in SUBSET (1 .. n)
      OBVIOUS
    <2> QED
      BY <1>2, <2>1
  <1>4. h[0] = b
    <2>1. 1 .. 0 = {} /\ 0 \in 0 .. n
      OBVIOUS
    <2> QED
      BY <1>2, <2>1
  <1>5. ASSUME NEW k \in 1 .. n PROVE h[k] = F[<<k, h[k - 1]>>]
    <2>1. /\ 1 .. k \in SUBSET (1 .. n) /\ 1 .. k # {}
          /\ Max(1 .. k) = k /\ (1 .. k) \ {k} = 1 .. (k - 1)
      BY PrefixOfNumbers
    <2>2. g[1 .. k] = F[<<k, g[1 .. (k - 1)]>>]
      BY <1>2, <2>1
    <2>3. k \in 0 .. n /\ k - 1 \in 0 .. n
      OBVIOUS
    <2> QED
      BY <2>2, <2>3
  <1> QED
    BY <1>3, <1>4, <1>5 DEF Recursive

\* What is left never grows and never falls below nothing.
LEMMA LeftSteps ==
  ASSUME NEW l \in Seq(FillLevels), NEW q \in Nat
  PROVE  /\ Left(l, q) \in [0 .. Len(l) -> 0 .. q]
         /\ Left(l, q)[0] = q
         /\ \A k \in 1 .. Len(l) :
                Left(l, q)[k] = Left(l, q)[k - 1] - Lesser(Left(l, q)[k - 1], l[k].quantity)
  <1> DEFINE n == Len(l)
             F == [p \in (1 .. n) \X (0 .. q) |-> p[2] - Lesser(p[2], l[p[1]].quantity)]
             Rec(left) == left = [i \in 0 .. n |->
                              IF i = 0 THEN q ELSE left[i - 1] - Lesser(left[i - 1], l[i].quantity)]
  <1>1. n \in Nat /\ \A k \in 1 .. n : l[k].quantity \in Nat
    <2>1. \A k \in 1 .. n : l[k] \in FillLevels
      OBVIOUS
    <2> QED
      BY <2>1 DEF FillLevels
  <1> HIDE DEF n
  <1>2. F \in [(1 .. n) \X (0 .. q) -> 0 .. q]
    <2>1. ASSUME NEW k \in 1 .. n, NEW v \in 0 .. q
          PROVE  v - Lesser(v, l[k].quantity) \in 0 .. q
      BY <1>1 DEF Lesser
    <2> QED
      BY <2>1
  <1>3. PICK h \in [0 .. n -> 0 .. q] : Recursive(h, n, q, F)
    <2> HIDE DEF F
    <2>1. q \in 0 .. q
      OBVIOUS
    <2> QED
      BY <1>1, <1>2, <2>1, RecursionExists
  <1>4. ASSUME NEW k \in 1 .. n
        PROVE  /\ k - 1 \in 0 .. n /\ k \in 0 .. n
               /\ h[k] = h[k - 1] - Lesser(h[k - 1], l[k].quantity)
    <2>1. h[k] = F[<<k, h[k - 1]>>]
      BY <1>3 DEF Recursive
    <2>2. h[k - 1] \in 0 .. q /\ k - 1 \in 0 .. n /\ k \in 0 .. n
      BY <1>1, <1>3
    <2> QED
      BY <2>1, <2>2
  <1> HIDE DEF F
  <1>5. Rec(h)
    BY <1>1, <1>3, <1>4 DEF Recursive
  <1>6. Left(l, q) = CHOOSE left : Rec(left)
    BY DEF Left, n
  <1>7. Rec(Left(l, q))
    BY <1>5, <1>6
  <1> DEFINE left == Left(l, q)
  <1> HIDE DEF left
  <1>8. Rec(left)
    BY <1>7 DEF left
  <1>9. left[0] = q /\ \A k \in 1 .. n : left[k] = left[k - 1] - Lesser(left[k - 1], l[k].quantity)
    <2>1. ASSUME NEW i \in 0 .. n
          PROVE  left[i] = IF i = 0 THEN q ELSE left[i - 1] - Lesser(left[i - 1], l[i].quantity)
      BY <1>8
    <2>2. 0 \in 0 .. n /\ \A k \in 1 .. n : k \in 0 .. n /\ k # 0
      BY <1>1
    <2> HIDE DEF Rec
    <2> QED
      BY <2>1, <2>2
  <1> DEFINE Bad == {k \in 0 .. n : left[k] \notin 0 .. q}
  <1>10. Bad = {}
    <2> SUFFICES ASSUME Bad # {} PROVE FALSE
      OBVIOUS
    <2>1. Bad \in SUBSET (0 .. n)
      OBVIOUS
    <2>2. PICK j \in Bad : j = 0 \/ (j \in 1 .. n /\ j - 1 \in 0 .. n /\ j - 1 \notin Bad)
      BY <1>1, <2>1, SmallestNumber
    <2>3. CASE j = 0
      BY <1>9, <2>2, <2>3
    <2>4. CASE j # 0
      <3>1. j \in 1 .. n /\ left[j - 1] \in 0 .. q
        BY <2>2, <2>4
      <3>2. left[j] = left[j - 1] - Lesser(left[j - 1], l[j].quantity)
        BY <1>9, <3>1
      <3>3. left[j] \in 0 .. q
        BY <1>1, <3>1, <3>2 DEF Lesser
      <3> QED
        BY <2>2, <3>3
    <2> QED
      BY <2>3, <2>4
  <1>11. left \in [0 .. n -> 0 .. q]
    <2>1. \A k \in 0 .. n : left[k] \in 0 .. q
      BY <1>10
    <2>2. left = [i \in 0 .. n |-> left[i]]
      BY <1>8
    <2> QED
      BY <2>1, <2>2
  <1> QED
    BY <1>9, <1>11 DEF left, n

\* What the walk takes from each level.
Taken(l, q) == [k \in 1 .. Len(l) |-> Left(l, q)[k - 1] - Left(l, q)[k]]

\* It is no more than the level holds, and less only when nothing is left.
LEMMA TakenSteps ==
  ASSUME NEW l \in Seq(FillLevels), NEW q \in Nat
  PROVE  /\ Taken(l, q) \in [1 .. Len(l) -> 0 .. q]
         /\ Taken(l, q) \in Seq(Int) /\ Len(Taken(l, q)) = Len(l)
         /\ \A k \in 1 .. Len(l) :
                /\ Taken(l, q)[k] <= l[k].quantity
                /\ Taken(l, q)[k] = Lesser(Left(l, q)[k - 1], l[k].quantity)
                /\ Left(l, q)[k] # 0 => Taken(l, q)[k] = l[k].quantity
                /\ Left(l, q)[k - 1] = 0 => Taken(l, q)[k] = 0
  <1> DEFINE n == Len(l)
             left == Left(l, q)
             taken == Taken(l, q)
  <1>1. n \in Nat /\ \A k \in 1 .. n : l[k].quantity \in Nat
    <2>1. \A k \in 1 .. n : l[k] \in FillLevels
      OBVIOUS
    <2> QED
      BY <2>1 DEF FillLevels
  <1>2. taken = [k \in 1 .. n |-> left[k - 1] - left[k]]
    BY DEF Taken
  <1>3. /\ left \in [0 .. n -> 0 .. q]
        /\ \A k \in 1 .. n : left[k] = left[k - 1] - Lesser(left[k - 1], l[k].quantity)
    BY LeftSteps
  <1> HIDE DEF n, left, taken
  <1>4. ASSUME NEW k \in 1 .. n
        PROVE  /\ taken[k] \in 0 .. q
               /\ taken[k] <= l[k].quantity
               /\ taken[k] = Lesser(left[k - 1], l[k].quantity)
               /\ left[k] # 0 => taken[k] = l[k].quantity
               /\ left[k - 1] = 0 => taken[k] = 0
    <2>1. k - 1 \in 0 .. n /\ k \in 0 .. n
      BY <1>1
    <2>2. left[k - 1] \in 0 .. q /\ left[k] \in 0 .. q
      BY <1>3, <2>1
    <2>3. left[k] = left[k - 1] - Lesser(left[k - 1], l[k].quantity)
      BY <1>3
    <2>4. taken[k] = left[k - 1] - left[k]
      BY <1>2
    <2> QED
      BY <1>1, <2>2, <2>3, <2>4 DEF Lesser
  <1>5. taken \in [1 .. n -> 0 .. q]
    BY <1>2, <1>4
  <1>6. taken \in Seq(Int) /\ Len(taken) = n
    BY <1>1, <1>5
  <1> QED
    BY <1>4, <1>5, <1>6 DEF n, left, taken

\* Altogether it is what is no longer left.
LEMMA TakenTotal ==
  ASSUME NEW l \in Seq(FillLevels), NEW q \in Nat
  PROVE  Total(Taken(l, q)) = q - Left(l, q)[Len(l)]
  <1> DEFINE n == Len(l)
             left == Left(l, q)
             taken == Taken(l, q)
             h == [k \in 0 .. n |-> q - left[k]]
  <1>1. n \in Nat
    OBVIOUS
  <1>2. left \in [0 .. n -> 0 .. q] /\ left[0] = q
    BY LeftSteps
  <1>3. taken \in Seq(Int) /\ Len(taken) = n /\ \A k \in 1 .. n : taken[k] = left[k - 1] - left[k]
    BY TakenSteps DEF Taken
  <1> HIDE DEF n, left, taken
  <1>4. ASSUME NEW k \in 1 .. n PROVE h[k] = h[k - 1] + taken[k]
    <2>1. k - 1 \in 0 .. n /\ k \in 0 .. n
      BY <1>1
    <2>2. left[k - 1] \in 0 .. q /\ left[k] \in 0 .. q
      BY <1>2, <2>1
    <2> QED
      BY <1>3, <2>1, <2>2
  <1>5. h[0] = 0
    BY <1>1, <1>2
  <1>6. Total(taken) = h[n]
    <2> HIDE DEF h
    <2> QED
      BY <1>3, <1>4, <1>5, TotalIs
  <1> QED
    BY <1>1, <1>6 DEF n, left, taken


\* The quote of a quantity is what the walk pays for it.
LEMMA NotionalOfTaken ==
  ASSUME NEW l \in Seq(FillLevels), NEW q \in Nat
  PROVE  WalkNotional(l, q) =
             IF Left(l, q)[Len(l)] > 0 THEN 0 ELSE CostOf(l, Taken(l, q))
  <1> DEFINE n == Len(l)
             left == Left(l, q)
             taken == Taken(l, q)
             cost == [k \in 1 .. n |-> l[k].price * taken[k]]
             Rec(sum) == sum = [i \in 0 .. n |->
                             IF i = 0 THEN 0 ELSE sum[i - 1] + l[i].price * (left[i - 1] - left[i])]
             sum == CHOOSE s : Rec(s)
  <1>1. n \in Nat /\ \A k \in 1 .. n : l[k].price \in Nat
    <2>1. \A k \in 1 .. n : l[k] \in FillLevels
      OBVIOUS
    <2> QED
      BY <2>1 DEF FillLevels
  <1>2. taken \in [1 .. n -> 0 .. q] /\ \A k \in 1 .. n : taken[k] = left[k - 1] - left[k]
    BY TakenSteps DEF Taken
  <1>3. WalkNotional(l, q) = IF left[n] > 0 THEN 0 ELSE sum[n]
    BY DEF WalkNotional
  <1>4. CostOf(l, taken) = Total(cost)
    BY DEF CostOf
  <1> HIDE DEF n, left, taken
  <1>5. cost \in Seq(Int) /\ Len(cost) = n /\ \A k \in 1 .. n : cost[k] = l[k].price * taken[k]
    <2>1. \A k \in 1 .. n : l[k].price * taken[k] \in Int
      BY <1>1, <1>2
    <2> QED
      BY <1>1, <2>1
  <1> HIDE DEF cost
  <1>6. PICK h \in [0 .. n -> Int] :
          /\ h[0] = 0
          /\ \A k \in 1 .. n : h[k] = h[k - 1] + cost[k]
    BY <1>5, TotalFold
  <1>7. Rec(h)
    <2>1. ASSUME NEW i \in 0 .. n
          PROVE  h[i] = IF i = 0 THEN 0 ELSE h[i - 1] + l[i].price * (left[i - 1] - left[i])
      <3>1. CASE i = 0
        BY <1>6, <3>1
      <3>2. CASE i # 0
        <4>1. i \in 1 .. n
          BY <1>1, <3>2
        <4>2. cost[i] = l[i].price * (left[i - 1] - left[i])
          BY <1>2, <1>5, <4>1
        <4> QED
          BY <1>6, <3>2, <4>1, <4>2
      <3> QED
        BY <3>1, <3>2
    <2> QED
      BY <2>1
  <1>8. Rec(sum)
    BY <1>7
  <1> HIDE DEF sum
  <1>9. ASSUME NEW i \in 0 .. n
        PROVE  sum[i] = IF i = 0 THEN 0 ELSE sum[i - 1] + l[i].price * (left[i - 1] - left[i])
    BY <1>8
  <1> HIDE DEF Rec
  <1>10. sum[0] = 0
    BY <1>1, <1>9
  <1>11. ASSUME NEW k \in 1 .. n PROVE sum[k] = sum[k - 1] + cost[k]
    <2>1. k \in 0 .. n /\ k # 0
      BY <1>1
    <2>2. sum[k] = sum[k - 1] + l[k].price * (left[k - 1] - left[k])
      BY <1>9, <2>1
    <2>3. cost[k] = l[k].price * (left[k - 1] - left[k])
      BY <1>2, <1>5
    <2> QED
      BY <2>2, <2>3
  <1>12. Total(cost) = sum[n]
    BY <1>5, <1>10, <1>11, TotalIs
  <1> QED
    BY <1>3, <1>4, <1>12 DEF n, left, taken

\* Once nothing is left, nothing is left.
LEMMA NothingLeft ==
  ASSUME NEW l \in Seq(FillLevels), NEW q \in Nat,
         NEW j \in 0 .. Len(l), Left(l, q)[j] = 0
  PROVE  \A k \in j .. Len(l) : Left(l, q)[k] = 0
  <1> DEFINE n == Len(l)
             left == Left(l, q)
  <1>1. n \in Nat /\ \A k \in 1 .. n : l[k].quantity \in Nat
    <2>1. \A k \in 1 .. n : l[k] \in FillLevels
      OBVIOUS
    <2> QED
      BY <2>1 DEF FillLevels
  <1>2. \A k \in 1 .. n : left[k] = left[k - 1] - Lesser(left[k - 1], l[k].quantity)
    BY LeftSteps
  <1>3. left[j] = 0 /\ j \in 0 .. n
    OBVIOUS
  <1> HIDE DEF n, left
  <1> DEFINE Bad == {k \in 0 .. n : k >= j /\ left[k] # 0}
  <1>4. Bad = {}
    <2> SUFFICES ASSUME Bad # {} PROVE FALSE
      OBVIOUS
    <2>1. Bad \in SUBSET (0 .. n)
      OBVIOUS
    <2>2. PICK k \in Bad : k = 0 \/ (k \in 1 .. n /\ k - 1 \in 0 .. n /\ k - 1 \notin Bad)
      BY <1>1, <2>1, SmallestNumber
    <2>3. k > j /\ k \in 1 .. n
      BY <1>1, <1>3, <2>2
    <2>4. left[k - 1] = 0
      BY <1>3, <2>2, <2>3
    <2>5. left[k] = 0
      <3>1. left[k] = left[k - 1] - Lesser(left[k - 1], l[k].quantity) /\ l[k].quantity \in Nat
        BY <1>1, <1>2, <2>3
      <3>2. Lesser(0, l[k].quantity) = 0
        BY <3>1 DEF Lesser
      <3> QED
        BY <2>4, <3>1, <3>2
    <2> QED
      BY <2>2, <2>5
  <1>5. \A k \in j .. n : k \in 0 .. n /\ k >= j
    BY <1>1, <1>3
  <1> QED
    BY <1>4, <1>5 DEF n, left

\* The level that fills an order: those before it are emptied, those after it
\* are left alone.
LEMMA LastLevelTaken ==
  ASSUME NEW l \in Seq(FillLevels), NEW q \in Nat \ {0}, Left(l, q)[Len(l)] = 0
  PROVE  \E m \in 1 .. Len(l) :
             /\ \A k \in 1 .. (m - 1) : Taken(l, q)[k] = l[k].quantity
             /\ \A k \in (m + 1) .. Len(l) : Taken(l, q)[k] = 0
  <1> DEFINE n == Len(l)
             left == Left(l, q)
             taken == Taken(l, q)
             T == {k \in 0 .. n : left[k] = 0}
  <1>1. n \in Nat /\ left[0] = q /\ left[n] = 0
    BY LeftSteps
  <1>2. \A k \in 1 .. n :
          /\ left[k] # 0 => taken[k] = l[k].quantity
          /\ left[k - 1] = 0 => taken[k] = 0
    BY TakenSteps
  <1>3. \A j \in 0 .. n : left[j] = 0 => \A k \in j .. n : left[k] = 0
    BY NothingLeft
  <1> HIDE DEF n, left, taken
  <1>4. PICK m \in T : m = 0 \/ (m \in 1 .. n /\ m - 1 \in 0 .. n /\ m - 1 \notin T)
    <2>1. n \in T /\ T \in SUBSET (0 .. n)
      BY <1>1
    <2> QED
      BY <1>1, <2>1, SmallestNumber
  <1>5. m \in 1 .. n /\ left[m] = 0 /\ m - 1 \in 0 .. n /\ left[m - 1] # 0
    BY <1>1, <1>4
  <1>6. ASSUME NEW k \in 1 .. (m - 1) PROVE taken[k] = l[k].quantity
    <2>1. k \in 1 .. n /\ k \in 0 .. n /\ m - 1 \in k .. n
      BY <1>1, <1>5
    <2>2. left[k] # 0
      BY <1>3, <1>5, <2>1
    <2> QED
      BY <1>2, <2>1, <2>2
  <1>7. ASSUME NEW k \in (m + 1) .. n PROVE taken[k] = 0
    <2>1. k \in 1 .. n /\ k - 1 \in m .. n /\ m \in 0 .. n
      BY <1>1, <1>5
    <2>2. left[k - 1] = 0
      BY <1>3, <1>5, <2>1
    <2> QED
      BY <1>2, <2>1, <2>2
  <1> QED
    BY <1>5, <1>6, <1>7 DEF n, taken


LEMMA SameSign ==
  ASSUME NEW x \in Int, NEW p \in Int, NEW a \in Int, NEW b \in Int,
         (x >= p /\ a >= b) \/ (x <= p /\ a <= b)
  PROVE  p * (a - b) <= x * a - x * b
  <1>1. x * a - x * b = x * (a - b)
    OBVIOUS
  <1>2. x * (a - b) = p * (a - b) + (x - p) * (a - b)
    OBVIOUS
  <1>3. (x - p) * (a - b) >= 0
    <2> DEFINE u == x - p
               v == a - b
    <2>1. u \in Int /\ v \in Int /\ ((u >= 0 /\ v >= 0) \/ (u <= 0 /\ v <= 0))
      OBVIOUS
    <2> HIDE DEF u, v
    <2>2. u * v >= 0
      BY <2>1
    <2> QED
      BY <2>2 DEF u, v
  <1>4. p * (a - b) \in Int /\ (x - p) * (a - b) \in Int
    OBVIOUS
  <1> QED
    BY <1>1, <1>2, <1>3, <1>4

LEMMA CostInt ==
  ASSUME NEW l \in Seq(FillLevels), NEW q \in Nat, NEW f \in [1 .. Len(l) -> 0 .. q]
  PROVE  CostOf(l, f) \in Int
  <1> DEFINE n == Len(l)
             c == [k \in 1 .. n |-> l[k].price * f[k]]
  <1>1. n \in Nat /\ \A k \in 1 .. n : l[k].price \in Int
    <2>1. \A k \in 1 .. n : l[k] \in FillLevels
      OBVIOUS
    <2> QED
      BY <2>1 DEF FillLevels
  <1>2. CostOf(l, f) = Total(c) /\ f \in [1 .. n -> 0 .. q]
    BY DEF CostOf
  <1> HIDE DEF n
  <1>3. \A k \in 1 .. n : l[k].price * f[k] \in Int
    BY <1>1, <1>2
  <1>4. c \in Seq(Int)
    BY <1>1, <1>3
  <1> HIDE DEF c
  <1> QED
    BY <1>2, <1>4, TotalInt

\* Of two ways to take as much, the one that takes more of the levels above a
\* price and less of those below it costs more.
LEMMA CostCompare ==
  ASSUME NEW l \in Seq(FillLevels), NEW p \in Nat, NEW q \in Nat,
         NEW f \in [1 .. Len(l) -> 0 .. q], NEW g \in [1 .. Len(l) -> 0 .. q],
         Total(f) = Total(g),
         \A k \in 1 .. Len(l) : \/ l[k].price >= p /\ f[k] >= g[k]
                                \/ l[k].price <= p /\ f[k] <= g[k]
  PROVE  CostOf(l, g) <= CostOf(l, f)
  <1> DEFINE n == Len(l)
             c == [k \in 1 .. n |-> l[k].price * f[k]]
             d == [k \in 1 .. n |-> l[k].price * g[k]]
  <1>1. n \in Nat /\ \A k \in 1 .. n : l[k].price \in Int
    <2>1. \A k \in 1 .. n : l[k] \in FillLevels
      OBVIOUS
    <2> QED
      BY <2>1 DEF FillLevels
  <1>2. CostOf(l, f) = Total(c) /\ CostOf(l, g) = Total(d)
    BY DEF CostOf
  <1>3. f \in [1 .. n -> 0 .. q] /\ g \in [1 .. n -> 0 .. q]
    OBVIOUS
  <1>4. \A k \in 1 .. n : \/ l[k].price >= p /\ f[k] >= g[k]
                          \/ l[k].price <= p /\ f[k] <= g[k]
    OBVIOUS
  <1> HIDE DEF n
  <1>5. \A k \in 1 .. n : f[k] \in Int /\ g[k] \in Int
    <2>1. \A k \in 1 .. n : f[k] \in 0 .. q /\ g[k] \in 0 .. q
      BY <1>3
    <2> QED
      BY <2>1
  <1>6. c \in Seq(Int) /\ Len(c) = n /\ d \in Seq(Int) /\ Len(d) = n
    <2>1. \A k \in 1 .. n : l[k].price * f[k] \in Int /\ l[k].price * g[k] \in Int
      BY <1>1, <1>5
    <2> QED
      BY <1>1, <2>1
  <1>7. f \in Seq(Int) /\ Len(f) = n /\ g \in Seq(Int) /\ Len(g) = n
    <2>1. f \in [1 .. n -> Int] /\ g \in [1 .. n -> Int]
      BY <1>3
    <2> QED
      BY <1>1, <2>1
  <1>8. ASSUME NEW k \in 1 .. n PROVE p * (f[k] - g[k]) <= c[k] - d[k]
    <2>1. c[k] = l[k].price * f[k] /\ d[k] = l[k].price * g[k]
      OBVIOUS
    <2>2. l[k].price \in Int /\ f[k] \in Int /\ g[k] \in Int /\ p \in Int
      BY <1>1, <1>5
    <2>3. p * (f[k] - g[k]) <= l[k].price * f[k] - l[k].price * g[k]
      BY <1>4, <2>2, SameSign
    <2> QED
      BY <2>1, <2>3
  <1> HIDE DEF c, d
  <1>9. p * (Total(f) - Total(g)) <= Total(c) - Total(d)
    <2>1. p \in Int
      OBVIOUS
    <2> QED
      BY <1>1, <1>6, <1>7, <1>8, <2>1, TotalsCompare
  <1>10. Total(c) \in Int /\ Total(d) \in Int /\ Total(f) \in Int
    BY <1>6, <1>7, TotalInt
  <1>11. p * (Total(f) - Total(g)) = 0
    BY <1>10
  <1> QED
    BY <1>2, <1>9, <1>10, <1>11

\* The walk is one way to take the quantity, when there is one, and none is
\* better.
LEMMA TakenIsBest ==
  ASSUME NEW l \in Seq(FillLevels), NEW q \in Nat \ {0}, Left(l, q)[Len(l)] = 0
  PROVE  /\ Taken(l, q) \in Allocations(l, q)
         /\ \A f \in Allocations(l, q) :
                /\ Rising(l) => CostOf(l, Taken(l, q)) <= CostOf(l, f)
                /\ Falling(l) => CostOf(l, Taken(l, q)) >= CostOf(l, f)
  <1> DEFINE n == Len(l)
             taken == Taken(l, q)
  <1>1. n \in Nat /\ \A k \in 1 .. n : l[k].price \in Nat /\ l[k].quantity \in Nat
    <2>1. \A k \in 1 .. n : l[k] \in FillLevels
      OBVIOUS
    <2> QED
      BY <2>1 DEF FillLevels
  <1>2. taken \in [1 .. n -> 0 .. q] /\ \A k \in 1 .. n : taken[k] <= l[k].quantity
    BY TakenSteps
  <1>3. Total(taken) = q
    <2>1. Total(taken) = q - 0
      BY TakenTotal
    <2> QED
      BY <2>1
  <1>4. taken \in Allocations(l, q)
    BY <1>2, <1>3 DEF Allocations
  <1>5. PICK m \in 1 .. n : /\ \A k \in 1 .. (m - 1) : taken[k] = l[k].quantity
                            /\ \A k \in (m + 1) .. n : taken[k] = 0
    BY LastLevelTaken
  <1>6. ASSUME NEW f \in Allocations(l, q)
        PROVE  /\ Rising(l) => CostOf(l, taken) <= CostOf(l, f)
               /\ Falling(l) => CostOf(l, taken) >= CostOf(l, f)
    <2> DEFINE p == l[m].price
    <2>1. f \in [1 .. n -> 0 .. q] /\ Total(f) = q /\ \A k \in 1 .. n : f[k] <= l[k].quantity
      BY <1>6 DEF Allocations
    <2>2. p \in Nat
      BY <1>1
    <2> HIDE DEF n, taken
    <2>3. ASSUME NEW k \in 1 .. n
          PROVE  k = m \/ (k < m /\ f[k] <= taken[k]) \/ (k > m /\ f[k] >= taken[k])
      <3>1. f[k] \in 0 .. q /\ f[k] <= l[k].quantity
        BY <2>1
      <3>2. k < m => k \in 1 .. (m - 1)
        BY <1>1
      <3>3. k > m => k \in (m + 1) .. n
        BY <1>1
      <3> QED
        BY <1>1, <1>5, <3>1, <3>2, <3>3
    <2>4. \A k \in 1 .. n : f[k] \in 0 .. q /\ taken[k] \in 0 .. q
      BY <1>2, <2>1
    <2>5. ASSUME Rising(l) PROVE CostOf(l, taken) <= CostOf(l, f)
      <3>1. ASSUME NEW k \in 1 .. n
            PROVE  (l[k].price >= p /\ f[k] >= taken[k]) \/ (l[k].price <= p /\ f[k] <= taken[k])
        <4>1. /\ k < m => l[k].price <= p
              /\ k > m => l[k].price >= p
              /\ k = m => l[k].price = p
          BY <2>5 DEF Rising, n
        <4> QED
          BY <1>1, <2>2, <2>3, <2>4, <4>1
      <3> QED
        BY <1>2, <1>3, <2>1, <2>2, <3>1, CostCompare DEF n
    <2>6. ASSUME Falling(l) PROVE CostOf(l, taken) >= CostOf(l, f)
      <3>1. ASSUME NEW k \in 1 .. n
            PROVE  (l[k].price >= p /\ taken[k] >= f[k]) \/ (l[k].price <= p /\ taken[k] <= f[k])
        <4>1. /\ k < m => l[k].price >= p
              /\ k > m => l[k].price <= p
              /\ k = m => l[k].price = p
          BY <2>6 DEF Falling, n
        <4> QED
          BY <1>1, <2>2, <2>3, <2>4, <4>1
      <3>2. CostOf(l, f) <= CostOf(l, taken)
        BY <1>2, <1>3, <2>1, <2>2, <3>1, CostCompare DEF n
      <3>3. CostOf(l, f) \in Int /\ CostOf(l, taken) \in Int
        BY <1>2, <2>1, CostInt DEF n
      <3> QED
        BY <3>2, <3>3
    <2> QED
      BY <2>5, <2>6
  <1> QED
    BY <1>4, <1>6

\* There is no way to take the quantity when some is left.
LEMMA NoOtherWay ==
  ASSUME NEW l \in Seq(FillLevels), NEW q \in Nat, Left(l, q)[Len(l)] > 0
  PROVE  Allocations(l, q) = {}
  <1> DEFINE n == Len(l)
             taken == Taken(l, q)
  <1> SUFFICES ASSUME NEW f \in Allocations(l, q) PROVE FALSE
    OBVIOUS
  <1>1. n \in Nat /\ Left(l, q)[n] \in 0 .. q
    <2>1. Left(l, q) \in [0 .. n -> 0 .. q]
      BY LeftSteps
    <2> QED
      BY <2>1
  <1>2. f \in [1 .. n -> 0 .. q] /\ Total(f) = q /\ \A k \in 1 .. n : f[k] <= l[k].quantity
    BY DEF Allocations
  <1>3. taken \in Seq(Int) /\ Len(taken) = n /\ \A k \in 1 .. n : Left(l, q)[k] # 0 => taken[k] = l[k].quantity
    BY TakenSteps
  <1>4. ASSUME NEW k \in 1 .. n PROVE Left(l, q)[k] # 0
    <2>1. SUFFICES ASSUME Left(l, q)[k] = 0 PROVE FALSE
      OBVIOUS
    <2>2. k \in 0 .. n /\ n \in k .. n
      BY <1>1
    <2> QED
      BY <1>1, <2>1, <2>2, NothingLeft
  <1>5. f \in Seq(Int) /\ Len(f) = n
    <2>1. f \in [1 .. n -> Int]
      BY <1>2
    <2> QED
      BY <1>1, <2>1
  <1>6. Total(taken) = q - Left(l, q)[n]
    BY TakenTotal
  <1> HIDE DEF n, taken
  <1>7. \A k \in 1 .. n : f[k] <= taken[k]
    BY <1>2, <1>3, <1>4
  <1>8. Total(f) <= Total(taken)
    BY <1>1, <1>3, <1>5, <1>7, TotalMonotone
  <1> QED
    BY <1>1, <1>2, <1>6, <1>8 DEF n


-----------------------------------------------------------------------------
(* The loop computes the function.                                         *)

WalkInv ==
    /\ WalkTypeOK
    /\ remaining = Left(rows, quantity)[row]
    /\ \A k \in 1 .. row :
           levels[k] = [price |-> rows[k].price, quantity |-> Taken(rows, quantity)[k]]
    /\ outcome = "filled" => remaining = 0
    /\ outcome = "rejected" => remaining > 0 /\ row = Len(rows)

LEMMA WalkTypes ==
  ASSUME WalkTypeOK
  PROVE  /\ rows \in Seq(FillLevels) /\ quantity \in Nat \ {0}
         /\ row \in 0 .. Len(rows) /\ remaining \in Nat
  BY LaddersAssumption, QuantitiesAssumption DEF WalkTypeOK

LEMMA TakeLevelWalks ==
  ASSUME WalkInv, TakeLevel
  PROVE  WalkInv'
  <1>1. /\ rows \in Seq(FillLevels) /\ quantity \in Nat \ {0}
        /\ row \in 0 .. Len(rows) /\ remaining \in Nat
    BY WalkTypes DEF WalkInv
  <1>2. row \in Nat /\ row + 1 \in 1 .. Len(rows) /\ Len(levels) = row /\ (row + 1) - 1 = row
    BY <1>1 DEF TakeLevel, WalkInv, WalkTypeOK
  <1>3. WalkTypeOK'
    BY TakeLevelType DEF WalkInv
  <1> DEFINE taken == TakenFrom(BestLevel)
  <1>4. taken = Lesser(remaining, rows[row + 1].quantity)
    BY DEF TakenFrom, BestLevel
  <1>5. remaining = Left(rows, quantity)[row]
    BY DEF WalkInv
  <1>6. Left(rows, quantity)[row + 1] = Left(rows, quantity)[row] - taken
    BY <1>1, <1>2, <1>4, <1>5, LeftSteps
  <1>7. Taken(rows, quantity)[row + 1] = taken
    BY <1>1, <1>2, <1>4, <1>5, TakenSteps
  <1>8. remaining' = Left(rows, quantity)[row + 1]
    BY <1>5, <1>6 DEF TakeLevel
  <1>9. ASSUME NEW k \in 1 .. row + 1
        PROVE  levels'[k] = [price |-> rows[k].price, quantity |-> Taken(rows, quantity)[k]]
    <2> DEFINE level == [price |-> BestLevel.price, quantity |-> taken]
    <2>1. levels' = Append(levels, level) /\ levels \in Seq(FillLevels)
      BY DEF TakeLevel, WalkInv, WalkTypeOK
    <2>2. CASE k \in 1 .. row
      <3>1. levels'[k] = levels[k]
        BY <1>2, <2>1, <2>2
      <3> QED
        BY <2>2, <3>1 DEF WalkInv
    <2>3. CASE k = row + 1
      <3>1. levels'[k] = level
        BY <1>2, <2>1, <2>3
      <3> QED
        BY <1>7, <2>3, <3>1 DEF BestLevel
    <2> QED
      BY <1>2, <2>2, <2>3
  <1> QED
    BY <1>3, <1>8, <1>9 DEF TakeLevel, WalkInv

LEMMA Walks == WalkSpec => []WalkInv
  <1>1. WalkInit => WalkInv
    <2> SUFFICES ASSUME WalkInit PROVE WalkInv
      OBVIOUS
    <2>1. WalkTypeOK
      <3>1. quantity \in Nat /\ Len(rows) \in Nat
        BY QuantitiesAssumption, LaddersAssumption DEF WalkInit
      <3> QED
        BY <3>1 DEF WalkInit, WalkTypeOK
    <2>2. rows \in Seq(FillLevels) /\ quantity \in Nat
      BY <2>1, WalkTypes
    <2>3. Left(rows, quantity)[0] = quantity
      BY <2>2, LeftSteps
    <2> QED
      BY <2>1, <2>3 DEF WalkInit, WalkInv
  <1>2. WalkInv /\ [WalkNext]_walkVars => WalkInv'
    <2> SUFFICES ASSUME WalkInv, [WalkNext]_walkVars PROVE WalkInv'
      OBVIOUS
    <2>1. CASE TakeLevel
      BY <2>1, TakeLevelWalks
    <2>2. CASE Finish
      <3>1. remaining \in Nat /\ row \in 0 .. Len(rows) /\ Len(rows) \in Nat
        BY WalkTypes DEF WalkInv
      <3>2. WalkTypeOK'
        BY <2>2 DEF Finish, WalkTypeOK, WalkInv
      <3> QED
        BY <2>2, <3>1, <3>2 DEF Finish, Short, Exhausted, WalkInv
    <2>3. CASE UNCHANGED walkVars
      BY <2>3 DEF walkVars, WalkInv, WalkTypeOK
    <2> QED
      BY <2>1, <2>2, <2>3 DEF WalkNext
  <1> QED
    BY <1>1, <1>2, PTL DEF WalkSpec

\* What a filled order has paid is the quote of its quantity.
LEMMA FilledAtQuote ==
  ASSUME WalkInv, outcome = "filled"
  PROVE  /\ Left(rows, quantity)[Len(rows)] = 0
         /\ Notional = CostOf(rows, Taken(rows, quantity))
  <1> DEFINE n == Len(rows)
             taken == Taken(rows, quantity)
             paid == [k \in 1 .. Len(levels) |-> levels[k].price * levels[k].quantity]
             cost == [k \in 1 .. n |-> rows[k].price * taken[k]]
  <1>1. rows \in Seq(FillLevels) /\ quantity \in Nat \ {0} /\ row \in 0 .. n
    BY WalkTypes DEF WalkInv
  <1>2. n \in Nat /\ \A k \in 1 .. n : rows[k].price \in Nat
    <2>1. \A k \in 1 .. n : rows[k] \in FillLevels
      BY <1>1
    <2> QED
      BY <1>1, <2>1 DEF FillLevels
  <1>3. Len(levels) = row /\ Left(rows, quantity)[row] = 0
    BY DEF WalkInv, WalkTypeOK
  <1>4. \A k \in row .. n : Left(rows, quantity)[k] = 0
    BY <1>1, <1>3, NothingLeft
  <1>5. taken \in [1 .. n -> 0 .. quantity]
        /\ \A k \in 1 .. n : Left(rows, quantity)[k - 1] = 0 => taken[k] = 0
    BY <1>1, TakenSteps
  <1>6. \A k \in 1 .. row : levels[k] = [price |-> rows[k].price, quantity |-> taken[k]]
    BY DEF WalkInv
  <1>7. CostOf(rows, taken) = Total(cost) /\ Notional = Total(paid)
    BY DEF CostOf, Notional
  <1> HIDE DEF n, taken
  <1>8. ASSUME NEW k \in 1 .. n
        PROVE  cost[k] = IF k <= row THEN paid[k] ELSE 0
    <2>1. taken[k] \in Nat
      BY <1>1, <1>5
    <2>2. CASE k <= row
      BY <1>1, <1>2, <1>3, <1>6, <2>2
    <2>3. CASE k > row
      <3>1. k - 1 \in row .. n
        BY <1>1, <1>2, <2>3
      <3>2. taken[k] = 0
        BY <1>4, <1>5, <3>1
      <3> QED
        BY <1>1, <1>2, <2>3, <3>2
    <2> QED
      BY <1>1, <2>2, <2>3
  <1>9. cost \in Seq(Int) /\ Len(cost) = n
    <2>1. ASSUME NEW k \in 1 .. n PROVE rows[k].price * taken[k] \in Int
      <3>1. taken[k] \in 0 .. quantity /\ rows[k].price \in Nat
        BY <1>2, <1>5
      <3>2. taken[k] \in Nat
        BY <1>1, <3>1
      <3> QED
        BY <3>1, <3>2
    <2> QED
      BY <1>2, <2>1
  <1>10. paid \in Seq(Int) /\ Len(paid) = row
    <2>1. ASSUME NEW k \in 1 .. row PROVE levels[k].price * levels[k].quantity \in Int
      <3>1. k \in 1 .. n /\ levels[k].price = rows[k].price /\ levels[k].quantity = taken[k]
        <4>1. k \in 1 .. n
          BY <1>1, <1>2
        <4>2. levels[k] = [price |-> rows[k].price, quantity |-> taken[k]]
          BY <1>6
        <4> QED
          BY <4>1, <4>2
      <3>2. taken[k] \in 0 .. quantity /\ rows[k].price \in Nat
        BY <1>2, <1>5, <3>1
      <3>3. taken[k] \in Nat
        BY <1>1, <3>2
      <3> QED
        BY <3>1, <3>2, <3>3
    <2> QED
      BY <1>1, <1>3, <2>1
  <1> HIDE DEF cost, paid
  <1>11. Total(cost) = Total(paid)
    <2>1. Len(paid) <= n /\ \A k \in 1 .. n : cost[k] = IF k <= Len(paid) THEN paid[k] ELSE 0
      BY <1>1, <1>2, <1>8, <1>10
    <2> QED
      BY <1>2, <1>9, <1>10, <2>1, TotalPadded
  <1>12. n \in row .. n
    BY <1>1, <1>2
  <1> QED
    BY <1>4, <1>7, <1>11, <1>12 DEF n, taken

\* The loop of calculate_market_fill fills an order at the least cost, and a
\* sale at the greatest, of all the ways to take its quantity from a sorted
\* side, however many levels it has; it rejects an order only when there is no
\* such way; and the ledger's quotes are what the loop pays.
THEOREM Best == WalkSpec => []BestExecution
  <1>1. WalkInv => BestExecution
    <2> SUFFICES ASSUME WalkInv PROVE BestExecution
      OBVIOUS
    <2>1. rows \in Seq(FillLevels) /\ quantity \in Nat \ {0} /\ quantity \in Nat
      BY WalkTypes DEF WalkInv
    <2> DEFINE taken == Taken(rows, quantity)
               left == Left(rows, quantity)
    <2>2. WalkNotional(rows, quantity) = IF left[Len(rows)] > 0 THEN 0 ELSE CostOf(rows, taken)
      BY <2>1, NotionalOfTaken
    <2>3. ASSUME outcome = "filled"
          PROVE  /\ WalkNotional(rows, quantity) = Notional
                 /\ Allocations(rows, quantity) # {}
                 /\ \A f \in Allocations(rows, quantity) :
                        /\ Rising(rows) => Notional <= CostOf(rows, f)
                        /\ Falling(rows) => Notional >= CostOf(rows, f)
      <3>1. left[Len(rows)] = 0 /\ Notional = CostOf(rows, taken)
        BY <2>3, FilledAtQuote
      <3>2. /\ taken \in Allocations(rows, quantity)
            /\ \A f \in Allocations(rows, quantity) :
                   /\ Rising(rows) => CostOf(rows, taken) <= CostOf(rows, f)
                   /\ Falling(rows) => CostOf(rows, taken) >= CostOf(rows, f)
        BY <2>1, <3>1, TakenIsBest
      <3> QED
        BY <2>2, <3>1, <3>2
    <2>4. ASSUME outcome = "rejected"
          PROVE  WalkNotional(rows, quantity) = 0 /\ Allocations(rows, quantity) = {}
      <3>1. left[Len(rows)] > 0
        BY <2>4 DEF WalkInv
      <3> QED
        BY <2>1, <2>2, <3>1, NoOtherWay
    <2> QED
      BY <2>3, <2>4 DEF BestExecution
  <1> QED
    BY <1>1, Walks, PTL


-----------------------------------------------------------------------------
(* The order book: what trimming keeps.                                    *)

\* The depth kept leaves no level out.
AllFit == Cardinality(Prices) <= Depth

LEMMA TrimType ==
  ASSUME NEW b \in Levels
  PROVE  Trim(b) \in Levels /\ \A p \in Prices : Trim(b)[p] \in {b[p], 0}
  BY DEF Trim, Levels

LEMMA BetterFinite ==
  ASSUME NEW b \in Levels, NEW p \in Prices
  PROVE  /\ Better(p, b) \subseteq Prices \ {p}
         /\ IsFiniteSet(Better(p, b)) /\ Cardinality(Better(p, b)) \in Nat
         /\ IsFiniteSet(Prices \ {p}) /\ Cardinality(Prices \ {p}) = Cardinality(Prices) - 1
         /\ Cardinality(Better(p, b)) <= Cardinality(Prices \ {p})
  <1>1. Better(p, b) \subseteq Prices \ {p}
    BY PricesAssumption DEF Better, Present
  <1>2. IsFiniteSet(Prices \ {p}) /\ Cardinality(Prices \ {p}) = Cardinality(Prices) - 1
    BY PricesAssumption, FS_RemoveElement
  <1>3. IsFiniteSet(Better(p, b)) /\ Cardinality(Better(p, b)) <= Cardinality(Prices \ {p})
    BY <1>1, <1>2, FS_Subset
  <1> QED
    BY <1>1, <1>2, <1>3, FS_CardinalityType

\* When all levels fit, trimming drops none.
LEMMA TrimAll ==
  ASSUME NEW b \in Levels, AllFit
  PROVE  Trim(b) = b
  <1>1. ASSUME NEW p \in Prices PROVE Cardinality(Better(p, b)) < Depth
    <2>1. /\ Cardinality(Better(p, b)) \in Nat
          /\ Cardinality(Better(p, b)) <= Cardinality(Prices) - 1
      BY BetterFinite
    <2>2. Cardinality(Prices) \in Nat /\ Depth \in Nat
      BY PricesAssumption, BoundsAssumption, FS_CardinalityType
    <2> QED
      BY <2>1, <2>2 DEF AllFit
  <1> QED
    BY <1>1 DEF Trim, Levels

\* No more levels are kept than the depth.
LEMMA TrimFits ==
  ASSUME NEW b \in Levels
  PROVE  Cardinality(Present(Trim(b))) <= Depth
  <1> DEFINE S == Present(Trim(b))
  <1>1. S \subseteq Prices /\ S \subseteq Present(b) /\ \A p \in S : Cardinality(Better(p, b)) < Depth
    BY DEF Present, Trim, Levels
  <1>2. IsFiniteSet(S) /\ S \in SUBSET Nat /\ Depth \in Nat
    BY <1>1, PricesAssumption, BoundsAssumption, FS_Subset
  <1> HIDE DEF S
  <1>3. CASE S = {}
    BY <1>2, <1>3, FS_EmptySet DEF S
  <1>4. CASE S # {}
    <2>1. PICK m \in S : \A p \in S : p <= m
      BY <1>2, <1>4, MaxIn
    <2>2. m \in Prices /\ Cardinality(Better(m, b)) < Depth
      BY <1>1, <2>1
    <2>3. S \ {m} \subseteq Better(m, b)
      BY <1>1, <1>2, <2>1 DEF Better
    <2>4. IsFiniteSet(Better(m, b)) /\ Cardinality(Better(m, b)) \in Nat
      BY <2>2, BetterFinite
    <2>5. Cardinality(S \ {m}) <= Cardinality(Better(m, b))
      BY <2>3, <2>4, FS_Subset
    <2>6. Cardinality(S \ {m}) = Cardinality(S) - 1 /\ Cardinality(S) \in Nat
      BY <1>2, <2>1, FS_RemoveElement, FS_CardinalityType
    <2>7. Cardinality(S) <= Depth
      BY <1>2, <2>2, <2>4, <2>5, <2>6
    <2> QED
      BY <2>7 DEF S
  <1> QED
    BY <1>3, <1>4

-----------------------------------------------------------------------------
(* The synchronizer.                                                       *)

\* Events and synchronizers.
Events == [first : Updates, final : Updates]
Syncs == [book : Levels, last : Updates \cup {NoUpdate}, synced : BOOLEAN, buffer : Seq(Events)]

Delivered(e) ==
    /\ e \in Events
    /\ 2 <= e.first /\ e.first <= e.final /\ e.final <= Latest

\* Every level of book b is the exchange's after update l, or after update k
\* when that is later; and none is missing if all fit.
ThenOrNow(b, l, k) ==
    \A p \in Prices : p \in Present(b) \/ AllFit =>
        /\ b[p] \in {books[l][p], books[k][p]}
        /\ l >= k => b[p] = books[l][p]

\* A level no update of an event touches is the same after each of them.
LEMMA Untouched ==
  ASSUME books \in Seq(Levels), NEW e, Delivered(e), NEW p \in Prices, p \notin Touched(e),
         NEW j \in (e.first - 1) .. e.final
  PROVE  books[j][p] = books[e.final][p]
  <1> DEFINE i == e.first - 1
             Bad == {k \in 0 .. Latest : i <= k /\ k <= e.final /\ books[k][p] # books[i][p]}
  <1>1. /\ Latest \in Nat /\ e.first \in Nat /\ e.final \in Nat
        /\ 2 <= e.first /\ e.first <= e.final /\ e.final <= Latest
    BY DEF Delivered, Events, Updates, Latest
  <1>2. \A k \in e.first .. e.final : books[k][p] = books[k - 1][p]
    BY DEF Touched
  <1>3. Bad = {}
    <2> SUFFICES ASSUME Bad # {} PROVE FALSE
      OBVIOUS
    <2>1. Bad \in SUBSET (0 .. Latest)
      OBVIOUS
    <2>2. PICK k \in Bad : k = 0 \/ (k \in 1 .. Latest /\ k - 1 \in 0 .. Latest /\ k - 1 \notin Bad)
      BY <1>1, <2>1, SmallestNumber
    <2>3. k \in e.first .. e.final /\ k - 1 \in 0 .. Latest /\ i <= k - 1 /\ k - 1 <= e.final
      BY <1>1, <2>2
    <2>4. books[k - 1][p] = books[i][p]
      BY <2>2, <2>3
    <2>5. books[k][p] = books[i][p]
      BY <1>2, <2>3, <2>4
    <2> QED
      BY <2>2, <2>5
  <1>4. \A k \in i .. e.final : books[k][p] = books[i][p]
    <2>1. \A k \in i .. e.final : k \in 0 .. Latest /\ i <= k /\ k <= e.final
      BY <1>1
    <2> QED
      BY <1>3, <2>1
  <1>5. j \in i .. e.final /\ e.final \in i .. e.final
    BY <1>1
  <1> QED
    BY <1>4, <1>5

LEMMA DiffedType ==
  ASSUME books \in Seq(Levels), NEW b \in Levels, NEW e, Delivered(e)
  PROVE  Diffed(b, e) \in Levels
  <1>1. e.final \in 1 .. Len(books)
    BY DEF Delivered, Events, Updates, Latest
  <1>2. books[e.final] \in Levels
    BY <1>1
  <1> QED
    BY <1>2 DEF Diffed, Levels

\* apply_diff brings every level to the event's last update, unless the book is
\* ahead of it.
LEMMA DiffKeeps ==
  ASSUME books \in Seq(Levels), NEW b \in Levels, NEW l \in Updates, NEW k \in Updates,
         ThenOrNow(b, l, k), NEW e, Delivered(e), e.first <= l + 1, l <= e.final \/ l = k
  PROVE  ThenOrNow(Trim(Diffed(b, e)), e.final, k)
  <1>1. e.first \in Nat /\ e.final \in Nat /\ l \in Nat /\ k \in Nat
    BY DEF Delivered, Events, Updates
  <1>2. Diffed(b, e) \in Levels
    BY DiffedType
  <1>3. ASSUME NEW p \in Prices, p \in Present(Trim(Diffed(b, e))) \/ AllFit
        PROVE  /\ Trim(Diffed(b, e))[p] \in {books[e.final][p], books[k][p]}
               /\ e.final >= k => Trim(Diffed(b, e))[p] = books[e.final][p]
    <2>1. Trim(Diffed(b, e))[p] = Diffed(b, e)[p]
      <3>1. CASE AllFit
        BY <1>2, <3>1, TrimAll
      <3>2. CASE p \in Present(Trim(Diffed(b, e)))
        BY <1>2, <3>2, TrimType DEF Present
      <3> QED
        BY <1>3, <3>1, <3>2
    <2>2. CASE p \in Touched(e)
      BY <2>1, <2>2 DEF Diffed
    <2>3. CASE p \notin Touched(e)
      <3>1. Trim(Diffed(b, e))[p] = b[p]
        BY <2>1, <2>3 DEF Diffed
      <3>2. p \in Present(b) \/ AllFit
        BY <1>3, <3>1 DEF Present
      <3>3. b[p] \in {books[l][p], books[k][p]} /\ (l >= k => b[p] = books[l][p])
        BY <3>2 DEF ThenOrNow
      <3>4. \A j \in (e.first - 1) .. e.final : books[j][p] = books[e.final][p]
        BY <2>3, Untouched
      <3>5. CASE l <= e.final
        <4>1. books[l][p] = books[e.final][p]
          BY <1>1, <3>4, <3>5
        <4>2. e.final >= k /\ l < k => books[k][p] = books[e.final][p]
          BY <1>1, <3>4
        <4> QED
          BY <1>1, <3>1, <3>3, <4>1, <4>2
      <3>6. CASE l > e.final
        BY <1>1, <3>1, <3>3, <3>6
      <3> QED
        BY <1>1, <3>5, <3>6
    <2> QED
      BY <2>2, <2>3
  <1> QED
    BY <1>3 DEF ThenOrNow

LEMMA ApplyType ==
  ASSUME books \in Seq(Levels), NEW s \in Syncs, NEW e, Delivered(e)
  PROVE  /\ ApplyEvent(s, e) \in Syncs
         /\ Cardinality(Present(s.book)) <= Depth =>
                Cardinality(Present(ApplyEvent(s, e).book)) <= Depth
  <1>1. Trim(Diffed(s.book, e)) \in Levels /\ Cardinality(Present(Trim(Diffed(s.book, e)))) <= Depth
    BY DiffedType, TrimType, TrimFits DEF Syncs
  <1>2. e \in Events
    BY DEF Delivered
  <1>3. e.final \in Updates
    BY <1>2 DEF Events
  <1>4. <<e>> \in Seq(Events) /\ Append(s.buffer, e) \in Seq(Events)
    BY <1>2 DEF Syncs
  <1>5. CASE ~s.synced /\ s.last = NoUpdate
    BY <1>4, <1>5 DEF ApplyEvent, Syncs
  <1>6. CASE Gap(s, e) /\ ~(~s.synced /\ s.last = NoUpdate)
    BY <1>4, <1>6 DEF ApplyEvent, Syncs
  <1>7. CASE ~Gap(s, e) /\ ~(~s.synced /\ s.last = NoUpdate)
    <2>1. ApplyEvent(s, e) = [s EXCEPT !.book = Trim(Diffed(s.book, e)), !.last = e.final, !.synced = TRUE]
      BY <1>7 DEF ApplyEvent, ApplyDiff, Syncs
    <2> QED
      BY <1>1, <1>3, <2>1 DEF Syncs
  <1> QED
    BY <1>5, <1>6, <1>7

\* apply_event on a book that was reset: the event is applied, or it reveals a
\* gap and is all that is buffered.
LEMMA ApplyKeeps ==
  ASSUME books \in Seq(Levels), NEW s \in Syncs, s.last # NoUpdate,
         NEW k \in Updates, ThenOrNow(s.book, s.last, k),
         NEW e, Delivered(e), s.last <= e.final \/ s.last = k
  PROVE  /\ ThenOrNow(ApplyEvent(s, e).book, ApplyEvent(s, e).last, k)
         /\ \/ /\ ApplyEvent(s, e).synced
               /\ ApplyEvent(s, e).last = e.final
               /\ ApplyEvent(s, e).buffer = s.buffer
            \/ /\ ~ApplyEvent(s, e).synced
               /\ ApplyEvent(s, e).last = s.last
               /\ ApplyEvent(s, e).book = s.book
               /\ ApplyEvent(s, e).buffer = <<e>>
  <1>1. s.last \in Updates /\ s.book \in Levels
    BY DEF Syncs
  <1>2. CASE Gap(s, e)
    <2>1. ApplyEvent(s, e) = [s EXCEPT !.synced = FALSE, !.buffer = <<e>>]
      BY <1>2 DEF ApplyEvent
    <2> QED
      BY <2>1 DEF Syncs
  <1>3. CASE ~Gap(s, e)
    <2>1. ApplyEvent(s, e) = [s EXCEPT !.book = Trim(Diffed(s.book, e)), !.last = e.final, !.synced = TRUE]
      BY <1>3 DEF ApplyEvent, ApplyDiff, Syncs
    <2>2. e.first <= s.last + 1
      BY <1>1, <1>3 DEF Gap, Delivered, Events, Updates
    <2>3. ThenOrNow(Trim(Diffed(s.book, e)), e.final, k)
      BY <1>1, <2>2, DiffKeeps
    <2> QED
      BY <2>1, <2>3 DEF Syncs
  <1> QED
    BY <1>2, <1>3


\* The buffered events applied to a book that was reset, one after the other.
AllApplied(s, q, n) == FoldLeft(LAMBDA v, e : ApplyNewer(v, e, n), s, q)

AppliesEach(h, s, q, n) ==
    /\ h \in [0 .. Len(q) -> Syncs] /\ h[0] = s
    /\ \A k \in 1 .. Len(q) : h[k] = ApplyNewer(h[k - 1], q[k], n)
    /\ AllApplied(s, q, n) = h[Len(q)]

LEMMA NewerFold ==
  ASSUME books \in Seq(Levels), NEW n, NEW s \in Syncs, NEW q \in Seq(Events),
         \A k \in 1 .. Len(q) : Delivered(q[k])
  PROVE  \E h : AppliesEach(h, s, q, n)
  <1> DEFINE m == Len(q)
             F == [p \in (1 .. m) \X Syncs |-> ApplyNewer(p[2], q[p[1]], n)]
             Fold(g) == g = [t \in SUBSET DOMAIN q |->
                                IF t = {} THEN s ELSE ApplyNewer(g[t \ {Max(t)}], q[Max(t)], n)]
             g == CHOOSE g : Fold(g)
  <1>1. m \in Nat /\ DOMAIN q = 1 .. m /\ \A k \in 1 .. m : Delivered(q[k])
    OBVIOUS
  <1> HIDE DEF m
  <1>2. F \in [(1 .. m) \X Syncs -> Syncs]
    <2>1. ASSUME NEW k \in 1 .. m, NEW v \in Syncs PROVE ApplyNewer(v, q[k], n) \in Syncs
      <3>1. ApplyEvent(v, q[k]) \in Syncs
        BY <1>1, ApplyType
      <3> QED
        BY <3>1 DEF ApplyNewer
    <2> QED
      BY <2>1
  <1>3. \E x : Fold(x) /\ x \in [SUBSET (1 .. m) -> Syncs]
    <2> HIDE DEF F
    <2>1. PICK x : FoldsTo(x, 1 .. m, Lasts(m), Syncs, s, F)
      BY <1>1, <1>2, PrefixFold
    <2>2. /\ x \in [SUBSET (1 .. m) -> Syncs]
          /\ \A t \in SUBSET (1 .. m) :
                 x[t] = IF t = {} THEN s ELSE F[<<Max(t), x[t \ {Max(t)}]>>]
      BY <2>1 DEF FoldsTo, Lasts
    <2>3. ASSUME NEW t \in SUBSET (1 .. m), t # {}
          PROVE  F[<<Max(t), x[t \ {Max(t)}]>>] = ApplyNewer(x[t \ {Max(t)}], q[Max(t)], n)
      <3>1. IsFiniteSet(t) /\ t \in SUBSET Nat
        <4>1. t \in SUBSET (0 .. m)
          BY <1>1
        <4> QED
          BY <1>1, <4>1, NumbersAreFinite
      <3>2. Max(t) \in 1 .. m
        BY <2>3, <3>1, MaxIn
      <3>3. x[t \ {Max(t)}] \in Syncs
        BY <2>2
      <3> QED
        BY <3>2, <3>3 DEF F
    <2>4. Fold(x)
      BY <1>1, <2>2, <2>3
    <2> QED
      BY <2>4, <2>2
  <1>4. Fold(g) /\ AllApplied(s, q, n) = g[1 .. m]
    BY <1>1, <1>3 DEF AllApplied, FoldLeft, MapThenFoldSet
  <1> HIDE DEF g, F
  <1> DEFINE h == [k \in 0 .. m |-> g[1 .. k]]
  <1>5. h[0] = s
    <2>1. 1 .. 0 = {} /\ 0 \in 0 .. m
      BY <1>1
    <2> QED
      BY <1>4, <2>1
  <1>6. ASSUME NEW k \in 1 .. m PROVE h[k] = ApplyNewer(h[k - 1], q[k], n)
    <2>1. /\ 1 .. k \in SUBSET (1 .. m) /\ 1 .. k # {}
          /\ Max(1 .. k) = k /\ (1 .. k) \ {k} = 1 .. (k - 1)
      BY <1>1, PrefixOfNumbers
    <2>2. k \in 0 .. m /\ k - 1 \in 0 .. m
      BY <1>1
    <2>3. g[1 .. k] = ApplyNewer(g[1 .. (k - 1)], q[k], n)
      BY <1>1, <1>4, <2>1
    <2> QED
      BY <2>2, <2>3
  <1>7. h[m] = g[1 .. m] /\ h = [k \in 0 .. m |-> h[k]]
    BY <1>1
  <1> HIDE DEF h
  <1>8. \A k \in 0 .. m : h[k] \in Syncs
    <2> DEFINE Bad == {j \in 0 .. m : h[j] \notin Syncs}
    <2> SUFFICES ASSUME Bad # {} PROVE FALSE
      OBVIOUS
    <2>1. Bad \in SUBSET (0 .. m)
      OBVIOUS
    <2>2. PICK j \in Bad : j = 0 \/ (j \in 1 .. m /\ j - 1 \in 0 .. m /\ j - 1 \notin Bad)
      BY <1>1, <2>1, SmallestNumber
    <2>3. CASE j = 0
      BY <1>5, <2>2, <2>3
    <2>4. CASE j # 0
      <3>1. j \in 1 .. m /\ h[j - 1] \in Syncs
        BY <2>2, <2>4
      <3>2. ApplyEvent(h[j - 1], q[j]) \in Syncs
        BY <1>1, <3>1, ApplyType
      <3>3. h[j] \in Syncs
        BY <1>6, <3>1, <3>2 DEF ApplyNewer
      <3> QED
        BY <2>2, <3>3
    <2> QED
      BY <2>3, <2>4
  <1>9. h \in [0 .. m -> Syncs]
    BY <1>7, <1>8
  <1> QED
    BY <1>4, <1>5, <1>6, <1>7, <1>9 DEF m, AppliesEach

\* A buffer holds events in the order they were handed over.
Buffered(q) ==
    /\ \A k \in 1 .. Len(q) : 2 <= q[k].first /\ q[k].first <= q[k].final /\ q[k].final <= sent
    /\ \A j, k \in 1 .. Len(q) : j < k => q[j].final < q[k].first

LEMMA ResetKeeps ==
  ASSUME books \in Seq(Levels), Latest \in Updates, NEW s \in Syncs, NEW n \in 1 .. Latest
  PROVE  /\ ResetFrom(s, n) \in Syncs
         /\ Cardinality(Present(ResetFrom(s, n).book)) <= Depth
         /\ ResetFrom(s, n).last = n
         /\ ResetFrom(s, n).buffer = << >>
         /\ n \in Updates
         /\ ThenOrNow(ResetFrom(s, n).book, n, n)
  <1>1. n \in Updates /\ books[n] \in Levels
    <2>1. n \in 1 .. Len(books)
      BY DEF Latest
    <2> QED
      BY <2>1, BoundsAssumption DEF Updates, Latest
  <1>2. /\ Trim(books[n]) \in Levels /\ Cardinality(Present(Trim(books[n]))) <= Depth
        /\ \A p \in Prices : Trim(books[n])[p] \in {books[n][p], 0}
    BY <1>1, TrimType, TrimFits
  <1>3. ResetFrom(s, n) = [s EXCEPT !.book = Trim(books[n]), !.last = n, !.buffer = << >>]
    BY DEF ResetFrom, Replaced, Syncs
  <1>4. << >> \in Seq(Events)
    OBVIOUS
  <1>5. ResetFrom(s, n) \in Syncs
    BY <1>1, <1>2, <1>3, <1>4 DEF Syncs
  <1>6. /\ ResetFrom(s, n).book = Trim(books[n])
        /\ ResetFrom(s, n).last = n /\ ResetFrom(s, n).buffer = << >>
    BY <1>3 DEF Syncs
  <1>7. ASSUME NEW p \in Prices, p \in Present(Trim(books[n])) \/ AllFit
        PROVE  Trim(books[n])[p] = books[n][p]
    <2>1. CASE AllFit
      BY <1>1, <2>1, TrimAll
    <2>2. CASE p \in Present(Trim(books[n]))
      BY <1>2, <2>2 DEF Present
    <2> QED
      BY <1>7, <2>1, <2>2
  <1>8. ThenOrNow(Trim(books[n]), n, n)
    BY <1>7 DEF ThenOrNow
  <1> QED
    BY <1>1, <1>2, <1>5, <1>6, <1>8

\* What synchronize leaves: a book of the exchange, at the snapshot's update or
\* at that of a later event.
Loaded(s, n) ==
    /\ s \in Syncs
    /\ Cardinality(Present(s.book)) <= Depth
    /\ ThenOrNow(s.book, s.last, n)
    /\ s.last \in n .. Latest
    /\ s.last # n => s.last <= sent
    /\ Buffered(s.buffer)

LEMMA NewerKeeps ==
  ASSUME books \in Seq(Levels), Latest \in Updates, sent \in 1 .. Latest,
         NEW n \in 1 .. Latest, NEW s, Loaded(s, n),
         NEW e, Delivered(e), e.final <= sent, s.last <= e.final
  PROVE  /\ Loaded(ApplyNewer(s, e, n), n)
         /\ ApplyNewer(s, e, n).last <= e.final
  <1>1. CASE e.final > n
    <2> DEFINE t == ApplyEvent(s, e)
    <2>1. ApplyNewer(s, e, n) = t
      BY <1>1 DEF ApplyNewer
    <2>2. s \in Syncs /\ n \in Updates /\ s.last # NoUpdate /\ ThenOrNow(s.book, s.last, n)
      <3>1. Latest \in Nat /\ MaxUpdates \in Nat /\ Latest <= MaxUpdates + 1
        BY BoundsAssumption DEF Updates
      <3>2. n \in Updates /\ s.last \in n .. Latest
        BY <3>1 DEF Updates, Loaded
      <3> QED
        BY <3>1, <3>2 DEF Loaded, NoUpdate
    <2>3. t \in Syncs /\ Cardinality(Present(t.book)) <= Depth
      BY <2>2, ApplyType DEF Loaded
    <2>4. /\ ThenOrNow(t.book, t.last, n)
          /\ \/ t.last = e.final /\ t.buffer = s.buffer
             \/ t.last = s.last /\ t.buffer = <<e>>
      BY <2>2, ApplyKeeps
    <2>5. e.final \in Nat /\ 2 <= e.first /\ e.first <= e.final /\ e.final <= Latest
      BY DEF Delivered, Events, Updates
    <2>6. Buffered(<<e>>) /\ Buffered(s.buffer)
      <3>1. Len(<<e>>) = 1 /\ <<e>>[1] = e
        OBVIOUS
      <3> QED
        BY <2>5, <3>1 DEF Loaded, Buffered
    <2>7. t.last \in n .. Latest /\ (t.last # n => t.last <= sent) /\ t.last <= e.final
      BY <1>1, <2>4, <2>5 DEF Loaded
    <2> QED
      BY <2>1, <2>3, <2>4, <2>6, <2>7 DEF Loaded
  <1>2. CASE ~(e.final > n)
    BY <1>2 DEF ApplyNewer
  <1> QED
    BY <1>1, <1>2

\* The events that are handed over are the buffer's, from one that ends after
\* the snapshot on.
LEMMA NewerEvents ==
  ASSUME books \in Seq(Levels), Latest \in Updates, sent \in 1 .. Latest,
         NEW n \in 1 .. Latest, NEW s, Loaded(s, n), s.last = n,
         NEW q \in Seq(Events), q # << >>, n <= q[1].final,
         \A k \in 1 .. Len(q) : Delivered(q[k]) /\ q[k].final <= sent,
         \A k \in 2 .. Len(q) : q[k - 1].final <= q[k].final
  PROVE  Loaded(AllApplied(s, q, n), n)
  <1> DEFINE m == Len(q)
             applied == AllApplied(s, q, n)
  <1>1. m \in Nat /\ 1 <= m
    OBVIOUS
  <1>2. PICK h \in [0 .. m -> Syncs] :
          /\ h[0] = s
          /\ \A k \in 1 .. m : h[k] = ApplyNewer(h[k - 1], q[k], n)
          /\ applied = h[m]
    <2>1. s \in Syncs
      BY DEF Loaded
    <2>2. \A k \in 1 .. Len(q) : Delivered(q[k])
      OBVIOUS
    <2>3. PICK h : AppliesEach(h, s, q, n)
      <3> HIDE DEF m, applied
      <3> QED
        BY <2>1, <2>2, NewerFold
    <2> QED
      BY <2>3 DEF AppliesEach
  <1>3. /\ \A k \in 1 .. m : Delivered(q[k]) /\ q[k].final <= sent
        /\ \A k \in 2 .. m : q[k - 1].final <= q[k].final
    OBVIOUS
  <1> HIDE DEF m, applied
  <1>4. ASSUME NEW j \in 1 .. m, Loaded(h[j - 1], n), h[j - 1].last <= q[j].final
        PROVE  Loaded(h[j], n) /\ (j < m => h[j].last <= q[j + 1].final)
    <2>1. Delivered(q[j]) /\ q[j].final <= sent /\ h[j] = ApplyNewer(h[j - 1], q[j], n)
      BY <1>2, <1>3
    <2>2. Loaded(h[j], n) /\ h[j].last <= q[j].final
      BY <1>4, <2>1, NewerKeeps
    <2>3. ASSUME j < m PROVE h[j].last <= q[j + 1].final
      <3>1. j + 1 \in 2 .. m /\ j + 1 \in 1 .. m /\ (j + 1) - 1 = j
        BY <1>1, <2>3
      <3>2. q[j].final <= q[j + 1].final /\ Delivered(q[j + 1])
        BY <1>3, <3>1
      <3>3. q[j].final \in Nat /\ q[j + 1].final \in Nat
        <4>1. \A e \in Events : e.final \in Nat
          BY DEF Events, Updates
        <4> QED
          BY <2>1, <3>2, <4>1 DEF Delivered
      <3>4. h[j].last \in Nat
        <4>1. Latest \in Nat
          BY DEF Updates
        <4> QED
          BY <2>2, <4>1 DEF Loaded
      <3> QED
        BY <2>2, <3>2, <3>3, <3>4
    <2> QED
      BY <2>2, <2>3
  <1>5. Loaded(h[0], n) /\ h[0].last <= q[1].final
    BY <1>2
  <1> DEFINE Good(k) == Loaded(h[k], n) /\ (k < m => h[k].last <= q[k + 1].final)
             Bad == {k \in 0 .. m : ~Good(k)}
  <1>6. Bad = {}
    <2> SUFFICES ASSUME Bad # {} PROVE FALSE
      OBVIOUS
    <2>1. Bad \in SUBSET (0 .. m)
      OBVIOUS
    <2>2. PICK j \in Bad : j = 0 \/ (j \in 1 .. m /\ j - 1 \in 0 .. m /\ j - 1 \notin Bad)
      BY <1>1, <2>1, SmallestNumber
    <2>3. CASE j = 0
      BY <1>5, <2>2, <2>3
    <2>4. CASE j # 0
      <3>1. j \in 1 .. m /\ Good(j - 1)
        BY <2>2, <2>4
      <3>2. j - 1 < m /\ (j - 1) + 1 = j
        BY <1>1, <3>1
      <3>3. Loaded(h[j - 1], n) /\ h[j - 1].last <= q[j].final
        BY <3>1, <3>2
      <3>4. Good(j)
        BY <1>4, <3>1, <3>3
      <3> QED
        BY <2>2, <3>4
    <2> QED
      BY <2>3, <2>4
  <1>7. m \in 0 .. m
    BY <1>1
  <1>8. Loaded(h[m], n)
    BY <1>6, <1>7
  <1> QED
    BY <1>2, <1>8 DEF applied

LEMMA SynchronizeKeeps ==
  ASSUME books \in Seq(Levels), Latest \in Updates, sent \in 1 .. Latest,
         NEW n \in 1 .. Latest, NEW s \in Syncs, Buffered(s.buffer)
  PROVE  Loaded(Synchronize(s, n), n) /\ Synchronize(s, n).synced
  <1> DEFINE I == {i \in 1 .. Len(s.buffer) : Bridges(s.buffer[i], n)}
             bridge == IF I # {} THEN Min(I) ELSE 0
             reset == ResetFrom(s, n)
             q == SubSeq(s.buffer, bridge, Len(s.buffer))
             applied == AllApplied(reset, q, n)
  <1>1. Synchronize(s, n) = [(IF bridge = 0 THEN reset ELSE applied) EXCEPT !.synced = TRUE]
    BY DEF Synchronize, SelectInSeq, AllApplied
  <1> HIDE DEF applied
  <1>2. s.buffer \in Seq(Events) /\ Len(s.buffer) \in Nat
    BY DEF Syncs
  <1>3. Loaded(reset, n) /\ reset.last = n
    <2>1. Buffered(<< >>)
      BY DEF Buffered
    <2>2. n \in n .. Latest
      BY DEF Updates
    <2> QED
      BY <2>1, <2>2, ResetKeeps DEF Loaded
  <1> HIDE DEF reset
  <1>4. ASSUME NEW t, Loaded(t, n)
        PROVE  Loaded([t EXCEPT !.synced = TRUE], n) /\ [t EXCEPT !.synced = TRUE].synced
    <2>1. t \in Syncs
      BY <1>4 DEF Loaded
    <2>2. [t EXCEPT !.synced = TRUE] \in Syncs
      BY <2>1 DEF Syncs
    <2>3. /\ [t EXCEPT !.synced = TRUE].synced
          /\ [t EXCEPT !.synced = TRUE].book = t.book
          /\ [t EXCEPT !.synced = TRUE].last = t.last
          /\ [t EXCEPT !.synced = TRUE].buffer = t.buffer
      BY <2>1 DEF Syncs
    <2> HIDE DEF I, bridge, q
    <2> QED
      BY <1>4, <2>2, <2>3 DEF Loaded
  <1>5. ASSUME bridge # 0 PROVE Loaded(applied, n)
    <2>1. bridge \in 1 .. Len(s.buffer) /\ Bridges(s.buffer[bridge], n)
      <3>1. I # {} /\ I \in SUBSET (0 .. Len(s.buffer)) /\ bridge = Min(I)
        BY <1>5
      <3>2. IsFiniteSet(I) /\ I \in SUBSET Nat
        BY <1>2, <3>1, NumbersAreFinite
      <3>3. Min(I) \in I
        BY <3>1, <3>2, MinIn
      <3>4. bridge \in I
        BY <3>1, <3>3
      <3> QED
        BY <3>4
    <2> HIDE DEF I, bridge
    <2>2. /\ q \in Seq(Events) /\ Len(q) = Len(s.buffer) - bridge + 1 /\ Len(q) \in Nat \ {0}
          /\ \A k \in 1 .. Len(q) : /\ q[k] = s.buffer[bridge + k - 1]
                                    /\ bridge + k - 1 \in 1 .. Len(s.buffer)
      BY <1>2, <2>1
    <2>3. applied = AllApplied(reset, q, n)
      BY DEF applied
    <2> HIDE DEF q
    <2>4. Latest \in Nat /\ sent \in Nat /\ sent <= Latest
      BY DEF Updates
    <2>5. ASSUME NEW k \in 1 .. Len(s.buffer)
          PROVE  Delivered(s.buffer[k]) /\ s.buffer[k].final <= sent
      <3>1. s.buffer[k] \in Events
        BY <1>2
      <3>2. /\ 2 <= s.buffer[k].first /\ s.buffer[k].first <= s.buffer[k].final
            /\ s.buffer[k].final <= sent
        BY DEF Buffered
      <3>3. s.buffer[k].final \in Nat
        BY <3>1 DEF Events, Updates
      <3>4. s.buffer[k].final <= Latest
        BY <2>4, <3>2, <3>3
      <3> QED
        BY <3>1, <3>2, <3>4 DEF Delivered
    <2>6. ASSUME NEW k \in 2 .. Len(q) PROVE q[k - 1].final <= q[k].final
      <3> DEFINE i == bridge + (k - 1) - 1
                 j == bridge + k - 1
      <3>1. i \in 1 .. Len(s.buffer) /\ j \in 1 .. Len(s.buffer) /\ i < j
        <4>1. bridge \in Int
          BY <2>1
        <4>2. k - 1 \in 1 .. Len(q) /\ k \in 1 .. Len(q)
          BY <2>2
        <4>3. i \in 1 .. Len(s.buffer) /\ j \in 1 .. Len(s.buffer)
          BY <2>2, <4>2
        <4>4. i < j
          BY <4>1
        <4> QED
          BY <4>3, <4>4
      <3>2. q[k - 1] = s.buffer[i] /\ q[k] = s.buffer[j]
        BY <2>2
      <3> HIDE DEF i, j
      <3>3. s.buffer[i].final < s.buffer[j].first /\ s.buffer[j].first <= s.buffer[j].final
        BY <3>1 DEF Buffered
      <3>4. s.buffer[i] \in Events /\ s.buffer[j] \in Events
        BY <1>2, <3>1
      <3>5. s.buffer[i].final \in Nat /\ s.buffer[j].final \in Nat /\ s.buffer[j].first \in Nat
        BY <3>4 DEF Events, Updates
      <3>6. s.buffer[i].final <= s.buffer[j].final
        BY <3>3, <3>5
      <3> QED
        BY <3>2, <3>6
    <2>7. n <= q[1].final
      <3>1. q[1] = s.buffer[bridge]
        BY <2>1, <2>2
      <3>2. n + 1 <= s.buffer[bridge].final /\ s.buffer[bridge] \in Events
        BY <1>2, <2>1 DEF Bridges
      <3>3. s.buffer[bridge].final \in Nat
        BY <3>2 DEF Events, Updates
      <3> QED
        BY <2>4, <3>1, <3>2, <3>3
    <2>8. \A k \in 1 .. Len(q) : Delivered(q[k]) /\ q[k].final <= sent
      BY <2>2, <2>5
    <2>9. q # << >>
      BY <2>2
    <2> QED
      BY <1>3, <2>2, <2>3, <2>6, <2>7, <2>8, <2>9, NewerEvents
  <1> HIDE DEF I, bridge, q
  <1> QED
    BY <1>1, <1>3, <1>4, <1>5


-----------------------------------------------------------------------------
(* The order book's inductive invariant.                                   *)

\* A book is ahead of the stream only as the snapshot it was reset from; before
\* the first snapshot there is none; and the cache serves the local book.
BookInv ==
    /\ TypeOK
    /\ cache.book = sync.book /\ cache.last = sync.last
    /\ sync.last = NoUpdate => base = NoUpdate /\ sync.book = NoLevels /\ ~sync.synced
    /\ sync.last # NoUpdate => base # NoUpdate /\ ThenOrNow(sync.book, sync.last, base)
    /\ sync.last <= Latest /\ base <= Latest
    /\ sync.last # base => sync.last <= sent
    /\ Buffered(sync.buffer)

LEMMA BookTypes ==
  ASSUME TypeOK
  PROVE  /\ books \in Seq(Levels) /\ Latest \in Updates /\ Latest \in Nat
         /\ sent \in 1 .. Latest /\ sent \in Nat /\ sync \in Syncs
         /\ sync.last \in Nat /\ base \in Nat
  BY BoundsAssumption DEF TypeOK, Syncs, Events, Updates, NoUpdate, Latest

LEMMA BookStarts == Init => BookInv
  <1> SUFFICES ASSUME Init PROVE BookInv
    OBVIOUS
  <1>1. 1 \in Updates /\ Updates \subseteq Nat
    BY BoundsAssumption DEF Updates
  <1>2. [p \in Prices |-> 1] \in Levels /\ NoLevels \in Levels /\ Present(NoLevels) = {}
    BY <1>1 DEF Levels, NoLevels, Present
  <1>3. books \in Seq(Levels) /\ Len(books) = 1
    BY <1>2 DEF Init
  <1>4. Cardinality(Present(NoLevels)) = 0 /\ 0 <= Depth
    BY <1>2, BoundsAssumption, FS_EmptySet
  <1>5. << >> \in Seq([first : Updates, final : Updates])
    OBVIOUS
  <1>6. EmptySync \in [book : Levels, last : Updates \cup {NoUpdate}, synced : BOOLEAN,
                       buffer : Seq([first : Updates, final : Updates])]
    BY <1>2, <1>5 DEF EmptySync
  <1>7. TypeOK
    <2>1. NoCache \in [book : Levels, last : Updates \cup {NoUpdate}, synced : BOOLEAN]
      BY <1>2 DEF NoCache
    <2>2. Cardinality(Present(sync.book)) <= Depth
      BY <1>4 DEF Init, EmptySync
    <2>3. Latest = 1 /\ sent = 1 /\ 1 \in 1 .. 1
      BY <1>3 DEF Init, Latest
    <2>4. sync = EmptySync /\ cache = NoCache /\ base = NoUpdate /\ loading = FALSE
      BY DEF Init
    <2> QED
      BY <1>1, <1>3, <1>6, <2>1, <2>2, <2>3, <2>4 DEF TypeOK
  <1>8. Buffered(<< >>)
    BY DEF Buffered
  <1> QED
    BY <1>3, <1>7, <1>8 DEF Init, BookInv, EmptySync, NoCache, NoUpdate, Latest

\* A message only makes the buffer older.
LEMMA BufferedLater ==
  ASSUME TypeOK, Buffered(sync.buffer), NEW n \in Updates, sent <= n
  PROVE  /\ \A k \in 1 .. Len(sync.buffer) : sync.buffer[k].final <= n
         /\ \A k \in 1 .. Len(sync.buffer) : sync.buffer[k].final \in Nat
  <1>1. sync.buffer \in Seq(Events) /\ sent \in Nat /\ n \in Nat
    BY BookTypes, BoundsAssumption DEF Syncs, Updates
  <1>2. \A k \in 1 .. Len(sync.buffer) : sync.buffer[k].final \in Nat
    <2>1. \A k \in 1 .. Len(sync.buffer) : sync.buffer[k] \in Events
      BY <1>1
    <2>2. \A e \in Events : e.final \in Nat
      BY BoundsAssumption DEF Events, Updates
    <2> QED
      BY <2>1, <2>2
  <1>3. \A k \in 1 .. Len(sync.buffer) : sync.buffer[k].final <= sent
    BY DEF Buffered
  <1> QED
    BY <1>1, <1>2, <1>3

LEMMA UpdateKeeps ==
  ASSUME BookInv, NEW p \in Prices, NEW q \in Updates \cup {0}, Update(p, q)
  PROVE  BookInv'
  <1>1. /\ books \in Seq(Levels) /\ Latest \in Updates /\ Latest \in Nat
        /\ sent \in 1 .. Latest /\ sync.last \in Nat /\ base \in Nat
    BY BookTypes DEF BookInv
  <1> DEFINE b == [books[Latest] EXCEPT ![p] = q]
  <1>2. b \in Levels
    BY <1>1 DEF Levels, Latest
  <1>3. books' = Append(books, b)
    BY DEF Update
  <1>4. /\ books' \in Seq(Levels) /\ Latest' = Latest + 1
        /\ \A n \in 1 .. Latest : books'[n] = books[n]
    BY <1>1, <1>2, <1>3 DEF Latest
  <1>5. Latest' \in Updates /\ sent' \in 1 .. Latest'
    BY <1>1, <1>4, BoundsAssumption DEF Update, Updates
  <1>6. TypeOK'
    BY <1>4, <1>5 DEF TypeOK, BookInv, Update
  <1>7. ASSUME sync.last # NoUpdate PROVE ThenOrNow(sync.book, sync.last, base)'
    <2>1. sync.last \in 1 .. Latest /\ base \in 1 .. Latest
      BY <1>1, <1>7 DEF BookInv, NoUpdate
    <2>2. books'[sync.last] = books[sync.last] /\ books'[base] = books[base]
      BY <1>4, <2>1
    <2>3. ThenOrNow(sync.book, sync.last, base)
      BY <1>7 DEF BookInv
    <2> QED
      BY <2>2, <2>3 DEF ThenOrNow, AllFit, Present, Update
  <1>8. Buffered(sync.buffer)'
    BY DEF Buffered, BookInv, Update
  <1>9. sync'.last <= Latest' /\ base' <= Latest'
    BY <1>1, <1>4 DEF BookInv, Update
  <1> QED
    BY <1>6, <1>7, <1>8, <1>9 DEF BookInv, Update

\* Reconnect, and the same for the reconnection after a failed request.
LEMMA SkipKeeps ==
  ASSUME BookInv, NEW n \in sent .. Latest, sent' = n, loading' \in BOOLEAN,
         UNCHANGED <<books, sync, cache, base>>
  PROVE  BookInv'
  <1>1. /\ Latest \in Updates /\ Latest \in Nat /\ sent \in 1 .. Latest /\ sync.last \in Nat
        /\ Latest' = Latest
    BY BookTypes DEF BookInv, Latest
  <1>2. n \in Updates /\ n \in 1 .. Latest
    BY <1>1, BoundsAssumption DEF Updates
  <1>3. TypeOK'
    BY <1>1, <1>2 DEF TypeOK, BookInv
  <1>4. ThenOrNow(sync.book, sync.last, base) => ThenOrNow(sync.book, sync.last, base)'
    BY DEF ThenOrNow, AllFit, Present
  <1>5. Buffered(sync.buffer)'
    <2>1. \A k \in 1 .. Len(sync.buffer) : sync.buffer[k].final <= n
      BY <1>1, <1>2, BufferedLater DEF BookInv
    <2> QED
      BY <2>1 DEF Buffered, BookInv
  <1>6. sync.last # base => sync.last <= n
    BY <1>1, <1>2 DEF BookInv
  <1> QED
    BY <1>1, <1>3, <1>4, <1>5, <1>6 DEF BookInv

LEMMA EventDelivered ==
  ASSUME TypeOK, NEW u \in (sent + 1) .. Latest
  PROVE  /\ Delivered(Event(u)) /\ Event(u) \in Events
         /\ Event(u).first = sent + 1 /\ Event(u).final = u
         /\ u \in Updates /\ u \in 1 .. Latest
  <1>1. Latest \in Updates /\ Latest \in Nat /\ sent \in 1 .. Latest
    BY BookTypes
  <1>2. u \in Updates /\ sent + 1 \in Updates /\ u \in 1 .. Latest
    BY <1>1, BoundsAssumption DEF Updates
  <1>3. Event(u) = [first |-> sent + 1, final |-> u]
    BY DEF Event
  <1> QED
    BY <1>1, <1>2, <1>3 DEF Delivered, Events

LEMMA StoredAre ==
  ASSUME BookInv, NEW s \in Syncs,
         ~s.synced => s.book = sync.book /\ s.last = sync.last
  PROVE  /\ Stored(s) \in [book : Levels, last : Updates \cup {NoUpdate}, synced : BOOLEAN]
         /\ Stored(s).book = s.book /\ Stored(s).last = s.last
  <1>1. CASE s.synced
    BY <1>1 DEF Stored, Syncs
  <1>2. CASE ~s.synced
    BY <1>2 DEF Stored, BookInv, TypeOK
  <1> QED
    BY <1>1, <1>2

LEMMA ReceiveSyncedKeeps ==
  ASSUME BookInv, NEW u \in Updates, ReceiveSynced(u)
  PROVE  BookInv' /\ sync'.last # NoUpdate
  <1>1. /\ books \in Seq(Levels) /\ Latest \in Updates /\ Latest \in Nat
        /\ sent \in 1 .. Latest /\ sync \in Syncs /\ sync.last \in Nat /\ base \in Nat
        /\ Latest' = Latest
    BY BookTypes DEF BookInv, ReceiveSynced, Latest
  <1> DEFINE e == Event(u)
             s == ApplyEvent(sync, e)
  <1>2. /\ Delivered(e) /\ e.first = sent + 1 /\ e.final = u /\ e \in Events
        /\ u \in (sent + 1) .. Latest /\ u \in 1 .. Latest
    BY EventDelivered DEF BookInv, ReceiveSynced
  <1>3. /\ sync.synced /\ sync' = s /\ sent' = u /\ cache' = Stored(s)
        /\ books' = books /\ base' = base /\ loading' = loading
    BY DEF ReceiveSynced, Publish
  <1>4. sync.last # NoUpdate /\ base # NoUpdate /\ ThenOrNow(sync.book, sync.last, base)
    BY <1>3 DEF BookInv
  <1>5. base \in Updates /\ sync.last \in Updates
    BY <1>4 DEF BookInv, TypeOK
  <1>6. sync.last <= e.final \/ sync.last = base
    BY <1>1, <1>2 DEF BookInv
  <1> HIDE DEF e
  <1>7. s \in Syncs /\ Cardinality(Present(s.book)) <= Depth
    BY <1>1, <1>2, ApplyType DEF BookInv, TypeOK
  <1>8. /\ ThenOrNow(s.book, s.last, base)
        /\ \/ s.synced /\ s.last = u /\ s.buffer = sync.buffer
           \/ /\ ~s.synced /\ s.last = sync.last
              /\ s.book = sync.book /\ s.buffer = <<e>>
    BY <1>1, <1>2, <1>4, <1>5, <1>6, ApplyKeeps
  <1> HIDE DEF s
  <1>9. /\ cache' \in [book : Levels, last : Updates \cup {NoUpdate}, synced : BOOLEAN]
        /\ cache'.book = s.book /\ cache'.last = s.last
    BY <1>3, <1>7, <1>8, StoredAre
  <1>10. TypeOK'
    BY <1>1, <1>2, <1>3, <1>7, <1>9 DEF TypeOK, BookInv, Syncs, Events
  <1>11. ThenOrNow(sync.book, sync.last, base)'
    BY <1>3, <1>8 DEF ThenOrNow, AllFit, Present
  <1>12. Buffered(sync.buffer)'
    <2>1. CASE s.buffer = sync.buffer
      <3>1. \A k \in 1 .. Len(sync.buffer) : sync.buffer[k].final <= u
        BY <1>1, <1>2, BufferedLater DEF BookInv
      <3> QED
        BY <1>3, <2>1, <3>1 DEF Buffered, BookInv
    <2>2. CASE s.buffer = <<e>>
      <3>1. Len(<<e>>) = 1 /\ <<e>>[1] = e
        OBVIOUS
      <3>2. 2 <= e.first /\ e.first <= e.final /\ e.final <= u
        BY <1>1, <1>2
      <3> QED
        BY <1>3, <2>2, <3>1, <3>2 DEF Buffered
    <2> QED
      BY <1>8, <2>1, <2>2
  <1>13. s.last # NoUpdate /\ s.last <= Latest /\ (s.last # base => s.last <= u)
    BY <1>1, <1>2, <1>4, <1>8 DEF BookInv, NoUpdate
  <1>14. base' <= Latest'
    BY <1>1, <1>3 DEF BookInv
  <1> QED
    BY <1>1, <1>3, <1>4, <1>9, <1>10, <1>11, <1>12, <1>13, <1>14 DEF BookInv

LEMMA ReceiveUnsyncedKeeps ==
  ASSUME BookInv, NEW u \in Updates, ReceiveUnsynced(u)
  PROVE  BookInv'
  <1>1. /\ books \in Seq(Levels) /\ Latest \in Updates /\ Latest \in Nat
        /\ sent \in 1 .. Latest /\ sync \in Syncs /\ sync.last \in Nat
        /\ Latest' = Latest
    BY BookTypes DEF BookInv, ReceiveUnsynced, Latest
  <1> DEFINE e == Event(u)
             q == sync.buffer
  <1>2. /\ Delivered(e) /\ e.first = sent + 1 /\ e.final = u /\ e \in Events
        /\ u \in (sent + 1) .. Latest /\ u \in 1 .. Latest
    BY EventDelivered DEF BookInv, ReceiveUnsynced
  <1>3. /\ sync' = [sync EXCEPT !.buffer = Append(sync.buffer, e)] /\ sent' = u
        /\ books' = books /\ base' = base /\ cache' = cache /\ loading' = TRUE
    BY <1>1 DEF ReceiveUnsynced, Syncs
  <1> HIDE DEF e
  <1>4. q \in Seq(Events) /\ Append(q, e) \in Seq(Events)
    BY <1>1, <1>2 DEF Syncs
  <1>5. /\ sync' \in Syncs /\ sync'.buffer = Append(q, e)
        /\ sync'.book = sync.book /\ sync'.last = sync.last /\ sync'.synced = sync.synced
    BY <1>1, <1>3, <1>4 DEF Syncs
  <1>6. TypeOK'
    BY <1>1, <1>2, <1>3, <1>5 DEF TypeOK, BookInv, Syncs, Events
  <1>7. ThenOrNow(sync.book, sync.last, base) => ThenOrNow(sync.book, sync.last, base)'
    BY <1>3, <1>5 DEF ThenOrNow, AllFit, Present
  <1>8. Buffered(sync.buffer)'
    <2> DEFINE m == Len(q)
               r == Append(q, e)
    <2>1. /\ m \in Nat /\ Len(r) = m + 1 /\ r[m + 1] = e
          /\ \A k \in 1 .. m : r[k] = q[k]
      BY <1>4
    <2>2. \A k \in 1 .. m : q[k].final <= sent /\ q[k].final \in Nat
      <3>1. sent \in Updates /\ sent <= sent
        BY <1>1, BoundsAssumption DEF Updates
      <3> QED
        BY <3>1, BufferedLater DEF BookInv
    <2>3. /\ \A k \in 1 .. m : 2 <= q[k].first /\ q[k].first <= q[k].final
          /\ \A j, k \in 1 .. m : j < k => q[j].final < q[k].first
      BY DEF BookInv, Buffered
    <2> HIDE DEF m, r, q
    <2>4. ASSUME NEW k \in 1 .. Len(r)
          PROVE  2 <= r[k].first /\ r[k].first <= r[k].final /\ r[k].final <= u
      <3>1. CASE k = m + 1
        BY <1>1, <1>2, <2>1, <3>1
      <3>2. CASE k \in 1 .. m
        <4>1. r[k] = q[k] /\ q[k].final <= sent /\ q[k].final \in Nat
          BY <2>1, <2>2, <3>2
        <4>2. sent <= u /\ sent \in Nat /\ u \in Nat
          BY <1>1, <1>2
        <4>3. 2 <= q[k].first /\ q[k].first <= q[k].final
          BY <2>3, <3>2
        <4> QED
          BY <4>1, <4>2, <4>3
      <3> QED
        BY <2>1, <3>1, <3>2
    <2>5. ASSUME NEW j \in 1 .. Len(r), NEW k \in 1 .. Len(r), j < k
          PROVE  r[j].final < r[k].first
      <3>1. j \in 1 .. m
        BY <2>1, <2>5
      <3>2. CASE k = m + 1
        BY <1>1, <1>2, <2>1, <2>2, <3>1, <3>2
      <3>3. CASE k \in 1 .. m
        BY <2>1, <2>3, <2>5, <3>1, <3>3
      <3> QED
        BY <2>1, <3>2, <3>3
    <2>6. sync'.buffer = r /\ sent' = u
      BY <1>3, <1>5 DEF r
    <2> QED
      BY <2>4, <2>5, <2>6 DEF Buffered
  <1>9. sync.last # base => sync.last <= u
    BY <1>1, <1>2 DEF BookInv
  <1> QED
    BY <1>1, <1>3, <1>5, <1>6, <1>7, <1>8, <1>9 DEF BookInv

LEMMA LoadKeeps ==
  ASSUME BookInv, NEW n \in Updates, Load(n)
  PROVE  BookInv' /\ sync'.last # NoUpdate /\ sync'.synced
  <1>1. /\ books \in Seq(Levels) /\ Latest \in Updates /\ Latest \in Nat
        /\ sent \in 1 .. Latest /\ sync \in Syncs
        /\ Latest' = Latest /\ n \in 1 .. Latest /\ n # NoUpdate
    BY BookTypes DEF BookInv, Load, Latest, NoUpdate
  <1> DEFINE s == Synchronize(sync, n)
  <1>2. /\ sync' = s /\ base' = n /\ loading' = FALSE /\ cache' = Stored(s)
        /\ books' = books /\ sent' = sent
    BY DEF Load, Publish
  <1>3. Loaded(s, n) /\ s.synced
    BY <1>1, SynchronizeKeeps DEF BookInv
  <1> HIDE DEF s
  <1>4. /\ s \in Syncs /\ Cardinality(Present(s.book)) <= Depth
        /\ s.last \in n .. Latest /\ (s.last # n => s.last <= sent)
        /\ ThenOrNow(s.book, s.last, n) /\ Buffered(s.buffer)
    BY <1>3 DEF Loaded
  <1>5. /\ cache' \in [book : Levels, last : Updates \cup {NoUpdate}, synced : BOOLEAN]
        /\ cache'.book = s.book /\ cache'.last = s.last
    BY <1>2, <1>3, <1>4, StoredAre
  <1>6. TypeOK'
    BY <1>1, <1>2, <1>4, <1>5 DEF TypeOK, BookInv, Syncs, Events
  <1>7. ThenOrNow(sync.book, sync.last, base)'
    BY <1>2, <1>4 DEF ThenOrNow, AllFit, Present
  <1>8. Buffered(sync.buffer)'
    BY <1>2, <1>4 DEF Buffered
  <1>9. s.last # NoUpdate /\ s.last <= Latest /\ n <= Latest
    BY <1>1, <1>4 DEF NoUpdate
  <1> QED
    BY <1>1, <1>2, <1>3, <1>4, <1>5, <1>6, <1>7, <1>8, <1>9 DEF BookInv

LEMMA BookSteps == BookInv /\ [Next]_vars => BookInv'
  <1> SUFFICES ASSUME BookInv, [Next]_vars PROVE BookInv'
    OBVIOUS
  <1>1. ASSUME NEW p \in Prices, NEW q \in Updates \cup {0}, Update(p, q) PROVE BookInv'
    BY <1>1, UpdateKeeps
  <1>2. ASSUME NEW n \in Updates, Reconnect(n) \/ LoadFails(n) PROVE BookInv'
    <2>1. n \in sent .. Latest /\ sent' = n /\ loading' \in BOOLEAN
          /\ UNCHANGED <<books, sync, cache, base>>
      BY <1>2 DEF Reconnect, LoadFails, BookInv, TypeOK
    <2> QED
      BY <2>1, SkipKeeps
  <1>3. ASSUME NEW n \in Updates, ReceiveSynced(n) PROVE BookInv'
    BY <1>3, ReceiveSyncedKeeps
  <1>4. ASSUME NEW n \in Updates, ReceiveUnsynced(n) PROVE BookInv'
    BY <1>4, ReceiveUnsyncedKeeps
  <1>5. ASSUME NEW n \in Updates, Load(n) PROVE BookInv'
    BY <1>5, LoadKeeps
  <1>6. CASE UNCHANGED vars
    BY <1>6 DEF vars, BookInv, TypeOK, ThenOrNow, AllFit, Present, Buffered, Latest
  <1> QED
    BY <1>1, <1>2, <1>3, <1>4, <1>5, <1>6 DEF Next


-----------------------------------------------------------------------------
(* The browser.                                                            *)

Views == [book : Levels, last : Updates \cup {NoUpdate}]

\* A browser that was answered without being overtaken shows what the cache
\* serves, and what a handler holds is what it serves as long as no book is
\* published; there is nothing to show before the first book.
HubInv ==
    /\ BookInv
    /\ HubTypeOK
    /\ client \in [pc : {"away", "answering", "subscribed"}, held : Views, shown : Views,
                   overtaken : BOOLEAN]
    /\ cache.last = NoUpdate => client.held = NoView /\ client.shown = NoView
    /\ client.pc = "answering" /\ ~client.overtaken => client.held = Cached
    /\ ShownIsServed
    /\ client.pc = "away" => client = Away

LEMMA ViewTypes ==
  ASSUME TypeOK
  PROVE  NoView \in Views /\ Cached \in Views
  <1>1. NoLevels \in Levels
    BY DEF NoLevels, Levels
  <1> QED
    BY <1>1 DEF NoView, View, Cached, Views, TypeOK

LEMMA HubTypes ==
  ASSUME TypeOK,
         client \in [pc : {"away", "answering", "subscribed"}, held : Views, shown : Views,
                     overtaken : BOOLEAN]
  PROVE  HubTypeOK
  BY DEF HubTypeOK, Views

LEMMA HubStarts == HubInit => HubInv
  <1> SUFFICES ASSUME HubInit PROVE HubInv
    OBVIOUS
  <1>1. BookInv /\ TypeOK
    BY BookStarts DEF HubInit, BookInv
  <1>2. client = Away
    BY DEF HubInit
  <1>3. client \in [pc : {"away", "answering", "subscribed"}, held : Views, shown : Views,
                    overtaken : BOOLEAN]
    BY <1>1, <1>2, ViewTypes DEF Away
  <1> QED
    BY <1>1, <1>2, <1>3, HubTypes DEF HubInv, ShownIsServed, Away

\* A client that sees the cache as it was sees it as it is.
LEMMA CacheKept ==
  ASSUME HubInv, BookInv', UNCHANGED client,
         cache'.book = cache.book, cache'.last = cache.last
  PROVE  HubInv'
  <1>1. TypeOK' /\ HubTypeOK'
    <2>1. TypeOK'
      BY DEF BookInv
    <2> QED
      BY <2>1 DEF HubInv, HubTypeOK, Levels, Updates, NoUpdate
  <1>2. Cached' = Cached
    BY DEF Cached, View
  <1> QED
    BY <1>1, <1>2 DEF HubInv, ShownIsServed, Views

LEMMA HubSteps == HubInv /\ [HubNext]_hubvars => HubInv'
  <1> SUFFICES ASSUME HubInv, [HubNext]_hubvars PROVE HubInv'
    OBVIOUS
  <1> DEFINE Clients == [pc : {"away", "answering", "subscribed"}, held : Views, shown : Views,
                         overtaken : BOOLEAN]
  <1>1. TypeOK /\ client \in Clients /\ NoView \in Views /\ Cached \in Views
    BY ViewTypes DEF HubInv, HubTypeOK
  <1>2. cache.last = NoUpdate => Cached = NoView
    BY DEF HubInv, BookInv, Cached, NoView
  <1>3. ASSUME UNCHANGED vars PROVE BookInv' /\ TypeOK' /\ Cached' = Cached /\ cache' = cache
    <2>1. BookInv'
      BY <1>3, BookSteps DEF HubInv
    <2> QED
      BY <1>3, <2>1 DEF vars, BookInv, Cached, View
  <1>4. CASE Subscribe
    <2>1. client' = [client EXCEPT !.pc = "answering", !.held = Cached, !.overtaken = FALSE]
      BY <1>4 DEF Subscribe
    <2>2. /\ client' \in Clients /\ client'.pc = "answering" /\ client'.held = Cached
          /\ client'.shown = client.shown
      BY <1>1, <2>1
    <2>3. BookInv' /\ TypeOK' /\ Cached' = Cached /\ cache' = cache
      BY <1>3, <1>4 DEF Subscribe
    <2>4. HubTypeOK'
      BY <2>2, <2>3 DEF HubTypeOK, Views, Levels, Updates, NoUpdate
    <2> QED
      BY <1>2, <2>2, <2>3, <2>4 DEF HubInv, ShownIsServed, Views
  <1>5. CASE Answer
    <2> DEFINE shown == IF client.held = NoView THEN client.shown ELSE client.held
    <2>1. client' = [client EXCEPT !.pc = "subscribed", !.held = NoView, !.shown = shown]
          /\ client.pc = "answering"
      BY <1>1, <1>5 DEF Answer
    <2>2. shown \in Views
      BY <1>1
    <2> HIDE DEF shown
    <2>3. /\ client' \in Clients /\ client'.pc = "subscribed" /\ client'.held = NoView
          /\ client'.shown = shown /\ client'.overtaken = client.overtaken
      BY <1>1, <2>1, <2>2
    <2>4. BookInv' /\ TypeOK' /\ Cached' = Cached /\ cache' = cache
      BY <1>3, <1>5 DEF Answer
    <2>5. HubTypeOK'
      BY <2>3, <2>4 DEF HubTypeOK, Views, Levels, Updates, NoUpdate
    <2>6. cache.last = NoUpdate => shown = NoView
      BY DEF HubInv, shown
    <2>7. ASSUME ~client.overtaken PROVE shown = Cached
      <3>1. client.held = Cached
        BY <2>1, <2>7 DEF HubInv
      <3>2. Cached = NoView => cache.last = NoUpdate
        BY DEF Cached, NoView, View
      <3>3. CASE client.held = NoView
        BY <2>6, <3>1, <3>2, <3>3
      <3>4. CASE client.held # NoView
        BY <3>1, <3>4 DEF shown
      <3> QED
        BY <3>3, <3>4
    <2> QED
      BY <2>3, <2>4, <2>5, <2>6, <2>7 DEF HubInv, ShownIsServed, Views
  <1>6. CASE Unsubscribe
    <2>1. client' = Away
      BY <1>6 DEF Unsubscribe
    <2>2. client' \in Clients
      BY <1>1, <2>1 DEF Away
    <2>3. BookInv' /\ TypeOK' /\ Cached' = Cached /\ cache' = cache
      BY <1>3, <1>6 DEF Unsubscribe
    <2>4. HubTypeOK'
      BY <2>2, <2>3 DEF HubTypeOK, Views, Levels, Updates, NoUpdate
    <2>5. Away' = Away /\ NoView' = NoView /\ Away.pc = "away" /\ Away.held = NoView /\ Away.shown = NoView
      BY DEF Away, NoView, View, NoLevels, NoUpdate
    <2> QED
      BY <2>1, <2>2, <2>3, <2>4, <2>5 DEF HubInv, ShownIsServed, Views
  <1>7. CASE Broadcast
    <2>1. PICK n \in Updates : ReceiveSynced(n) \/ Load(n)
      BY <1>7 DEF Broadcast
    <2>2. BookInv' /\ TypeOK' /\ sync'.last # NoUpdate
      BY <2>1, ReceiveSyncedKeeps, LoadKeeps DEF HubInv, BookInv
    <2>3. client' = IF sync'.synced /\ Subscribed
                    THEN [client EXCEPT !.shown = Cached', !.overtaken = client.pc = "answering"]
                    ELSE client
      BY <1>7 DEF Broadcast
    <2>4. cache'.last # NoUpdate
      BY <2>2 DEF BookInv
    <2>5. CASE sync'.synced /\ Subscribed
      <3>1. Cached' \in Views
        BY <2>2 DEF Cached, View, Views, TypeOK
      <3> DEFINE o == client.pc = "answering"
      <3>2. client' = [client EXCEPT !.shown = Cached', !.overtaken = o] /\ o \in BOOLEAN
        BY <2>3, <2>5
      <3>3. /\ client' \in Clients /\ client'.pc = client.pc /\ client'.shown = Cached'
            /\ client'.overtaken = o
        <4> HIDE DEF o
        <4> QED
          BY <1>1, <3>1, <3>2
      <3>4. HubTypeOK'
        BY <2>2, <3>3 DEF HubTypeOK, Views, Levels, Updates, NoUpdate
      <3>5. client'.pc # "away"
        BY <2>5, <3>3 DEF Subscribed
      <3> QED
        BY <2>2, <2>4, <3>3, <3>4, <3>5 DEF HubInv, ShownIsServed, Views
    <2>6. CASE ~Subscribed
      <3>1. client' = client /\ client = Away /\ client.pc = "away"
        BY <2>3, <2>6 DEF Subscribed, HubInv
      <3>2. HubTypeOK'
        BY <1>1, <2>2, <3>1 DEF HubTypeOK, Views, Levels, Updates, NoUpdate
      <3>3. Away' = Away
        BY DEF Away, NoView, View, NoLevels, NoUpdate
      <3> QED
        BY <1>1, <2>2, <2>4, <3>1, <3>2, <3>3 DEF HubInv, ShownIsServed, Views
    <2>7. CASE ~sync'.synced
      <3>1. client' = client
        BY <2>3, <2>7
      <3>2. cache'.book = cache.book /\ cache'.last = cache.last
        <4>1. CASE ReceiveSynced(n)
          <5>1. cache' = [cache EXCEPT !.synced = FALSE]
            BY <2>7, <4>1 DEF ReceiveSynced, Publish, Stored
          <5> QED
            BY <1>1, <5>1 DEF TypeOK
        <4>2. CASE Load(n)
          BY <2>7, <4>2, LoadKeeps DEF HubInv
        <4> QED
          BY <2>1, <4>1, <4>2
      <3> QED
        BY <2>2, <3>1, <3>2, CacheKept
    <2> QED
      BY <2>5, <2>6, <2>7
  <1>8. CASE Unpublished
    <2>1. Next /\ UNCHANGED <<cache, client>>
      BY <1>8 DEF Unpublished, Next, Update, Reconnect, ReceiveUnsynced, LoadFails
    <2>2. BookInv'
      BY <2>1, BookSteps DEF HubInv
    <2> QED
      BY <2>1, <2>2, CacheKept
  <1>9. CASE UNCHANGED hubvars
    <2>1. UNCHANGED vars /\ UNCHANGED client
      BY <1>9 DEF hubvars
    <2>2. BookInv' /\ cache' = cache
      BY <1>3, <2>1
    <2> QED
      BY <2>1, <2>2, CacheKept
  <1> QED
    BY <1>4, <1>5, <1>6, <1>7, <1>8, <1>9 DEF HubNext

LEMMA HubInvariant == HubSpec => []HubInv
  BY HubStarts, HubSteps, PTL DEF HubSpec

\* The local book, the cache and the browser's views are well formed, and the
\* local book holds no more levels than the depth, whatever LocalOrderBook is
\* fed.
THEOREM HubTypeCorrectness == HubSpec => []HubTypeOK
  <1>1. HubInv => HubTypeOK
    BY DEF HubInv
  <1> QED
    BY <1>1, HubInvariant, PTL

\* However many updates are lost, late or delivered while a snapshot is fetched,
\* and however far behind the exchange the snapshot is (synchronize,
\* apply_event): once the book has caught up with the snapshot, each of its
\* levels is the exchange's.
THEOREM CaughtUp == HubSpec => []CaughtUpIsExact
  <1>1. HubInv => CaughtUpIsExact
    <2> SUFFICES ASSUME HubInv, sync.last # NoUpdate, sync.last >= base
                 PROVE  /\ \A p \in Present(sync.book) : sync.book[p] = books[sync.last][p]
                        /\ Cardinality(Prices) <= Depth => sync.book = books[sync.last]
      BY DEF CaughtUpIsExact
    <2>1. \A p \in Prices : p \in Present(sync.book) \/ AllFit => sync.book[p] = books[sync.last][p]
      BY DEF HubInv, BookInv, ThenOrNow
    <2>2. sync.book \in Levels /\ books[sync.last] \in Levels
      <3>1. TypeOK /\ sync.last <= Latest
        BY DEF HubInv, BookInv
      <3>2. sync \in Syncs /\ sync.last \in Nat /\ Latest \in Nat /\ books \in Seq(Levels)
        BY <3>1, BookTypes
      <3>3. sync.last \in 1 .. Len(books)
        BY <3>1, <3>2 DEF NoUpdate, Latest
      <3> QED
        BY <3>2, <3>3 DEF Syncs
    <2>3. ASSUME AllFit PROVE sync.book = books[sync.last]
      BY <2>1, <2>2, <2>3 DEF Levels
    <2> QED
      BY <2>1, <2>3 DEF Present, AllFit
  <1> QED
    BY <1>1, HubInvariant, PTL

\* Until then each level served is the exchange's at the last update applied or
\* at the snapshot: none outlives its removal by both.
THEOREM ServedThenOrNow == HubSpec => []ServedIsThenOrNow
  <1>1. HubInv => ServedIsThenOrNow
    <2> SUFFICES ASSUME HubInv, NEW p \in Present(cache.book)
                 PROVE  cache.book[p] \in {books[cache.last][p], books[base][p]}
      BY DEF ServedIsThenOrNow
    <2>1. p \in Prices /\ cache.book[p] # 0 /\ p \in Present(sync.book)
          /\ cache.book = sync.book /\ cache.last = sync.last
      BY DEF Present, HubInv, BookInv
    <2>2. sync.last # NoUpdate
      <3>1. NoLevels[p] = 0
        BY <2>1 DEF NoLevels
      <3> QED
        BY <2>1, <3>1 DEF HubInv, BookInv
    <2>3. ThenOrNow(sync.book, sync.last, base)
      BY <2>2 DEF HubInv, BookInv
    <2> QED
      BY <2>1, <2>3 DEF ThenOrNow
  <1> QED
    BY <1>1, HubInvariant, PTL

\* A browser that subscribes while the stream loop is publishing shows the book
\* the cache serves, unless one was published between handle_client's reading
\* the cache and its answer.
THEOREM Shown == HubSpec => []ShownIsServed
  <1>1. HubInv => ShownIsServed
    BY DEF HubInv
  <1> QED
    BY <1>1, HubInvariant, PTL

=============================================================================
