---------------------------- MODULE LedgerLemmas ----------------------------
(***************************************************************************)
(* What the operators of LedgerRules and LedgerAudit return, keep and      *)
(* bound: facts the proofs about TradingLedger and about LedgerTxn share.  *)
(***************************************************************************)
EXTENDS LedgerAudit, FiniteSetTheorems, TLAPS

-----------------------------------------------------------------------------
(* Sums.  SumFunctionOnSet is a fold that takes the elements in an order   *)
(* of its own.  The facts are proved by induction: a smallest set on which *)
(* a fact fails is shown not to exist.                                     *)

\* A set of subsets of a finite set has a smallest member.
LEMMA SmallestSubset ==
  ASSUME NEW S, IsFiniteSet(S), NEW T, T \subseteq SUBSET S, T # {}
  PROVE  \E s \in T : \A x \in s : s \ {x} \notin T
  <1>1. IsWellFoundedOn(StrictSubsetOrdering(S), SUBSET S)
    BY FS_StrictSubsetOrderingWellFounded, FS_FiniteSubsetsOfFinite
  <1>2. PICK s \in T : \A t \in T : <<t, s>> \notin StrictSubsetOrdering(S)
    BY <1>1, WFMin
  <1>3. \A x \in s : <<s \ {x}, s>> \in StrictSubsetOrdering(S)
    BY <1>2 DEF StrictSubsetOrdering
  <1> QED
    BY <1>2, <1>3

-----------------------------------------------------------------------------
(* The recursive function behind the fold exists and is unique.            *)

Any(s) == CHOOSE x \in s : TRUE

Sums(g, f, S) ==
  g = [s \in SUBSET S |-> IF s = {} THEN 0 ELSE f[Any(s)] + g[s \ {Any(s)}]]

TheSums(f, S) == CHOOSE g : Sums(g, f, S)

LEMMA SumIsSums == \A f, S : SumFunctionOnSet(f, S) = TheSums(f, S)[S]
  BY DEF SumFunctionOnSet, FoldFunctionOnSet, MapThenFoldSet, TheSums, Sums, Any

LEMMA AnyIn == \A s : s # {} => Any(s) \in s
  BY DEF Any

LEMMA SumsAgree ==
  ASSUME NEW D, IsFiniteSet(D), NEW S, S \subseteq D, NEW f, NEW g, NEW h,
         Sums(g, f, D), Sums(h, f, S)
  PROVE  \A s \in SUBSET S : g[s] = h[s]
  <1> DEFINE T == {s \in SUBSET S : g[s] # h[s]}
  <1> SUFFICES ASSUME T # {} PROVE FALSE
    OBVIOUS
  <1>1. IsFiniteSet(S)
    BY FS_Subset
  <1>2. PICK s \in T : \A x \in s : s \ {x} \notin T
    BY <1>1, SmallestSubset
  <1>3. /\ g[s] = IF s = {} THEN 0 ELSE f[Any(s)] + g[s \ {Any(s)}]
        /\ h[s] = IF s = {} THEN 0 ELSE f[Any(s)] + h[s \ {Any(s)}]
    <2>1. s \in SUBSET S /\ s \in SUBSET D
      BY <1>2
    <2> QED
      BY <2>1 DEF Sums
  <1>4. s # {} => g[s \ {Any(s)}] = h[s \ {Any(s)}]
    BY <1>2, AnyIn
  <1> QED
    BY <1>2, <1>3, <1>4

LEMMA SumsRestrict ==
  ASSUME NEW D, NEW S, S \subseteq D, NEW f, NEW g, Sums(g, f, D)
  PROVE  Sums([s \in SUBSET S |-> g[s]], f, S)
  <1> DEFINE h == [s \in SUBSET S |-> g[s]]
  <1>1. ASSUME NEW s \in SUBSET S
        PROVE  h[s] = IF s = {} THEN 0 ELSE f[Any(s)] + h[s \ {Any(s)}]
    BY DEF Sums
  <1> QED
    BY <1>1 DEF Sums

LEMMA SumsExist ==
  ASSUME NEW D, IsFiniteSet(D), NEW f
  PROVE  Sums(TheSums(f, D), f, D)
  <1> DEFINE T == {S \in SUBSET D : ~ \E g : Sums(g, f, S)}
  <1>1. T = {}
    <2> SUFFICES ASSUME T # {} PROVE FALSE
      OBVIOUS
    <2>1. PICK S \in T : \A x \in S : S \ {x} \notin T
      BY SmallestSubset
    <2>2. CASE S = {}
      <3>1. Sums([s \in SUBSET S |-> 0], f, S)
        BY <2>2 DEF Sums
      <3> QED
        BY <2>1, <3>1
    <2>3. CASE S # {}
      <3> DEFINE c == Any(S)
                 V(s) == TheSums(f, s)[s]
                 G == [s \in SUBSET S |-> IF s = {} THEN 0 ELSE f[Any(s)] + V(s \ {Any(s)})]
      <3>1. \A x \in S : Sums(TheSums(f, S \ {x}), f, S \ {x})
        BY <2>1 DEF TheSums
      <3>2. ASSUME NEW s \in SUBSET S, s # S PROVE Sums(TheSums(f, s), f, s)
        <4>1. PICK x \in S : s \subseteq S \ {x}
          BY <3>2
        <4>2. PICK g : Sums(g, f, S \ {x})
          BY <3>1
        <4>3. Sums([t \in SUBSET s |-> g[t]], f, s)
          BY <4>1, <4>2, SumsRestrict
        <4> QED
          BY <4>3 DEF TheSums
      <3>3. ASSUME NEW s \in SUBSET S, s # S PROVE V(s) = G[s]
        <4>1. CASE s = {}
          BY <4>1, <3>2 DEF Sums
        <4>2. CASE s # {}
          <5> DEFINE t == s \ {Any(s)}
          <5>1. t \subseteq s /\ t \in SUBSET S /\ t # S
            BY <3>3
          <5>2. Sums(TheSums(f, s), f, s) /\ Sums(TheSums(f, t), f, t)
            BY <3>2, <3>3, <5>1
          <5>3. IsFiniteSet(s)
            BY FS_Subset
          <5>4. TheSums(f, s)[t] = V(t)
            BY <5>1, <5>2, <5>3, SumsAgree
          <5>5. V(s) = f[Any(s)] + TheSums(f, s)[t]
            BY <4>2, <5>2 DEF Sums
          <5> QED
            BY <4>2, <5>4, <5>5
        <4> QED
          BY <4>1, <4>2
      <3>4. ASSUME NEW s \in SUBSET S, s # {} PROVE s \ {Any(s)} # S /\ s \ {Any(s)} \in SUBSET S
        BY <3>4, AnyIn
      <3>5. G = [s \in SUBSET S |-> IF s = {} THEN 0 ELSE f[Any(s)] + G[s \ {Any(s)}]]
        BY <3>3, <3>4
      <3>6. Sums(G, f, S)
        BY <3>5 DEF Sums
      <3> QED
        BY <2>1, <3>6
    <2> QED
      BY <2>2, <2>3
  <1> QED
    BY <1>1 DEF TheSums

-----------------------------------------------------------------------------
(* The sum itself.                                                         *)

LEMMA SumEmpty == \A f : SumFunctionOnSet(f, {}) = 0
  <1> SUFFICES ASSUME NEW f PROVE SumFunctionOnSet(f, {}) = 0
    OBVIOUS
  <1>1. Sums(TheSums(f, {}), f, {})
    BY SumsExist, FS_EmptySet
  <1>2. TheSums(f, {})[{}] = 0
    BY <1>1 DEF Sums
  <1> QED
    BY <1>2, SumIsSums

LEMMA SumChosen ==
  ASSUME NEW S, IsFiniteSet(S), S # {}, NEW f
  PROVE  SumFunctionOnSet(f, S) = f[Any(S)] + SumFunctionOnSet(f, S \ {Any(S)})
  <1> DEFINE t == S \ {Any(S)}
  <1>1. Sums(TheSums(f, S), f, S) /\ Sums(TheSums(f, t), f, t)
    BY SumsExist, FS_Subset
  <1>2. TheSums(f, S)[t] = TheSums(f, t)[t]
    BY <1>1, SumsAgree
  <1>3. TheSums(f, S)[S] = f[Any(S)] + TheSums(f, S)[t]
    BY <1>1 DEF Sums
  <1> QED
    BY <1>2, <1>3, SumIsSums

\* A sum of integers is an integer.
LEMMA SumInt ==
  ASSUME NEW S, IsFiniteSet(S), NEW f, \A x \in S : f[x] \in Int
  PROVE  SumFunctionOnSet(f, S) \in Int
  <1> DEFINE T == {s \in SUBSET S : SumFunctionOnSet(f, s) \notin Int}
  <1> SUFFICES ASSUME T # {} PROVE FALSE
    OBVIOUS
  <1>1. PICK s \in T : \A x \in s : s \ {x} \notin T
    BY SmallestSubset
  <1>2. s # {}
    BY <1>1, SumEmpty
  <1>3. Any(s) \in s /\ IsFiniteSet(s)
    BY <1>1, <1>2, AnyIn, FS_Subset
  <1>4. SumFunctionOnSet(f, s \ {Any(s)}) \in Int
    BY <1>1, <1>3
  <1>5. SumFunctionOnSet(f, s) = f[Any(s)] + SumFunctionOnSet(f, s \ {Any(s)})
    BY <1>2, <1>3, SumChosen
  <1> QED
    BY <1>1, <1>3, <1>4, <1>5

\* Any element may be taken out of a sum.
LEMMA SumTake ==
  ASSUME NEW S, IsFiniteSet(S), NEW f, \A y \in S : f[y] \in Int, NEW x \in S
  PROVE  SumFunctionOnSet(f, S) = f[x] + SumFunctionOnSet(f, S \ {x})
  <1> DEFINE Sum(s) == SumFunctionOnSet(f, s)
             T == {s \in SUBSET S : \E y \in s : Sum(s) # f[y] + Sum(s \ {y})}
  <1> SUFFICES ASSUME T # {} PROVE FALSE
    OBVIOUS
  <1>1. PICK s \in T : \A y \in s : s \ {y} \notin T
    BY SmallestSubset
  <1>2. PICK y \in s : Sum(s) # f[y] + Sum(s \ {y})
    BY <1>1
  <1> DEFINE c == Any(s)
  <1>3. c \in s /\ IsFiniteSet(s) /\ s # {} /\ s \in SUBSET S
    BY <1>1, <1>2, AnyIn, FS_Subset
  <1>4. Sum(s) = f[c] + Sum(s \ {c})
    BY <1>3, SumChosen
  <1>5. c # y
    BY <1>2, <1>4
  <1>6. Sum(s \ {c}) = f[y] + Sum((s \ {c}) \ {y})
    BY <1>1, <1>2, <1>3, <1>5
  <1>7. Sum(s \ {y}) = f[c] + Sum((s \ {y}) \ {c})
    BY <1>1, <1>2, <1>3, <1>5
  <1>8. (s \ {y}) \ {c} = (s \ {c}) \ {y}
    OBVIOUS
  <1>9. IsFiniteSet((s \ {c}) \ {y}) /\ (s \ {c}) \ {y} \subseteq S
    BY <1>3, FS_Subset
  <1>10. Sum((s \ {c}) \ {y}) \in Int /\ f[c] \in Int /\ f[y] \in Int
    BY <1>2, <1>3, <1>9, SumInt
  <1>11. f[c] + (f[y] + Sum((s \ {c}) \ {y})) = f[y] + (f[c] + Sum((s \ {c}) \ {y}))
    BY <1>10
  <1>12. Sum(s \ {y}) = f[c] + Sum((s \ {c}) \ {y})
    BY <1>7, <1>8
  <1>13. Sum(s) = f[y] + Sum(s \ {y})
    BY <1>4, <1>6, <1>11, <1>12
  <1> QED
    BY <1>2, <1>13

\* A sum depends on the values summed only.
LEMMA SumSame ==
  ASSUME NEW S, IsFiniteSet(S), NEW f, NEW g, \A x \in S : f[x] = g[x]
  PROVE  SumFunctionOnSet(f, S) = SumFunctionOnSet(g, S)
  <1> DEFINE T == {s \in SUBSET S : SumFunctionOnSet(f, s) # SumFunctionOnSet(g, s)}
  <1> SUFFICES ASSUME T # {} PROVE FALSE
    OBVIOUS
  <1>1. PICK s \in T : \A x \in s : s \ {x} \notin T
    BY SmallestSubset
  <1>2. s # {}
    BY <1>1, SumEmpty
  <1>3. Any(s) \in s /\ IsFiniteSet(s)
    BY <1>1, <1>2, AnyIn, FS_Subset
  <1>4. SumFunctionOnSet(f, s \ {Any(s)}) = SumFunctionOnSet(g, s \ {Any(s)})
    BY <1>1, <1>3
  <1>5. /\ SumFunctionOnSet(f, s) = f[Any(s)] + SumFunctionOnSet(f, s \ {Any(s)})
        /\ SumFunctionOnSet(g, s) = g[Any(s)] + SumFunctionOnSet(g, s \ {Any(s)})
    BY <1>2, <1>3, SumChosen
  <1> QED
    BY <1>1, <1>3, <1>4, <1>5

\* Changing one value changes the sum by the difference.
LEMMA SumUpdate ==
  ASSUME NEW S, IsFiniteSet(S), NEW f, NEW g, NEW x \in S,
         \A y \in S : f[y] \in Int /\ g[y] \in Int,
         \A y \in S \ {x} : f[y] = g[y]
  PROVE  SumFunctionOnSet(g, S) = SumFunctionOnSet(f, S) + (g[x] - f[x])
  <1>1. SumFunctionOnSet(f, S) = f[x] + SumFunctionOnSet(f, S \ {x})
    BY SumTake
  <1>2. SumFunctionOnSet(g, S) = g[x] + SumFunctionOnSet(g, S \ {x})
    BY SumTake
  <1>3. IsFiniteSet(S \ {x})
    BY FS_Subset
  <1>4. SumFunctionOnSet(f, S \ {x}) = SumFunctionOnSet(g, S \ {x})
    BY <1>3, SumSame
  <1>5. SumFunctionOnSet(f, S \ {x}) \in Int
    BY <1>3, SumInt
  <1> QED
    BY <1>1, <1>2, <1>4, <1>5

\* A sum of zeros is zero.
LEMMA SumZero ==
  ASSUME NEW S, IsFiniteSet(S), NEW f, \A x \in S : f[x] = 0
  PROVE  SumFunctionOnSet(f, S) = 0
  <1> DEFINE T == {s \in SUBSET S : SumFunctionOnSet(f, s) # 0}
  <1> SUFFICES ASSUME T # {} PROVE FALSE
    OBVIOUS
  <1>1. PICK s \in T : \A x \in s : s \ {x} \notin T
    BY SmallestSubset
  <1>2. s # {}
    BY <1>1, SumEmpty
  <1>3. Any(s) \in s /\ IsFiniteSet(s)
    BY <1>1, <1>2, AnyIn, FS_Subset
  <1>4. SumFunctionOnSet(f, s \ {Any(s)}) = 0 /\ f[Any(s)] = 0
    BY <1>1, <1>3
  <1>5. SumFunctionOnSet(f, s) = f[Any(s)] + SumFunctionOnSet(f, s \ {Any(s)})
    BY <1>2, <1>3, SumChosen
  <1> QED
    BY <1>1, <1>4, <1>5

\* A sum of naturals is a natural, and bounds each of them.
LEMMA SumNat ==
  ASSUME NEW S, IsFiniteSet(S), NEW f, \A x \in S : f[x] \in Nat
  PROVE  SumFunctionOnSet(f, S) \in Nat
  <1> DEFINE T == {s \in SUBSET S : SumFunctionOnSet(f, s) \notin Nat}
  <1> SUFFICES ASSUME T # {} PROVE FALSE
    OBVIOUS
  <1>1. PICK s \in T : \A x \in s : s \ {x} \notin T
    BY SmallestSubset
  <1>2. s # {}
    BY <1>1, SumEmpty
  <1>3. Any(s) \in s /\ IsFiniteSet(s)
    BY <1>1, <1>2, AnyIn, FS_Subset
  <1>4. SumFunctionOnSet(f, s \ {Any(s)}) \in Nat
    BY <1>1, <1>3
  <1>5. SumFunctionOnSet(f, s) = f[Any(s)] + SumFunctionOnSet(f, s \ {Any(s)})
    BY <1>2, <1>3, SumChosen
  <1> QED
    BY <1>1, <1>3, <1>4, <1>5

LEMMA SumBounds ==
  ASSUME NEW S, IsFiniteSet(S), NEW f, \A y \in S : f[y] \in Nat, NEW x \in S
  PROVE  f[x] <= SumFunctionOnSet(f, S)
  <1>1. SumFunctionOnSet(f, S) = f[x] + SumFunctionOnSet(f, S \ {x})
    BY SumTake
  <1>2. IsFiniteSet(S \ {x})
    BY FS_Subset
  <1>3. SumFunctionOnSet(f, S \ {x}) \in Nat
    BY <1>2, SumNat
  <1> QED
    BY <1>1, <1>3

-----------------------------------------------------------------------------
(* Money.                                                                  *)

LEMMA ProductNat == ASSUME NEW a \in Nat, NEW b \in Nat PROVE a * b \in Nat
  BY SMT

\* Fees are at most the notional, so neither side of a trade pays to sell.
LEMMA GrossNat == ASSUME NEW n \in Nat PROVE Gross(n) \in Nat
  <1>1. Scale + FeeRate \in Nat
    BY MoneyAssumption
  <1>2. n * (Scale + FeeRate) \in Nat
    BY <1>1, ProductNat
  <1> QED
    BY <1>2 DEF Gross

LEMMA NetNat == ASSUME NEW n \in Nat PROVE Net(n) \in Nat
  <1>1. Scale - FeeRate \in Nat
    BY MoneyAssumption
  <1>2. n * (Scale - FeeRate) \in Nat
    BY <1>1, ProductNat
  <1> QED
    BY <1>2 DEF Net

LEMMA ReserveNat == ASSUME NEW o \in OrderRows PROVE Reserve(o) \in Nat
  <1>1. o.limit * o.quantity \in Nat
    BY ProductNat DEF OrderRows
  <1> QED
    BY <1>1, GrossNat DEF Reserve

\* The cost carried by some units of a held position is a whole amount.
LEMMA CostShareInt ==
  ASSUME NEW p \in PositionRows, NEW k \in Int, p.quantity > 0
  PROVE  CostShare(p, k) \in Int
  <1>1. p.cost * k \in Int
    BY SMT DEF PositionRows
  <1> QED
    BY <1>1 DEF CostShare, PositionRows

\* Division rounds down, by less than one.
LEMMA DivBounds ==
  ASSUME NEW x \in Int, NEW q \in Nat \ {0}
  PROVE  x \div q \in Int /\ q * (x \div q) <= x /\ x < q * (x \div q) + q
  BY SMT

LEMMA BelowTwo ==
  ASSUME NEW d \in Int, NEW q \in Nat \ {0}, 0 <= q * d, q * d < 2 * q
  PROVE  d = 0 \/ d = 1
  <1>1. CASE d < 0
    <2>1. q * d < 0
      BY <1>1, SMT
    <2> QED
      BY <2>1
  <1>2. CASE d >= 2
    <2>1. q * d >= q * 2
      BY <1>2, SMT
    <2> QED
      BY <2>1
  <1> QED
    BY <1>1, <1>2

LEMMA MultipleDiv ==
  ASSUME NEW x \in Int, NEW q \in Nat \ {0}
  PROVE  (q * x) \div q = x
  <1> DEFINE y == (q * x) \div q
  <1>1. y \in Int /\ q * y <= q * x /\ q * x < q * y + q
    BY DivBounds
  <1>2. q * (x - y) = q * x - q * y
    BY <1>1, SMT
  <1>3. x - y = 0 \/ x - y = 1
    BY <1>1, <1>2, BelowTwo
  <1>4. CASE x - y = 1
    <2>1. q * (x - y) = q
      BY <1>4
    <2> QED
      BY <1>1, <1>2, <2>1
  <1> QED
    BY <1>1, <1>3, <1>4

\* A position's average entry price is a whole number of units of cash.
WholeAverage(p) == p.quantity > 0 => \E x \in Int : p.cost = x * p.quantity

\* What is sold and what is kept carry the cost basis between them, but for
\* at most one unit of cash, and all of it at a whole average price.
LEMMA SharesSplit ==
  ASSUME NEW p \in PositionRows, p.quantity > 0, NEW k \in Int
  PROVE  LET d == p.cost - (CostShare(p, k) + CostShare(p, p.quantity - k))
         IN  (d = 0 \/ d = 1) /\ (WholeAverage(p) => d = 0)
  <1> DEFINE c == p.cost
             q == p.quantity
             s == c * k
             t == c * (q - k)
             d == c - (s \div q + t \div q)
  <1>1. c \in Int /\ q \in Nat \ {0}
    BY DEF PositionRows
  <1>2. s \in Int /\ t \in Int /\ s + t = q * c
    BY <1>1, SMT
  <1>3. /\ s \div q \in Int /\ q * (s \div q) <= s /\ s < q * (s \div q) + q
        /\ t \div q \in Int /\ q * (t \div q) <= t /\ t < q * (t \div q) + q
    BY <1>1, <1>2, DivBounds
  <1>4. d = 0 \/ d = 1
    <2> DEFINE m == s \div q
               n == t \div q
    <2>1. m \in Int /\ n \in Int
      BY <1>3
    <2> HIDE DEF m, n
    <2>2. q * (c - (m + n)) = q * c - q * m - q * n
      BY <1>1, <2>1, SMT
    <2>3. q * m \in Int /\ q * n \in Int /\ q * c \in Int
      BY <1>1, <2>1, SMT
    <2>4. q * m <= s /\ s < q * m + q /\ q * n <= t /\ t < q * n + q
      BY <1>3 DEF m, n
    <2> HIDE DEF s, t, c, q
    <2>5. 0 <= q * (c - (m + n)) /\ q * (c - (m + n)) < 2 * q
      BY <1>1, <1>2, <2>2, <2>3, <2>4
    <2>6. c - (m + n) \in Int
      BY <1>1, <2>1
    <2> QED
      BY <1>1, <2>5, <2>6, BelowTwo DEF m, n
  <1>5. ASSUME WholeAverage(p) PROVE d = 0
    <2>1. PICK x \in Int : c = x * q
      BY <1>1, <1>5 DEF WholeAverage
    <2>2. s = q * (x * k) /\ t = q * (x * (q - k)) /\ x * k \in Int /\ x * (q - k) \in Int
      BY <1>1, <2>1, SMT
    <2>3. s \div q = x * k /\ t \div q = x * (q - k)
      BY <1>1, <2>2, MultipleDiv
    <2>4. x * k + x * (q - k) = x * q
      BY <1>1, SMT
    <2> QED
      BY <1>1, <2>1, <2>3, <2>4
  <1> QED
    BY <1>4, <1>5 DEF CostShare

-----------------------------------------------------------------------------
(* Rows.  A good row has its type and is solvent; each update of a row     *)
(* keeps it good under the guard its callers check.                        *)

GoodCash(c) == c \in CashRows /\ c.available >= 0 /\ c.locked >= 0
GoodPosition(p) == p \in PositionRows /\ 0 <= p.locked /\ p.locked <= p.quantity

LEMMA PayFromAvailableGood ==
  ASSUME NEW c, GoodCash(c), NEW n \in Nat, Gross(n) <= c.available
  PROVE  GoodCash(PayFromAvailable(c, n))
  BY GrossNat DEF GoodCash, CashRows, PayFromAvailable

LEMMA CreditGood ==
  ASSUME NEW c, GoodCash(c), NEW n \in Nat
  PROVE  GoodCash(Credit(c, n))
  BY NetNat DEF GoodCash, CashRows, Credit

LEMMA PayFromLockedGood ==
  ASSUME NEW c, GoodCash(c), NEW o \in OrderRows, Reserve(o) <= c.locked
  PROVE  GoodCash(PayFromLocked(c, o))
  BY ReserveNat DEF GoodCash, CashRows, PayFromLocked

LEMMA ReserveCashGood ==
  ASSUME NEW c, GoodCash(c), NEW o \in OrderRows, Reserve(o) <= c.available
  PROVE  GoodCash(ReserveCash(c, o))
  BY ReserveNat DEF GoodCash, CashRows, ReserveCash

LEMMA ReleaseCashGood ==
  ASSUME NEW c, GoodCash(c), NEW o \in OrderRows
  PROVE  GoodCash(ReleaseCash(c, o))
  BY ReserveNat DEF GoodCash, CashRows, ReleaseCash, AtLeastZero

LEMMA AddLotGood ==
  ASSUME NEW p, GoodPosition(p), NEW k \in Nat, NEW n \in Nat
  PROVE  GoodPosition(AddLot(p, k, n))
  <1>1. p.quantity + k \in Int /\ p.cost + Gross(n) \in Int
    BY GrossNat DEF GoodPosition, PositionRows
  <1>2. AddLot(p, k, n) \in PositionRows
    BY <1>1 DEF GoodPosition, PositionRows, AddLot
  <1>3. AddLot(p, k, n).quantity = p.quantity + k /\ AddLot(p, k, n).locked = p.locked
    BY DEF GoodPosition, PositionRows, AddLot
  <1> QED
    BY <1>2, <1>3 DEF GoodPosition, PositionRows

LEMMA ReserveLotGood ==
  ASSUME NEW p, GoodPosition(p), NEW o \in OrderRows, o.quantity <= Free(p)
  PROVE  GoodPosition(ReserveLot(p, o))
  BY DEF GoodPosition, PositionRows, OrderRows, ReserveLot, Free

LEMMA ReleaseLotGood ==
  ASSUME NEW p, GoodPosition(p), NEW o \in OrderRows
  PROVE  GoodPosition(ReleaseLot(p, o))
  BY DEF GoodPosition, PositionRows, OrderRows, ReleaseLot, AtLeastZero

LEMMA UnlockLotGood ==
  ASSUME NEW p, GoodPosition(p)
  PROVE  GoodPosition([p EXCEPT !.locked = 0])
  BY DEF GoodPosition, PositionRows

\* A sale takes free units, or locked units off the lock as well.
LEMMA RemoveLotGood ==
  ASSUME NEW p, GoodPosition(p), NEW k \in Nat, NEW u \in Nat, p.quantity > 0,
         u <= p.locked, k - u <= Free(p), u <= k
  PROVE  GoodPosition(RemoveLot(p, k, u))
  <1>1. p.quantity - k \in Int /\ p.locked - u \in Int
    BY DEF GoodPosition, PositionRows
  <1>2. CostShare(p, p.quantity - k) \in Int
    BY <1>1, CostShareInt DEF GoodPosition
  <1>3. 0 <= p.locked - u /\ p.locked - u <= p.quantity - k
    BY DEF GoodPosition, PositionRows, Free
  <1> QED
    BY <1>1, <1>2, <1>3 DEF RemoveLot, GoodPosition, PositionRows

LEMMA RealizedByInt ==
  ASSUME NEW p, GoodPosition(p), NEW k \in Nat, NEW n \in Nat, p.quantity > 0
  PROVE  RealizedBy(p, k, n) \in Int
  BY NetNat, CostShareInt DEF RealizedBy, GoodPosition

-----------------------------------------------------------------------------
(* Orders.                                                                 *)

LEMMA RequestFacts ==
  ASSUME NEW r \in Requests
  PROVE  /\ r.asset \in Assets /\ r.side \in Sides /\ r.quantity \in Nat \ {0}
         /\ r.quantity \in Quantities /\ r.limit \in Nat
         /\ r.limit * r.quantity \in Nat
  <1>1. r \in RequestRows
    BY RequestsAssumption
  <1>2. r.quantity \in Nat /\ r.limit \in Nat
    BY <1>1, SizesAssumption DEF RequestRows
  <1> QED
    BY <1>1, <1>2, ProductNat, SizesAssumption DEF RequestRows

LEMMA OrderOfType ==
  ASSUME NEW r \in Requests, NEW s \in OrderStatuses, NEW f \in Nat, NEW n \in Nat
  PROVE  OrderOf(r, s, f, n) \in OrderRows
  <1>1. r \in RequestRows /\ r.quantity \in Nat
    BY RequestsAssumption, RequestFacts
  <1> QED
    BY <1>1 DEF RequestRows, OrderOf, OrderRows, OrderClients

LEMMA ExitOrderOfType ==
  ASSUME NEW i \in OrderIds, NEW e \in OrderRows, NEW kind \in ExitKinds,
         NEW k \in Nat, NEW n \in Nat
  PROVE  ExitOrderOf(i, e, kind, k, n) \in OrderRows
  BY DEF ExitOrderOf, OrderRows, OrderClients, OrderStatuses, Sides

LEMMA NoOrderType == NoOrder \in OrderRows
  <1>1. (CHOOSE a \in Assets : TRUE) \in Assets
    BY SizesAssumption
  <1> QED
    BY <1>1 DEF NoOrder, OrderRows, OrderClients, OrderStatuses, Sides

LEMMA WalkedNotionalNat ==
  ASSUME NEW r \in Requests, NEW q \in Quotes
  PROVE  WalkedNotional(r, q) \in Nat
  <1>1. q \in QuoteRows /\ r.quantity \in Quantities
    BY QuotesAssumption, RequestFacts
  <1> QED
    BY <1>1 DEF QuoteRows, WalkedNotional

-----------------------------------------------------------------------------
(* The totals of the audit: what one changed order does to each.           *)

LEMMA CashPromiseNat == ASSUME NEW o \in OrderRows PROVE CashPromise(o) \in Nat
  BY ReserveNat DEF CashPromise

LEMMA LotPromiseNat == ASSUME NEW o \in OrderRows, NEW a PROVE LotPromise(o, a) \in Nat
  BY DEF LotPromise, OrderRows

LEMMA LotMovedInt == ASSUME NEW o \in OrderRows, NEW a PROVE LotMoved(o, a) \in Int
  BY DEF LotMoved, OrderRows

LEMMA CashSpentInt == ASSUME NEW o \in OrderRows PROVE CashSpent(o) \in Int
  <1>1. o.notional \in Nat
    BY DEF OrderRows
  <1> QED
    BY <1>1, GrossNat, NetNat DEF CashSpent

LEMMA OrdersFinite == IsFiniteSet(OrderIds)
  BY SizesAssumption

LEMMA TotalsNat ==
  ASSUME NEW os \in [OrderIds -> OrderRows], NEW a
  PROVE  /\ PromisedCash(os) \in Nat /\ PromisedLot(os, a) \in Nat
         /\ NetSpent(os) \in Int /\ NetLot(os, a) \in Int
  <1>1. \A i \in OrderIds : /\ CashPromise(os[i]) \in Nat /\ LotPromise(os[i], a) \in Nat
                            /\ CashSpent(os[i]) \in Int /\ LotMoved(os[i], a) \in Int
    BY CashPromiseNat, LotPromiseNat, CashSpentInt, LotMovedInt
  <1>2. PromisedCash(os) \in Nat
    BY <1>1, OrdersFinite, SumNat DEF PromisedCash
  <1>3. PromisedLot(os, a) \in Nat
    BY <1>1, OrdersFinite, SumNat DEF PromisedLot
  <1>4. NetSpent(os) \in Int
    BY <1>1, OrdersFinite, SumInt DEF NetSpent
  <1>5. NetLot(os, a) \in Int
    BY <1>1, OrdersFinite, SumInt DEF NetLot
  <1> QED
    BY <1>2, <1>3, <1>4, <1>5

\* Nothing promised is more than what is promised altogether.
LEMMA PromiseBound ==
  ASSUME NEW os \in [OrderIds -> OrderRows], NEW i \in OrderIds, NEW a
  PROVE  /\ CashPromise(os[i]) <= PromisedCash(os)
         /\ LotPromise(os[i], a) <= PromisedLot(os, a)
  <1>1. \A k \in OrderIds : CashPromise(os[k]) \in Nat /\ LotPromise(os[k], a) \in Nat
    BY CashPromiseNat, LotPromiseNat
  <1> DEFINE f == [k \in OrderIds |-> CashPromise(os[k])]
             g == [k \in OrderIds |-> LotPromise(os[k], a)]
  <1>2. f[i] <= SumFunctionOnSet(f, OrderIds)
    BY <1>1, OrdersFinite, SumBounds
  <1>3. g[i] <= SumFunctionOnSet(g, OrderIds)
    BY <1>1, OrdersFinite, SumBounds
  <1> QED
    BY <1>2, <1>3 DEF PromisedCash, PromisedLot

\* new differs from os in the order i only.
LEMMA TotalsUpdate ==
  ASSUME NEW os \in [OrderIds -> OrderRows], NEW new \in [OrderIds -> OrderRows],
         NEW i \in OrderIds, \A k \in OrderIds \ {i} : new[k] = os[k], NEW a
  PROVE  /\ PromisedCash(new) = PromisedCash(os) + (CashPromise(new[i]) - CashPromise(os[i]))
         /\ PromisedLot(new, a) = PromisedLot(os, a) + (LotPromise(new[i], a) - LotPromise(os[i], a))
         /\ NetSpent(new) = NetSpent(os) + (CashSpent(new[i]) - CashSpent(os[i]))
         /\ NetLot(new, a) = NetLot(os, a) + (LotMoved(new[i], a) - LotMoved(os[i], a))
  <1>1. \A k \in OrderIds :
           /\ CashPromise(os[k]) \in Int /\ LotPromise(os[k], a) \in Int
           /\ CashSpent(os[k]) \in Int /\ LotMoved(os[k], a) \in Int
           /\ CashPromise(new[k]) \in Int /\ LotPromise(new[k], a) \in Int
           /\ CashSpent(new[k]) \in Int /\ LotMoved(new[k], a) \in Int
    BY CashPromiseNat, LotPromiseNat, CashSpentInt, LotMovedInt
  <1>2. PromisedCash(new) = PromisedCash(os) + (CashPromise(new[i]) - CashPromise(os[i]))
    <2> DEFINE f == [k \in OrderIds |-> CashPromise(os[k])]
               g == [k \in OrderIds |-> CashPromise(new[k])]
    <2>1. \A k \in OrderIds : f[k] \in Int /\ g[k] \in Int
      BY <1>1
    <2>2. \A k \in OrderIds \ {i} : f[k] = g[k]
      OBVIOUS
    <2>3. SumFunctionOnSet(g, OrderIds) = SumFunctionOnSet(f, OrderIds) + (g[i] - f[i])
      BY <2>1, <2>2, OrdersFinite, SumUpdate
    <2> QED
      BY <2>3 DEF PromisedCash
  <1>3. PromisedLot(new, a) = PromisedLot(os, a) + (LotPromise(new[i], a) - LotPromise(os[i], a))
    <2> DEFINE f == [k \in OrderIds |-> LotPromise(os[k], a)]
               g == [k \in OrderIds |-> LotPromise(new[k], a)]
    <2>1. \A k \in OrderIds : f[k] \in Int /\ g[k] \in Int
      BY <1>1
    <2>2. \A k \in OrderIds \ {i} : f[k] = g[k]
      OBVIOUS
    <2>3. SumFunctionOnSet(g, OrderIds) = SumFunctionOnSet(f, OrderIds) + (g[i] - f[i])
      BY <2>1, <2>2, OrdersFinite, SumUpdate
    <2> QED
      BY <2>3 DEF PromisedLot
  <1>4. NetSpent(new) = NetSpent(os) + (CashSpent(new[i]) - CashSpent(os[i]))
    <2> DEFINE f == [k \in OrderIds |-> CashSpent(os[k])]
               g == [k \in OrderIds |-> CashSpent(new[k])]
    <2>1. \A k \in OrderIds : f[k] \in Int /\ g[k] \in Int
      BY <1>1
    <2>2. \A k \in OrderIds \ {i} : f[k] = g[k]
      OBVIOUS
    <2>3. SumFunctionOnSet(g, OrderIds) = SumFunctionOnSet(f, OrderIds) + (g[i] - f[i])
      BY <2>1, <2>2, OrdersFinite, SumUpdate
    <2> QED
      BY <2>3 DEF NetSpent
  <1>5. NetLot(new, a) = NetLot(os, a) + (LotMoved(new[i], a) - LotMoved(os[i], a))
    <2> DEFINE f == [k \in OrderIds |-> LotMoved(os[k], a)]
               g == [k \in OrderIds |-> LotMoved(new[k], a)]
    <2>1. \A k \in OrderIds : f[k] \in Int /\ g[k] \in Int
      BY <1>1
    <2>2. \A k \in OrderIds \ {i} : f[k] = g[k]
      OBVIOUS
    <2>3. SumFunctionOnSet(g, OrderIds) = SumFunctionOnSet(f, OrderIds) + (g[i] - f[i])
      BY <2>1, <2>2, OrdersFinite, SumUpdate
    <2> QED
      BY <2>3 DEF NetLot
  <1> QED
    BY <1>2, <1>3, <1>4, <1>5

\* What is promised, and what was moved, is zero when no order promises or
\* moved anything, and depends on nothing else of the orders.
LEMMA NothingPromised ==
  ASSUME NEW os, \A i \in OrderIds : os[i].status # "pending", NEW a
  PROVE  PromisedCash(os) = 0 /\ PromisedLot(os, a) = 0
  <1>1. PromisedCash(os) = 0
    BY OrdersFinite, SumZero DEF PromisedCash, CashPromise
  <1>2. PromisedLot(os, a) = 0
    BY OrdersFinite, SumZero DEF PromisedLot, LotPromise
  <1> QED
    BY <1>1, <1>2

SameMoves(o, p) ==
    o.side = p.side /\ o.asset = p.asset /\ o.filled = p.filled /\ o.notional = p.notional

LEMMA SameMovesSameTotals ==
  ASSUME NEW os, NEW new, \A i \in OrderIds : SameMoves(os[i], new[i]), NEW a
  PROVE  NetSpent(new) = NetSpent(os) /\ NetLot(new, a) = NetLot(os, a)
  <1>1. NetSpent(new) = NetSpent(os)
    BY OrdersFinite, SumSame DEF NetSpent, CashSpent, SameMoves
  <1>2. NetLot(new, a) = NetLot(os, a)
    BY OrdersFinite, SumSame DEF NetLot, LotMoved, SameMoves
  <1> QED
    BY <1>1, <1>2

\* When one order changes and the rows move by what it says, the books keep
\* balancing.
LEMMA HoldingsUpdate ==
  ASSUME NEW ps \in [Assets -> PositionRows], NEW qs \in [Assets -> PositionRows],
         NEW os \in [OrderIds -> OrderRows], NEW new \in [OrderIds -> OrderRows],
         NEW i \in OrderIds, \A k \in OrderIds \ {i} : new[k] = os[k],
         HoldingsBalance(ps, os),
         \A a \in Assets : qs[a].quantity - ps[a].quantity = LotMoved(new[i], a) - LotMoved(os[i], a)
  PROVE  HoldingsBalance(qs, new)
  <1> SUFFICES ASSUME NEW a \in Assets PROVE qs[a].quantity = NetLot(new, a)
    BY DEF HoldingsBalance
  <1>1. NetLot(new, a) = NetLot(os, a) + (LotMoved(new[i], a) - LotMoved(os[i], a))
    BY TotalsUpdate
  <1>2. ps[a].quantity = NetLot(os, a) /\ ps[a].quantity \in Int /\ qs[a].quantity \in Int
    BY DEF HoldingsBalance, PositionRows
  <1>3. LotMoved(new[i], a) \in Int /\ LotMoved(os[i], a) \in Int
    BY LotMovedInt
  <1> QED
    BY <1>1, <1>2, <1>3

LEMMA LocksUpdate ==
  ASSUME NEW c \in CashRows, NEW d \in CashRows,
         NEW ps \in [Assets -> PositionRows], NEW qs \in [Assets -> PositionRows],
         NEW os \in [OrderIds -> OrderRows], NEW new \in [OrderIds -> OrderRows],
         NEW i \in OrderIds, \A k \in OrderIds \ {i} : new[k] = os[k],
         LocksBalance(c, ps, os),
         d.locked - c.locked = CashPromise(new[i]) - CashPromise(os[i]),
         \A a \in Assets : qs[a].locked - ps[a].locked = LotPromise(new[i], a) - LotPromise(os[i], a)
  PROVE  LocksBalance(d, qs, new)
  <1>1. d.locked = PromisedCash(new)
    <2>1. PromisedCash(new) = PromisedCash(os) + (CashPromise(new[i]) - CashPromise(os[i]))
      BY TotalsUpdate
    <2>2. c.locked = PromisedCash(os) /\ c.locked \in Int /\ d.locked \in Int
      BY DEF LocksBalance, CashRows
    <2>3. CashPromise(new[i]) \in Int /\ CashPromise(os[i]) \in Int
      BY CashPromiseNat
    <2> QED
      BY <2>1, <2>2, <2>3
  <1>2. ASSUME NEW a \in Assets PROVE qs[a].locked = PromisedLot(new, a)
    <2>1. PromisedLot(new, a) = PromisedLot(os, a) + (LotPromise(new[i], a) - LotPromise(os[i], a))
      BY TotalsUpdate
    <2>2. ps[a].locked = PromisedLot(os, a) /\ ps[a].locked \in Int /\ qs[a].locked \in Int
      BY DEF LocksBalance, PositionRows
    <2>3. LotPromise(new[i], a) \in Int /\ LotPromise(os[i], a) \in Int
      BY LotPromiseNat
    <2> QED
      BY <2>1, <2>2, <2>3
  <1> QED
    BY <1>1, <1>2 DEF LocksBalance

LEMMA CashUpdate ==
  ASSUME NEW c \in CashRows, NEW d \in CashRows,
         NEW os \in [OrderIds -> OrderRows], NEW new \in [OrderIds -> OrderRows],
         NEW i \in OrderIds, \A k \in OrderIds \ {i} : new[k] = os[k],
         CashBalances(c, os),
         (d.available + d.locked) - (c.available + c.locked) = CashSpent(os[i]) - CashSpent(new[i])
  PROVE  CashBalances(d, new)
  <1>1. NetSpent(new) = NetSpent(os) + (CashSpent(new[i]) - CashSpent(os[i])) /\ NetSpent(os) \in Int
    BY TotalsUpdate, TotalsNat
  <1>2. /\ c.available \in Int /\ c.locked \in Int /\ d.available \in Int /\ d.locked \in Int
        /\ c.available + c.locked = InitialCash - NetSpent(os)
    BY DEF CashBalances, CashRows
  <1>3. CashSpent(new[i]) \in Int /\ CashSpent(os[i]) \in Int /\ InitialCash \in Int
    BY CashSpentInt, MoneyAssumption
  <1> QED
    BY <1>1, <1>2, <1>3 DEF CashBalances

=============================================================================
