----------------------- MODULE PortfolioActionsProofs -----------------------
(***************************************************************************)
(* What the checks of a portfolio action promise, for every market, every  *)
(* account and every action: the answers and accounts stay well typed, an  *)
(* action that passes leaves the account safe, the credit announced with   *)
(* it is there, no action creates value, the liquidation plan of an        *)
(* account in an alarm raises its target, and the older gate approves what *)
(* the lifecycle check lets pass.                                          *)
(*                                                                         *)
(* The values are sums over holdings; the first part of the module proves  *)
(* about sums over finite sets what the rest needs.                        *)
(***************************************************************************)
EXTENDS PortfolioActions, CollateralRiskProofs, FiniteSetTheorems, SequenceTheorems

(***************************************************************************)
(* Sums over finite sets, which the community modules define by a          *)
(* recursive function on the subsets: they do not depend on the order.     *)
(***************************************************************************)
(* A set of sets that has the empty set, and every subset of S once it has   *)
(* that subset with any element left out, has all the subsets of S.          *)
LEMMA SubsetInduction ==
  ASSUME NEW S, IsFiniteSet(S), NEW G, {} \in G,
         \A T \in SUBSET S : T # {} /\ (\A x \in T : T \ {x} \in G) => T \in G
  PROVE  SUBSET S \subseteq G
<1> DEFINE N == Cardinality(S)
           Good == {n \in 0..N : \A T \in SUBSET S : Cardinality(T) <= n => T \in G}
<1>1. N \in Nat
  BY FS_CardinalityType
<1>2. \A T \in SUBSET S : /\ IsFiniteSet(T) /\ Cardinality(T) \in Nat /\ Cardinality(T) <= N
                          /\ Cardinality(T) = 0 <=> T = {}
  BY FS_Subset, FS_CardinalityType, FS_EmptySet
<1>3. \A T \in SUBSET S : \A x \in T :
        T \ {x} \in SUBSET S /\ Cardinality(T \ {x}) = Cardinality(T) - 1
  BY <1>2, FS_RemoveElement
<1> HIDE DEF N
<1>4. 0 \in Good
  <2>1. ASSUME NEW T \in SUBSET S, Cardinality(T) <= 0
        PROVE  T \in G
    <3>1. Cardinality(T) = 0
      BY <1>2, <2>1
    <3>2. T = {}
      BY <1>2, <3>1
    <3>. QED BY <3>2
  <2>. QED BY <1>1, <2>1
<1>5. ASSUME NEW n \in 0..(N - 1), n \in Good
      PROVE  n + 1 \in Good
  <2>1. ASSUME NEW T \in SUBSET S, Cardinality(T) <= n + 1
        PROVE  T \in G
    <3>1. CASE T = {}
      BY <3>1
    <3>2. CASE T # {}
      <4>1. \A x \in T : T \ {x} \in G
        <5> TAKE x \in T
        <5>1. T \ {x} \in SUBSET S /\ Cardinality(T \ {x}) = Cardinality(T) - 1
              /\ Cardinality(T) \in Nat
          BY <1>2, <1>3
        <5>2. Cardinality(T \ {x}) <= n
          BY <2>1, <5>1
        <5>. QED BY <1>5, <5>1, <5>2
      <4>. QED BY <3>2, <4>1
    <3>. QED BY <3>1, <3>2
  <2>2. n + 1 \in 0..N
    BY <1>1
  <2>. QED BY <2>1, <2>2
<1> HIDE DEF Good
<1>6. 0..N \subseteq Good
  BY <1>1, <1>4, <1>5, PrefixInduction
<1>7. N \in Good
  BY <1>1, <1>6
<1>. QED BY <1>2, <1>7 DEF Good

(* One step of the sum: an element is picked, the rest is added.             *)
Picked(s) == CHOOSE x \in s : TRUE

AfterPicking(f, g, s) == IF s = {} THEN 0 ELSE f[Picked(s)] + g[s \ {Picked(s)}]

Sums(g, f, S) == \A s \in SUBSET S : g[s] = AfterPicking(f, g, s)

(* The recursion has one solution, and the community operator is it.         *)
LEMMA SumsAgree ==
  ASSUME NEW S, IsFiniteSet(S), NEW f, NEW g, NEW h,
         Sums(g, f, S), Sums(h, f, S)
  PROVE  \A s \in SUBSET S : g[s] = h[s]
<1> DEFINE G == {s \in SUBSET S : g[s] = h[s]}
<1>1. {} \in G
  BY DEF Sums, AfterPicking
<1>2. ASSUME NEW T \in SUBSET S, T # {}, \A x \in T : T \ {x} \in G
      PROVE  T \in G
  <2>1. Picked(T) \in T
    BY <1>2 DEF Picked
  <2>2. g[T \ {Picked(T)}] = h[T \ {Picked(T)}]
    BY <1>2, <2>1
  <2>3. /\ g[T] = f[Picked(T)] + g[T \ {Picked(T)}]
        /\ h[T] = f[Picked(T)] + h[T \ {Picked(T)}]
    BY <1>2 DEF Sums, AfterPicking
  <2>. QED BY <2>2, <2>3
<1> HIDE DEF G
<1>3. SUBSET S \subseteq G
  BY <1>1, <1>2, SubsetInduction
<1>. QED BY <1>3 DEF G

LEMMA SumsExist ==
  ASSUME NEW S, IsFiniteSet(S), NEW f
  PROVE  \E g : Sums(g, f, S) /\ g = [s \in SUBSET S |-> g[s]]
<1> DEFINE N == Cardinality(S)
           Small(n) == {s \in SUBSET S : Cardinality(s) <= n}
           Reached(g, n) == \A s \in Small(n) : g[s] = AfterPicking(f, g, s)
           Good == {n \in 0..N : \E g : Reached(g, n)}
<1>1. N \in Nat
  BY FS_CardinalityType
<1>2. \A T \in SUBSET S : /\ IsFiniteSet(T) /\ Cardinality(T) \in Nat /\ Cardinality(T) <= N
                          /\ Cardinality(T) = 0 <=> T = {}
  BY FS_Subset, FS_CardinalityType, FS_EmptySet
<1>3. \A T \in SUBSET S : T # {} =>
        /\ Picked(T) \in T /\ T \ {Picked(T)} \in SUBSET S
        /\ Cardinality(T \ {Picked(T)}) = Cardinality(T) - 1
  <2> TAKE T \in SUBSET S
  <2>1. T # {} => Picked(T) \in T
    BY DEF Picked
  <2>. QED BY <1>2, <2>1, FS_RemoveElement
<1> HIDE DEF N
<1>4. 0 \in Good
  <2> DEFINE g == [s \in SUBSET S |-> 0]
  <2>1. Reached(g, 0)
    BY <1>2 DEF AfterPicking
  <2> HIDE DEF g
  <2>. QED BY <1>1, <2>1
<1>5. ASSUME NEW n \in 0..(N - 1), n \in Good
      PROVE  n + 1 \in Good
  <2>1. PICK g : Reached(g, n)
    BY <1>5
  <2> DEFINE h == [s \in SUBSET S |-> AfterPicking(f, g, s)]
  <2>2. \A s \in SUBSET S : h[s] = AfterPicking(f, g, s)
    OBVIOUS
  <2> HIDE DEF h
  <2>3. \A s \in Small(n) : h[s] = g[s]
    BY <2>1, <2>2
  <2>4. ASSUME NEW s \in Small(n + 1)
        PROVE  h[s] = AfterPicking(f, h, s)
    <3>1. CASE s = {}
      BY <2>2, <3>1 DEF AfterPicking
    <3>2. CASE s # {}
      <4>1. s \ {Picked(s)} \in Small(n)
        BY <1>2, <1>3, <3>2
      <4>2. h[s] = f[Picked(s)] + g[s \ {Picked(s)}]
        BY <2>2, <3>2 DEF AfterPicking
      <4>3. h[s \ {Picked(s)}] = g[s \ {Picked(s)}]
        BY <2>3, <4>1
      <4>. QED BY <3>2, <4>2, <4>3 DEF AfterPicking
    <3>. QED BY <3>1, <3>2
  <2>5. n + 1 \in 0..N
    BY <1>1
  <2>. QED BY <2>4, <2>5
<1> HIDE DEF Good
<1>6. 0..N \subseteq Good
  BY <1>1, <1>4, <1>5, PrefixInduction
<1>7. PICK g : Reached(g, N)
  BY <1>1, <1>6 DEF Good
<1>8. \A s \in SUBSET S : g[s] = AfterPicking(f, g, s)
  BY <1>2, <1>7
<1> DEFINE h == [s \in SUBSET S |-> g[s]]
<1>9. \A s \in SUBSET S : h[s] = g[s]
  OBVIOUS
<1>10. \A s \in SUBSET S : AfterPicking(f, h, s) = AfterPicking(f, g, s)
  BY <1>3, <1>9 DEF AfterPicking
<1>11. Sums(h, f, S)
  BY <1>8, <1>9, <1>10 DEF Sums
<1>12. h = [s \in SUBSET S |-> h[s]]
  OBVIOUS
<1>. QED BY <1>11, <1>12

LEMMA SumRecursion ==
  ASSUME NEW S, IsFiniteSet(S), NEW f
  PROVE  \E g : Sums(g, f, S) /\ SumFunctionOnSet(f, S) = g[S]
<1> DEFINE g == CHOOSE g : g = [s \in SUBSET S |->
                     IF s = {} THEN 0
                     ELSE f[CHOOSE x \in s : TRUE] + g[s \ {CHOOSE x \in s : TRUE}]]
<1>1. SumFunctionOnSet(f, S) = g[S]
  BY DEF SumFunctionOnSet, FoldFunctionOnSet, MapThenFoldSet
<1>2. \E h : h = [s \in SUBSET S |->
                     IF s = {} THEN 0
                     ELSE f[CHOOSE x \in s : TRUE] + h[s \ {CHOOSE x \in s : TRUE}]]
  <2>1. PICK h : Sums(h, f, S) /\ h = [s \in SUBSET S |-> h[s]]
    BY SumsExist
  <2>2. \A s \in SUBSET S :
          h[s] = IF s = {} THEN 0
                 ELSE f[CHOOSE x \in s : TRUE] + h[s \ {CHOOSE x \in s : TRUE}]
    BY <2>1 DEF Sums, AfterPicking, Picked
  <2>3. [s \in SUBSET S |-> h[s]]
          = [s \in SUBSET S |->
               IF s = {} THEN 0
               ELSE f[CHOOSE x \in s : TRUE] + h[s \ {CHOOSE x \in s : TRUE}]]
    BY <2>2
  <2>. QED BY <2>1, <2>3
<1>3. g = [s \in SUBSET S |->
             IF s = {} THEN 0
             ELSE f[CHOOSE x \in s : TRUE] + g[s \ {CHOOSE x \in s : TRUE}]]
  BY <1>2
<1> HIDE DEF g
<1>4. Sums(g, f, S)
  BY <1>3 DEF Sums, AfterPicking, Picked
<1>. QED BY <1>1, <1>4

(* The sum of nothing, of one more element, and of two equal functions.      *)
LEMMA EmptySum == ASSUME NEW f PROVE SumFunctionOnSet(f, {}) = 0
<1>1. IsFiniteSet({})
  BY FS_EmptySet
<1>2. PICK g : Sums(g, f, {}) /\ SumFunctionOnSet(f, {}) = g[{}]
  BY <1>1, SumRecursion
<1>. QED BY <1>2 DEF Sums, AfterPicking

LEMMA PickedSum ==
  ASSUME NEW S, IsFiniteSet(S), NEW f, NEW T \in SUBSET S, T # {}
  PROVE  /\ Picked(T) \in T
         /\ SumFunctionOnSet(f, T) = f[Picked(T)] + SumFunctionOnSet(f, T \ {Picked(T)})
<1> DEFINE R == T \ {Picked(T)}
<1>1. IsFiniteSet(T) /\ IsFiniteSet(R) /\ R \in SUBSET T /\ SUBSET R \subseteq SUBSET T
  BY FS_Subset
<1> HIDE DEF R
<1>2. PICK g : Sums(g, f, T) /\ SumFunctionOnSet(f, T) = g[T]
  BY <1>1, SumRecursion
<1>3. PICK h : Sums(h, f, R) /\ SumFunctionOnSet(f, R) = h[R]
  BY <1>1, SumRecursion
<1>4. Sums(g, f, R)
  BY <1>1, <1>2 DEF Sums
<1>5. g[R] = h[R]
  BY <1>1, <1>3, <1>4, SumsAgree
<1>6. g[T] = f[Picked(T)] + g[R]
  BY <1>2 DEF Sums, AfterPicking, R
<1>. QED BY <1>2, <1>3, <1>5, <1>6 DEF R, Picked

(* Facts about sums over a finite set by induction on its subsets.           *)
LEMMA SumFunctionIs ==
  ASSUME NEW f
  PROVE  SumFunction(f) = SumFunctionOnSet(f, DOMAIN f)
BY DEF SumFunction, SumFunctionOnSet, FoldFunction

LEMMA SumSame ==
  ASSUME NEW S, IsFiniteSet(S), NEW f, NEW g, \A x \in S : f[x] = g[x]
  PROVE  SumFunctionOnSet(f, S) = SumFunctionOnSet(g, S)
<1> DEFINE G == {T \in SUBSET S : SumFunctionOnSet(f, T) = SumFunctionOnSet(g, T)}
<1>1. {} \in G
  BY EmptySum
<1>2. ASSUME NEW T \in SUBSET S, T # {}, \A x \in T : T \ {x} \in G
      PROVE  T \in G
  <2>1. /\ Picked(T) \in T
        /\ SumFunctionOnSet(f, T) = f[Picked(T)] + SumFunctionOnSet(f, T \ {Picked(T)})
        /\ SumFunctionOnSet(g, T) = g[Picked(T)] + SumFunctionOnSet(g, T \ {Picked(T)})
    BY <1>2, PickedSum
  <2>. QED BY <1>2, <2>1
<1> HIDE DEF G
<1>3. SUBSET S \subseteq G
  BY <1>1, <1>2, SubsetInduction
<1>. QED BY <1>3 DEF G

LEMMA SumInt ==
  ASSUME NEW S, IsFiniteSet(S), NEW f, \A x \in S : f[x] \in Int
  PROVE  SumFunctionOnSet(f, S) \in Int
<1>1. \A T \in SUBSET S : T # {} =>
        /\ Picked(T) \in T
        /\ SumFunctionOnSet(f, T) = f[Picked(T)] + SumFunctionOnSet(f, T \ {Picked(T)})
  BY PickedSum
<1> DEFINE G == {T \in SUBSET S : SumFunctionOnSet(f, T) \in Int}
<1>2. {} \in G
  BY EmptySum
<1>3. ASSUME NEW T \in SUBSET S, T # {}, \A x \in T : T \ {x} \in G
      PROVE  T \in G
  <2>1. /\ Picked(T) \in T
        /\ SumFunctionOnSet(f, T) = f[Picked(T)] + SumFunctionOnSet(f, T \ {Picked(T)})
    BY <1>1, <1>3
  <2>2. SumFunctionOnSet(f, T \ {Picked(T)}) \in Int
    BY <1>3, <2>1
  <2>3. f[Picked(T)] \in Int
    BY <2>1
  <2>4. SumFunctionOnSet(f, T) \in Int
    BY <2>1, <2>2, <2>3
  <2>. QED BY <2>4
<1> HIDE DEF G
<1>4. SUBSET S \subseteq G
  BY <1>2, <1>3, SubsetInduction
<1>. QED BY <1>4 DEF G

LEMMA SumNat ==
  ASSUME NEW S, IsFiniteSet(S), NEW f, \A x \in S : f[x] \in Nat
  PROVE  SumFunctionOnSet(f, S) \in Nat
<1>1. \A T \in SUBSET S : T # {} =>
        /\ Picked(T) \in T
        /\ SumFunctionOnSet(f, T) = f[Picked(T)] + SumFunctionOnSet(f, T \ {Picked(T)})
  BY PickedSum
<1> DEFINE G == {T \in SUBSET S : SumFunctionOnSet(f, T) \in Nat}
<1>2. {} \in G
  BY EmptySum
<1>3. ASSUME NEW T \in SUBSET S, T # {}, \A x \in T : T \ {x} \in G
      PROVE  T \in G
  <2>1. /\ Picked(T) \in T
        /\ SumFunctionOnSet(f, T) = f[Picked(T)] + SumFunctionOnSet(f, T \ {Picked(T)})
    BY <1>1, <1>3
  <2>2. SumFunctionOnSet(f, T \ {Picked(T)}) \in Nat
    BY <1>3, <2>1
  <2>3. f[Picked(T)] \in Nat
    BY <2>1
  <2>4. SumFunctionOnSet(f, T) \in Nat
    BY <2>1, <2>2, <2>3
  <2>. QED BY <2>4
<1> HIDE DEF G
<1>4. SUBSET S \subseteq G
  BY <1>2, <1>3, SubsetInduction
<1>. QED BY <1>4 DEF G

LEMMA SumStep ==
  ASSUME NEW S, IsFiniteSet(S), NEW f, \A x \in S : f[x] \in Int, NEW a \in S
  PROVE  SumFunctionOnSet(f, S) = f[a] + SumFunctionOnSet(f, S \ {a})
<1> DEFINE Sum(T) == SumFunctionOnSet(f, T)
           G == {T \in SUBSET S : \A x \in T : Sum(T) = f[x] + Sum(T \ {x})}
<1>1. \A T \in SUBSET S : Sum(T) \in Int
  <2> TAKE T \in SUBSET S
  <2>1. IsFiniteSet(T) /\ \A x \in T : f[x] \in Int
    BY FS_Subset
  <2>. QED BY <2>1, SumInt
<1>2. \A T \in SUBSET S : T # {} =>
        Picked(T) \in T /\ Sum(T) = f[Picked(T)] + Sum(T \ {Picked(T)})
  BY PickedSum
<1> HIDE DEF Sum
<1>3. {} \in G
  OBVIOUS
<1>4. ASSUME NEW T \in SUBSET S, T # {}, \A x \in T : T \ {x} \in G
      PROVE  T \in G
  <2>1. PICK p : p \in T /\ Sum(T) = f[p] + Sum(T \ {p})
    BY <1>2, <1>4
  <2>2. ASSUME NEW x \in T
        PROVE  Sum(T) = f[x] + Sum(T \ {x})
    <3>1. CASE x = p
      BY <2>1, <3>1
    <3>2. CASE x # p
      <4>1. /\ x \in T \ {p} /\ p \in T \ {x}
            /\ T \ {p} \in G /\ T \ {x} \in G
            /\ (T \ {p}) \ {x} = (T \ {x}) \ {p}
        BY <1>4, <2>1, <3>2
      <4>2. PICK rest : rest = Sum((T \ {p}) \ {x})
        OBVIOUS
      <4>3. Sum(T \ {p}) = f[x] + rest /\ Sum(T \ {x}) = f[p] + rest
        BY <4>1, <4>2
      <4>4. rest \in Int /\ f[x] \in Int /\ f[p] \in Int
        BY <1>1, <2>1, <4>2
      <4>. QED BY <2>1, <4>3, <4>4
    <3>. QED BY <3>1, <3>2
  <2>. QED BY <2>2
<1> HIDE DEF G
<1>5. SUBSET S \subseteq G
  BY <1>3, <1>4, SubsetInduction
<1>6. S \in G
  BY <1>5
<1>. QED BY <1>6 DEF G, Sum

(***************************************************************************)
(* A portfolio of lots, quoted, has a valuation: money and a score.         *)
(***************************************************************************)
IsMarket(m) == \A asset \in DOMAIN m : m[asset] \in Quote

LEMMA IntQuotient ==
  ASSUME NEW a \in Int, NEW b \in Nat \ {0}
  PROVE  a \div b \in Int /\ (a >= 0 => a \div b \in Nat)
OBVIOUS

LEMMA WorthNat ==
  ASSUME NEW h, AreHoldings(h), NEW m, IsMarket(m), NEW i \in DOMAIN h
  PROVE  Worth(h, m, i) \in Nat
<1>1. h[i] \in Nat
  BY DEF AreHoldings
<1>2. i \in Priced(h, m) => m[i.asset].price \in Nat
  BY DEF Priced, IsMarket, Quote
<1>. QED BY <1>1, <1>2 DEF Worth

LEMMA PortfolioValueNat ==
  ASSUME NEW h, AreHoldings(h), NEW m, IsMarket(m)
  PROVE  PortfolioValue(h, m) \in Nat
<1> DEFINE f == [i \in DOMAIN h |-> Worth(h, m, i)]
<1>1. IsFiniteSet(DOMAIN f) /\ \A i \in DOMAIN f : f[i] \in Nat
  BY WorthNat DEF AreHoldings
<1>2. PortfolioValue(h, m) = SumFunctionOnSet(f, DOMAIN f)
  BY SumFunctionIs DEF PortfolioValue
<1> HIDE DEF f
<1>. QED BY <1>1, <1>2, SumNat

LEMMA AdjustmentsNat ==
  ASSUME NEW type \in DOMAIN Terms, NEW share \in Nat, NEW quote \in Quote
  PROVE  /\ ConcentrationAdjustment(type, share) \in Nat
         /\ DataQualityAdjustment(quote) \in Nat
<1>1. ConcentrationAdjustment(type, share) \in Nat
  <2> DEFINE terms == Terms[type]
             over == Excess(share, terms.tolerance)
             haircut == (over * terms.slope) \div 100
  <2>1. terms.tolerance \in Nat /\ terms.slope \in Nat
    BY LendingTermsAssumption
  <2>2. over \in Nat
    BY <2>1, ExcessNat
  <2>3. ConcentrationAdjustment(type, share) = Clamp(100 - Clamp(haircut, 0, 90), 5, 100)
    BY DEF ConcentrationAdjustment
  <2> HIDE DEF over, terms
  <2>4. over * terms.slope \in Nat
    BY <2>1, <2>2
  <2>5. haircut \in Nat
    BY <2>4, IntQuotient
  <2> HIDE DEF haircut
  <2>. QED BY <2>3, <2>5 DEF Clamp
<1>2. DataQualityAdjustment(quote) \in Nat
  <2>1. quote.quality \in Nat
    BY DEF Quote
  <2>. QED BY <2>1 DEF DataQualityAdjustment, Least
<1>. QED BY <1>1, <1>2

(* What is found out about one holding: money and hundredths.                *)
IsResult(r) ==
  /\ r.worth \in Nat /\ r.share \in Nat /\ r.lendable \in Nat /\ r.stressed \in Nat
  /\ r.risk \in Int /\ r.slippage \in Nat /\ r.eligible \in BOOLEAN

LEMMA AssetResultType ==
  ASSUME NEW h, AreHoldings(h), NEW m, IsMarket(m), NEW i \in DOMAIN h, NEW total \in Nat
  PROVE  IsResult(AssetResult(h, m, i, total))
<1>1. CASE i \notin Priced(h, m)
  BY <1>1 DEF AssetResult, IsResult
<1>2. CASE i \in Priced(h, m)
  <2> DEFINE worth   == Worth(h, m, i)
             quote   == m[i.asset]
             share   == IF total = 0 THEN 0 ELSE (100 * worth) \div total
             kept    == quote.kept * ConcentrationAdjustment(i.type, share)
                          * DataQualityAdjustment(quote)
             product == kept \div 10000
             terms   == Terms[i.type]
             ltv     == Least((terms.base * product) \div 100, terms.cap)
             lent    == RoundMoney((worth * ltv) \div 100)
             stress  == RoundMoney((worth * quote.recovered) \div 100)
             result  == [worth    |-> worth,
                         share    |-> share,
                         lendable |-> IF Eligible(quote) THEN lent ELSE 0,
                         stressed |-> IF Eligible(quote) THEN stress ELSE 0,
                         risk     |-> 100 - product,
                         slippage |-> IF Eligible(quote) THEN quote.slippage ELSE 100,
                         eligible |-> Eligible(quote)]
  <2>1. AssetResult(h, m, i, total) = result
    BY <1>2 DEF AssetResult
  <2>2. quote \in Quote /\ i.type \in DOMAIN Terms /\ worth \in Nat
    BY <1>2, WorthNat DEF Priced, IsMarket, AreHoldings
  <2>3. terms.base \in Nat /\ terms.cap \in Nat
    BY <2>2, LendingTermsAssumption
  <2> HIDE DEF worth, quote, terms
  <2>4. share \in Nat
    BY <2>2, IntQuotient
  <2> HIDE DEF share
  <2>5. /\ quote.kept \in Nat /\ quote.recovered \in Nat /\ quote.slippage \in Nat
        /\ ConcentrationAdjustment(i.type, share) \in Nat
        /\ DataQualityAdjustment(quote) \in Nat
    BY <2>2, <2>4, AdjustmentsNat DEF Quote
  <2>6. kept \in Nat
    BY ONLY <2>5
  <2> HIDE DEF kept
  <2>7. product \in Nat
    BY <2>6, IntQuotient
  <2> HIDE DEF product
  <2>8. terms.base * product \in Nat
    BY <2>3, <2>7
  <2>9. ltv \in Nat
    BY <2>3, <2>8, IntQuotient DEF Least
  <2> HIDE DEF ltv
  <2>10. worth * ltv \in Nat /\ worth * quote.recovered \in Nat
    BY <2>2, <2>5, <2>9
  <2>11. lent \in Nat /\ stress \in Nat
    BY <2>10, IntQuotient, RoundMoneyNat
  <2>12. Eligible(quote) \in BOOLEAN
    BY DEF Eligible
  <2> HIDE DEF lent, stress
  <2>13. IsResult(result)
    BY <2>2, <2>4, <2>5, <2>7, <2>11, <2>12 DEF IsResult
  <2>. QED BY <2>1, <2>13
<1>. QED BY <1>1, <1>2

LEMMA AssetResultsType ==
  ASSUME NEW h, AreHoldings(h), NEW m, IsMarket(m)
  PROVE  /\ IsFiniteSet(DOMAIN AssetResults(h, m)) /\ DOMAIN AssetResults(h, m) = DOMAIN h
         /\ \A i \in DOMAIN h : IsResult(AssetResults(h, m)[i])
<1> DEFINE total == PortfolioValue(h, m)
<1>1. total \in Nat
  BY PortfolioValueNat
<1>2. AssetResults(h, m) = [i \in DOMAIN h |-> AssetResult(h, m, i, total)]
  BY DEF AssetResults
<1> HIDE DEF total
<1>. QED BY <1>1, <1>2, AssetResultType DEF AreHoldings

(* A sum over the results of a portfolio.                                    *)
LEMMA ResultSum ==
  ASSUME NEW D, IsFiniteSet(D), NEW f, DOMAIN f = D
  PROVE  /\ (\A i \in D : f[i] \in Nat) => SumFunction(f) \in Nat
         /\ (\A i \in D : f[i] \in Int) => SumFunction(f) \in Int
BY SumFunctionIs, SumNat, SumInt

LEMMA ScoreType ==
  ASSUME NEW r, IsFiniteSet(DOMAIN r), \A i \in DOMAIN r : IsResult(r[i])
  PROVE  PortfolioRiskScore(r) \in 0..100
<1> DEFINE held == DOMAIN r
           worth == [i \in held |-> r[i].worth]
           risky == [i \in held |-> r[i].risk * r[i].worth]
           squares == [i \in held |-> r[i].share * r[i].share]
           outside == [i \in held |-> IF r[i].eligible THEN 0 ELSE r[i].worth]
           total == SumFunction(worth)
           weighted == SumFunction(risky) \div total
           herfindahl == SumFunction(squares) \div 100
           ineligible == (100 * SumFunction(outside)) \div total
           score == (75 * weighted + 20 * herfindahl + 35 * ineligible) \div 100
<1>1. PortfolioRiskScore(r) = IF total = 0 THEN 100 ELSE Clamp(score, 0, 100)
  BY DEF PortfolioRiskScore
<1>2. /\ \A i \in held : worth[i] \in Nat /\ risky[i] \in Int
      /\ \A i \in held : squares[i] \in Nat /\ outside[i] \in Nat
      /\ DOMAIN worth = held /\ DOMAIN risky = held /\ DOMAIN squares = held
      /\ DOMAIN outside = held
  BY DEF IsResult
<1> HIDE DEF worth, risky, squares, outside
<1>3. /\ total \in Nat /\ SumFunction(risky) \in Int /\ SumFunction(squares) \in Nat
      /\ SumFunction(outside) \in Nat
  BY <1>2, ResultSum
<1> HIDE DEF total
<1>4. CASE total = 0
  BY <1>1, <1>4
<1>5. CASE total # 0
  <2>1. weighted \in Int /\ herfindahl \in Int /\ ineligible \in Int
    BY <1>3, <1>5, IntQuotient
  <2> HIDE DEF weighted, herfindahl, ineligible
  <2>2. score \in Int
    BY <2>1, IntQuotient
  <2> HIDE DEF score
  <2>. QED BY <1>1, <1>5, <2>2 DEF Clamp
<1>. QED BY <1>4, <1>5

LEMMA ValuedIs ==
  ASSUME NEW h, NEW m
  PROVE  Valued(h, m) = ValuationOf(AssetResults(h, m))
BY DEF Valued

LEMMA ValuedType ==
  ASSUME NEW h, AreHoldings(h), NEW m, IsMarket(m)
  PROVE  Valued(h, m) \in Valuation
<1> DEFINE r == AssetResults(h, m)
           worth == [i \in DOMAIN r |-> r[i].worth]
           lendable == [i \in DOMAIN r |-> r[i].lendable]
           stressed == [i \in DOMAIN r |-> r[i].stressed]
           total == SumFunction(worth)
           approved == Least(SumFunction(lendable), (total * PortfolioCap) \div 100)
<1>1. IsFiniteSet(DOMAIN r) /\ \A i \in DOMAIN r : IsResult(r[i])
  BY AssetResultsType
<1>2. Valued(h, m) = ValuationOf(r)
  BY ValuedIs
<1> HIDE DEF r
<1>3. ValuationOf(r) = [value |-> total, approved |-> approved,
                        stressed |-> SumFunction(stressed), score |-> PortfolioRiskScore(r)]
  BY DEF ValuationOf
<1>4. /\ \A i \in DOMAIN r : worth[i] \in Nat /\ lendable[i] \in Nat /\ stressed[i] \in Nat
      /\ DOMAIN worth = DOMAIN r /\ DOMAIN lendable = DOMAIN r /\ DOMAIN stressed = DOMAIN r
  BY <1>1 DEF IsResult
<1> HIDE DEF worth, lendable, stressed
<1>5. total \in Nat /\ SumFunction(lendable) \in Nat /\ SumFunction(stressed) \in Nat
  BY <1>1, <1>4, ResultSum
<1> HIDE DEF total
<1>6. PortfolioCap \in Nat
  BY LendingTermsAssumption
<1>7. total * PortfolioCap \in Nat
  BY <1>5, <1>6
<1>8. approved \in Nat
  BY <1>5, <1>7, IntQuotient DEF Least
<1> HIDE DEF approved
<1>. QED BY <1>1, <1>2, <1>3, <1>5, <1>8, ScoreType DEF Valuation

(***************************************************************************)
(* Projections: what an action leads to is an account, and its loan is     *)
(* counted in whole cents if it was before.                                *)
(***************************************************************************)
(* Pledged cash counts as one more holding.                                  *)
LEMMA CashQuoteType == CashQuote \in Quote
BY DEF CashQuote, Quote

LEMMA WithCashType ==
  ASSUME NEW h, AreHoldings(h), NEW c \in Nat
  PROVE  AreHoldings(WithCash(h, c))
<1>1. CASE c > 0
  <2> DEFINE w == Put(h, PledgedCash, c)
  <2>1. /\ DOMAIN w = DOMAIN h \cup {PledgedCash}
        /\ \A i \in DOMAIN w : w[i] = IF i = PledgedCash THEN c ELSE h[i]
    BY DEF Put
  <2> HIDE DEF w
  <2>2. IsFiniteSet(DOMAIN w)
    BY <2>1, FS_AddElement DEF AreHoldings
  <2>3. /\ DOMAIN PledgedCash = {"asset", "type", "venue"}
        /\ PledgedCash.type \in DOMAIN Terms
    BY TypesAssumption DEF PledgedCash
  <2>4. \A i \in DOMAIN w :
          /\ DOMAIN i = {"asset", "type", "venue"} /\ i.type \in DOMAIN Terms
          /\ w[i] \in Nat
    <3> TAKE i \in DOMAIN w
    <3>1. CASE i = PledgedCash
      BY <1>1, <2>1, <2>3, <3>1
    <3>2. CASE i # PledgedCash
      <4>1. i \in DOMAIN h /\ w[i] = h[i]
        BY <2>1, <3>2
      <4>. QED BY <4>1 DEF AreHoldings
    <3>. QED BY <3>1, <3>2
  <2>5. AreHoldings(w)
    BY <2>2, <2>4 DEF AreHoldings
  <2>. QED BY <1>1, <2>5 DEF WithCash, w
<1>2. CASE ~(c > 0)
  BY <1>2 DEF WithCash
<1>. QED BY <1>1, <1>2

LEMMA CollateralType ==
  ASSUME IsMarket(market), NEW a, IsAccount(a)
  PROVE  CollateralOf(a) \in Valuation
<1> DEFINE m == MarketWithCash
<1>1. IsMarket(m)
  BY CashQuoteType DEF MarketWithCash, IsMarket
<1>2. AreHoldings(WithCash(a.holdings, a.cash))
  BY WithCashType DEF IsAccount
<1> HIDE DEF m
<1>3. Valued(WithCash(a.holdings, a.cash), m) \in Valuation
  BY <1>1, <1>2, ValuedType
<1>. QED BY <1>3 DEF CollateralOf, m

LEMMA ExecutionPriceNat ==
  ASSUME IsMarket(market), NEW asset \in DOMAIN market, NEW side
  PROVE  ExecutionPrice(asset, side) \in Nat
<1> DEFINE quote == market[asset]
<1>1. quote.price \in Nat /\ quote.bid \in Nat /\ quote.ask \in Nat
  BY DEF IsMarket, Quote
<1>2. /\ (quote.price * 102) \div 100 \in Nat
      /\ (quote.price * 98) \div 100 \in Nat
  BY <1>1, IntQuotient
<1>. QED BY <1>1, <1>2 DEF ExecutionPrice, QuotePrice

(* Quantities: lots; an amount of money is cut to lots.                      *)
LEMMA QuantitiesNat ==
  ASSUME IsMarket(market), NEW action \in Actions, NEW side
  PROVE  AssetQuantity(action, side) \subseteq Nat
<1>1. action.quantity \in Nat /\ action.amount \in Nat
  BY ActionsAssumption
<1>2. CASE Tradable(action.asset, side) /\ action.amount > 0
  <2>1. ExecutionPrice(action.asset, side) \in Nat \ {0}
    BY <1>2, ExecutionPriceNat DEF Tradable
  <2>2. action.amount \div ExecutionPrice(action.asset, side) \in Nat
    BY <1>1, <2>1, IntQuotient
  <2>. QED BY <1>1, <2>2 DEF AssetQuantity, QuantityFor
<1>3. CASE ~(Tradable(action.asset, side) /\ action.amount > 0)
  BY <1>1, <1>3 DEF AssetQuantity, QuantityFor
<1>. QED BY <1>2, <1>3

LEMMA BoughtNat ==
  ASSUME IsMarket(market), NEW asset, NEW amount \in Nat, NEW side
  PROVE  QuantityFor(asset, amount, side) \subseteq Nat
<1>1. CASE Tradable(asset, side)
  <2>1. ExecutionPrice(asset, side) \in Nat \ {0}
    BY <1>1, ExecutionPriceNat DEF Tradable
  <2>2. amount \div ExecutionPrice(asset, side) \in Nat
    BY <2>1, IntQuotient
  <2>. QED BY <2>2 DEF QuantityFor
<1>2. CASE ~Tradable(asset, side)
  BY <1>2 DEF QuantityFor
<1>. QED BY <1>1, <1>2

LEMMA MarketAmountNat ==
  ASSUME IsMarket(market), NEW asset, NEW side, Tradable(asset, side), NEW q \in Nat
  PROVE  MarketAmount(asset, q, side) \in Nat
<1>1. ExecutionPrice(asset, side) \in Nat
  BY ExecutionPriceNat DEF Tradable
<1>2. q * ExecutionPrice(asset, side) \in Nat
  BY <1>1
<1>. QED BY <1>2, RoundMoneyNat DEF MarketAmount

(* Holdings in the making: a holding may have been sold out.                 *)
AreLots(h) ==
  /\ IsFiniteSet(DOMAIN h)
  /\ \A i \in DOMAIN h :
       DOMAIN i = {"asset", "type", "venue"} /\ i.type \in DOMAIN Terms /\ h[i] \in Nat

LEMMA HoldingsAreLots ==
  ASSUME NEW h, AreHoldings(h)
  PROVE  AreLots(h)
BY DEF AreHoldings, AreLots

LEMMA HoldingDeltaType ==
  ASSUME NEW h, AreLots(h), NEW asset, NEW type \in DOMAIN Terms \cup {"any"},
         NEW delta \in Int, NEW k \in HoldingDelta(h, asset, type, delta)
  PROVE  AreLots(k)
<1> DEFINE candidates == {i \in DOMAIN h : i.asset = asset /\ type \in {"any", i.type}}
           opened     == [asset |-> asset, type |-> type, venue |-> "unknown"]
<1>1. CASE candidates = {}
  <2>1. ~(delta < 0) /\ type # "any" /\ k = Put(h, opened, delta)
    BY <1>1 DEF HoldingDelta
  <2>2. /\ DOMAIN k = DOMAIN h \cup {opened}
        /\ \A i \in DOMAIN k : k[i] = IF i = opened THEN delta ELSE h[i]
    BY <2>1 DEF Put
  <2>3. DOMAIN opened = {"asset", "type", "venue"} /\ opened.type = type
    OBVIOUS
  <2> HIDE DEF opened
  <2>4. IsFiniteSet(DOMAIN k)
    BY <2>2, FS_AddElement DEF AreLots
  <2>5. ASSUME NEW i \in DOMAIN k
        PROVE  DOMAIN i = {"asset", "type", "venue"} /\ i.type \in DOMAIN Terms
               /\ k[i] \in Nat
    <3>1. CASE i = opened
      BY <2>1, <2>2, <2>3, <3>1
    <3>2. CASE i # opened
      <4>1. i \in DOMAIN h /\ k[i] = h[i]
        BY <2>2, <3>2
      <4>. QED BY <4>1 DEF AreLots
    <3>. QED BY <3>1, <3>2
  <2>. QED BY <2>4, <2>5 DEF AreLots
<1>2. CASE candidates # {}
  <2>1. PICK i \in candidates : h[i] + delta >= 0 /\ k = [h EXCEPT ![i] = @ + delta]
    BY <1>2 DEF HoldingDelta
  <2>2. h[i] + delta \in Nat /\ i \in DOMAIN h
    BY <2>1 DEF AreLots
  <2>3. DOMAIN k = DOMAIN h /\ \A j \in DOMAIN h : k[j] = IF j = i THEN h[i] + delta ELSE h[j]
    BY <2>1
  <2>. QED BY <2>2, <2>3 DEF AreLots
<1>. QED BY <1>1, <1>2

(* A loan in whole cents; an account in the making; what a projection        *)
(* keeps of the account it starts from.                                      *)
CentsLoan(l) == IsCents(l.principal) /\ IsCents(l.interest) /\ IsCents(l.fees)

IsDraft(b) ==
  /\ DOMAIN b = {"holdings", "cash", "loan"}
  /\ AreLots(b.holdings) /\ b.cash \in Nat /\ b.loan \in Loan

Projects(a, b) == IsDraft(b) /\ (CentsLoan(a.loan) => CentsLoan(b.loan))

(* Action by action: what a projection leads to is an account again.         *)
LEMMA FundedProjects ==
  ASSUME IsMarket(market), NEW a, IsAccount(a), NEW cost \in Nat, NEW funding,
         NEW b \in Funded(a, cost, funding)
  PROVE  Projects(a, b)
<1> DEFINE shortfall == RoundMoney(cost - a.cash)
<1>1. /\ DOMAIN a = {"holdings", "cash", "loan"} /\ AreLots(a.holdings)
      /\ a.cash \in Nat /\ a.loan \in Loan
  BY HoldingsAreLots DEF IsAccount
<1>2. CASE cost <= a.cash
  <2>1. b = [a EXCEPT !.cash = RoundMoney(a.cash - cost)]
    BY <1>2 DEF Funded
  <2>2. a.cash - cost \in Nat
    BY <1>1, <1>2
  <2>3. RoundMoney(a.cash - cost) \in Nat
    BY <2>2, RoundMoneyNat
  <2>. QED BY ONLY <1>1, <2>1, <2>3 DEF Projects, IsDraft
<1>3. CASE ~(cost <= a.cash) /\ funding = "external_cash"
  <2>1. b = [a EXCEPT !.cash = 0]
    BY <1>3 DEF Funded
  <2>. QED BY ONLY <1>1, <2>1 DEF Projects, IsDraft
<1>4. CASE ~(cost <= a.cash) /\ funding # "external_cash"
  <2>1. b = [a EXCEPT !.cash = 0, !.loan.principal = RoundMoney(a.loan.principal + shortfall)]
    BY <1>4 DEF Funded
  <2>2. cost - a.cash \in Nat
    BY <1>1, <1>4
  <2>3. shortfall \in Nat
    BY <2>2, RoundMoneyNat
  <2> HIDE DEF shortfall
  <2>4. a.loan.principal + shortfall \in Nat
    BY <1>1, <2>3 DEF Loan
  <2> DEFINE p == RoundMoney(a.loan.principal + shortfall)
  <2>5. p \in Nat /\ IsCents(p)
    BY <2>4, RoundMoneyNat, RoundedIsCents DEF RoundMoney
  <2> HIDE DEF p
  <2>6. b = [a EXCEPT !.cash = 0, !.loan.principal = p]
    BY <2>1 DEF p
  <2>7. /\ DOMAIN b = {"holdings", "cash", "loan"} /\ b.holdings = a.holdings /\ b.cash = 0
        /\ b.loan = [a.loan EXCEPT !.principal = p]
    BY ONLY <1>1, <2>6
  <2>8. b.loan \in Loan /\ b.loan.principal = p /\ b.loan.interest = a.loan.interest
        /\ b.loan.fees = a.loan.fees
    BY ONLY <1>1, <2>5, <2>7 DEF Loan
  <2>. QED BY ONLY <1>1, <2>5, <2>7, <2>8 DEF Projects, IsDraft, CentsLoan
<1>. QED BY <1>2, <1>3, <1>4

LEMMA SellProjects ==
  ASSUME IsMarket(market), NEW a, IsAccount(a), NEW action \in Actions,
         NEW b \in Sell(a, action)
  PROVE  Projects(a, b)
<1> DEFINE cash(q) == IF action.withdraw THEN a.cash
                       ELSE RoundMoney(a.cash + MarketAmount(action.asset, q, "sell"))
           after(q, h) == [a EXCEPT !.holdings = h, !.cash = cash(q)]
           quantities == IF Tradable(action.asset, "sell") THEN AssetQuantity(action, "sell")
                         ELSE {}
<1>1. PICK q \in quantities :
        b \in {after(q, h) : h \in HoldingDelta(a.holdings, action.asset, action.type, -q)}
  <2>1. Sell(a, action) =
          UNION {{after(q, h) : h \in HoldingDelta(a.holdings, action.asset, action.type, -q)} :
                 q \in quantities}
    BY DEF Sell
  <2> HIDE DEF after, quantities
  <2>. QED BY <2>1
<1>2. PICK h \in HoldingDelta(a.holdings, action.asset, action.type, -q) : b = after(q, h)
  <2> HIDE DEF after
  <2>. QED BY <1>1
<1>3. q \in Nat /\ MarketAmount(action.asset, q, "sell") \in Nat
  <2>1. Tradable(action.asset, "sell") /\ q \in AssetQuantity(action, "sell")
    OBVIOUS
  <2>. QED BY <2>1, QuantitiesNat, MarketAmountNat
<1>4. /\ DOMAIN a = {"holdings", "cash", "loan"} /\ AreLots(a.holdings)
      /\ a.cash \in Nat /\ a.loan \in Loan
  BY HoldingsAreLots DEF IsAccount
<1> DEFINE received == RoundMoney(a.cash + MarketAmount(action.asset, q, "sell"))
           c == IF action.withdraw THEN a.cash ELSE received
<1>5. received \in Nat
  BY <1>3, <1>4, RoundMoneyNat
<1> HIDE DEF received
<1>6. c \in Nat
  BY <1>4, <1>5
<1>7. AreLots(h)
  <2>1. -q \in Int /\ action.type \in DOMAIN Terms \cup {"any"}
    BY <1>3, ActionsAssumption
  <2>. QED BY <1>4, <2>1, HoldingDeltaType
<1>8. b = [a EXCEPT !.holdings = h, !.cash = c]
  BY <1>2 DEF received
<1> HIDE DEF c
<1>. QED BY ONLY <1>4, <1>6, <1>7, <1>8 DEF Projects, IsDraft

LEMMA MoveProjects ==
  ASSUME IsMarket(market), NEW a, IsAccount(a), NEW action \in Actions,
         NEW b \in Move(a, action)
  PROVE  Projects(a, b)
<1>1. PICK q \in AssetQuantity(action, "sell") :
        \E h \in HoldingDelta(a.holdings, action.asset, action.type,
                              IF Inward(action) THEN q ELSE -q) :
          b = [a EXCEPT !.holdings = h]
  BY DEF Move
<1>2. PICK h \in HoldingDelta(a.holdings, action.asset, action.type,
                              IF Inward(action) THEN q ELSE -q) :
          b = [a EXCEPT !.holdings = h]
  BY <1>1
<1>3. /\ DOMAIN a = {"holdings", "cash", "loan"} /\ AreLots(a.holdings)
      /\ a.cash \in Nat /\ a.loan \in Loan
  BY HoldingsAreLots DEF IsAccount
<1>4. AreLots(h)
  <2>1. q \in Nat /\ action.type \in DOMAIN Terms \cup {"any"}
    BY QuantitiesNat, ActionsAssumption
  <2>2. (IF Inward(action) THEN q ELSE -q) \in Int
    BY <2>1
  <2>. QED BY <1>3, <2>1, <2>2, HoldingDeltaType
<1>. QED BY ONLY <1>2, <1>3, <1>4 DEF Projects, IsDraft

LEMMA CashAmountNat ==
  ASSUME NEW action \in Actions
  PROVE  CashAmount(action) \in Nat
BY ActionsAssumption, RoundMoneyNat DEF CashAmount, StatedCash

LEMMA WithdrawProjects ==
  ASSUME NEW a, IsAccount(a), NEW action \in Actions, NEW b \in WithdrawCash(a, action)
  PROVE  Projects(a, b)
<1> DEFINE c == CashAmount(action)
<1>1. c <= a.cash /\ b = [a EXCEPT !.cash = a.cash - c]
  BY DEF WithdrawCash
<1>2. c \in Nat
  BY CashAmountNat
<1> HIDE DEF c
<1>3. /\ DOMAIN a = {"holdings", "cash", "loan"} /\ AreLots(a.holdings)
      /\ a.cash \in Nat /\ a.loan \in Loan
  BY HoldingsAreLots DEF IsAccount
<1>4. a.cash - c \in Nat
  BY <1>1, <1>2, <1>3
<1>. QED BY ONLY <1>1, <1>3, <1>4 DEF Projects, IsDraft

LEMMA RoundLoanIsCents ==
  ASSUME NEW l \in Loan
  PROVE  RoundLoan(l) \in Loan /\ CentsLoan(RoundLoan(l))
<1>1. l.principal \in Nat /\ l.interest \in Nat /\ l.fees \in Nat
  BY DEF Loan
<1>2. /\ IsCents(RoundMoney(l.principal)) /\ IsCents(RoundMoney(l.interest))
      /\ IsCents(RoundMoney(l.fees))
  BY <1>1, RoundedIsCents DEF RoundMoney
<1>. QED BY <1>2, RoundLoanType DEF RoundLoan, CentsLoan

LEMMA RepayProjects ==
  ASSUME NEW a, IsAccount(a), NEW action \in Actions, NEW b \in Repay(a, action)
  PROVE  Projects(a, b)
<1> DEFINE l == RoundLoan(ApplyRepayment(a.loan, CashAmount(action)))
<1>1. b = [a EXCEPT !.loan = l]
  BY DEF Repay
<1>2. /\ DOMAIN a = {"holdings", "cash", "loan"} /\ AreLots(a.holdings)
      /\ a.cash \in Nat /\ a.loan \in Loan
  BY HoldingsAreLots DEF IsAccount
<1>3. l \in Loan /\ CentsLoan(l)
  <2>1. ApplyRepayment(a.loan, CashAmount(action)) \in Loan
    BY <1>2, CashAmountNat, ApplyRepaymentType
  <2>. QED BY <2>1, RoundLoanIsCents
<1> HIDE DEF l
<1>. QED BY ONLY <1>1, <1>2, <1>3 DEF Projects, IsDraft

LEMMA BuyProjects ==
  ASSUME IsMarket(market), NEW a, IsAccount(a), NEW action \in Actions,
         NEW b \in Buy(a, action)
  PROVE  Projects(a, b)
<1>1. PICK q \in AssetQuantity(action, "buy") :
        \E cost \in PurchaseCost(action, q) : \E paid \in Funded(a, cost, action.funding) :
          \E h \in HoldingDelta(paid.holdings, action.asset, action.type, q) :
            b = [paid EXCEPT !.holdings = h]
  BY DEF Buy
<1>2. PICK cost \in PurchaseCost(action, q) : \E paid \in Funded(a, cost, action.funding) :
          \E h \in HoldingDelta(paid.holdings, action.asset, action.type, q) :
            b = [paid EXCEPT !.holdings = h]
  BY <1>1
<1>3. PICK paid \in Funded(a, cost, action.funding) :
          \E h \in HoldingDelta(paid.holdings, action.asset, action.type, q) :
            b = [paid EXCEPT !.holdings = h]
  BY <1>2
<1>4. PICK h \in HoldingDelta(paid.holdings, action.asset, action.type, q) :
            b = [paid EXCEPT !.holdings = h]
  BY <1>3
<1>5. q \in Nat /\ action.amount \in Nat /\ action.type \in DOMAIN Terms \cup {"any"}
  BY QuantitiesNat, ActionsAssumption
<1>6. cost \in Nat
  BY <1>5, RoundMoneyNat, MarketAmountNat DEF PurchaseCost
<1>7. Projects(a, paid)
  BY <1>6, FundedProjects
<1>8. AreLots(h)
  BY <1>5, <1>7, HoldingDeltaType DEF Projects, IsDraft
<1>. QED BY ONLY <1>4, <1>7, <1>8 DEF Projects, IsDraft

LEMMA RebalanceProjects ==
  ASSUME IsMarket(market), NEW a, IsAccount(a), NEW action \in Actions,
         NEW b \in Rebalance(a, action)
  PROVE  Projects(a, b)
<1> DEFINE proceeds(q) == MarketAmount(action.asset, q, "sell")
           cost(q) == IF action.toAmount > 0 THEN action.toAmount ELSE proceeds(q)
           bought(q) == IF action.toQuantity > 0 THEN {action.toQuantity}
                        ELSE QuantityFor(action.to, cost(q), "buy")
<1> DEFINE after(q, h) ==
             [a EXCEPT !.holdings = h, !.cash = RoundMoney(a.cash + proceeds(q) - cost(q))]
           quantities == IF Tradable(action.asset, "sell") THEN AssetQuantity(action, "sell")
                         ELSE {}
           ways(q) == UNION {UNION {{after(q, h) : h \in HoldingDelta(sold, action.to, action.toType, n)} :
                                    n \in bought(q)} :
                             sold \in HoldingDelta(a.holdings, action.asset, action.type, -q)}
<1>1. PICK q \in quantities : ~(cost(q) > proceeds(q) + a.cash) /\ b \in ways(q)
  <2>1. Rebalance(a, action) =
          UNION {IF cost(q) > proceeds(q) + a.cash THEN {} ELSE ways(q) : q \in quantities}
    BY DEF Rebalance
  <2> HIDE DEF cost, proceeds, ways, quantities
  <2>. QED BY <2>1
<1>2. PICK sold \in HoldingDelta(a.holdings, action.asset, action.type, -q), n \in bought(q) :
        b \in {after(q, h) : h \in HoldingDelta(sold, action.to, action.toType, n)}
  <2> HIDE DEF after, bought
  <2>. QED BY <1>1
<1>3. PICK h \in HoldingDelta(sold, action.to, action.toType, n) : b = after(q, h)
  <2> HIDE DEF after
  <2>. QED BY <1>2
<1>4. /\ DOMAIN a = {"holdings", "cash", "loan"} /\ AreLots(a.holdings)
      /\ a.cash \in Nat /\ a.loan \in Loan
  BY HoldingsAreLots DEF IsAccount
<1>5. /\ q \in Nat /\ action.toAmount \in Nat /\ action.toQuantity \in Nat
      /\ action.type \in DOMAIN Terms \cup {"any"}
      /\ action.toType \in DOMAIN Terms \cup {"any"}
  <2>1. q \in AssetQuantity(action, "sell")
    OBVIOUS
  <2>. QED BY <2>1, QuantitiesNat, ActionsAssumption
<1>6. proceeds(q) \in Nat
  <2>1. Tradable(action.asset, "sell")
    OBVIOUS
  <2>. QED BY <1>5, <2>1, MarketAmountNat
<1> HIDE DEF proceeds
<1>7. cost(q) \in Nat
  BY <1>5, <1>6
<1> HIDE DEF cost
<1>8. n \in Nat
  BY <1>5, <1>7, BoughtNat
<1>9. AreLots(sold)
  <2>1. -q \in Int
    BY <1>5
  <2>. QED BY <1>4, <1>5, <2>1, HoldingDeltaType
<1>10. AreLots(h)
  BY <1>5, <1>8, <1>9, HoldingDeltaType
<1>11. a.cash + proceeds(q) - cost(q) \in Nat
  <2>1. ~(cost(q) > proceeds(q) + a.cash)
    BY <1>1
  <2>. QED BY ONLY <2>1, <1>4, <1>6, <1>7
<1> DEFINE c == RoundMoney(a.cash + proceeds(q) - cost(q))
<1>12. c \in Nat
  BY <1>11, RoundMoneyNat
<1> HIDE DEF c
<1>13. b = [a EXCEPT !.holdings = h, !.cash = c]
  BY <1>3 DEF c
<1>. QED BY ONLY <1>4, <1>10, <1>12, <1>13 DEF Projects, IsDraft

LEMMA ProjectedType ==
  ASSUME IsMarket(market), NEW a, IsAccount(a), NEW action \in Actions,
         NEW b \in Projected(a, action)
  PROVE  IsAccount(b) /\ (CentsLoan(a.loan) => CentsLoan(b.loan))
<1> DEFINE left(c) == [c EXCEPT !.holdings =
                         [i \in {i \in DOMAIN @ : @[i] > 0} |-> @[i]]]
<1>1. PICK c : /\ \/ c \in Sell(a, action) \/ c \in Buy(a, action)
                  \/ c \in WithdrawCash(a, action) \/ c \in Move(a, action)
                  \/ c \in Repay(a, action) \/ c \in Rebalance(a, action)
               /\ b = left(c)
  BY DEF Projected
<1>2. Projects(a, c)
  BY <1>1, SellProjects, BuyProjects, WithdrawProjects, MoveProjects, RepayProjects,
     RebalanceProjects
<1> DEFINE h == [i \in {i \in DOMAIN c.holdings : c.holdings[i] > 0} |-> c.holdings[i]]
<1>3. b = [c EXCEPT !.holdings = h]
  BY <1>1
<1>4. AreHoldings(h)
  <2>1. DOMAIN h = {i \in DOMAIN c.holdings : c.holdings[i] > 0}
        /\ \A i \in DOMAIN h : h[i] = c.holdings[i]
    OBVIOUS
  <2> HIDE DEF h
  <2>2. IsFiniteSet(DOMAIN h)
    BY <1>2, <2>1, FS_Subset DEF Projects, IsDraft, AreLots
  <2>. QED BY <1>2, <2>1, <2>2 DEF Projects, IsDraft, AreLots, AreHoldings
<1> HIDE DEF h
<1>. QED BY ONLY <1>2, <1>3, <1>4 DEF Projects, IsDraft, IsAccount

(* What is answered is well typed.                                           *)
LEMMA RequiredRepaymentNat ==
  ASSUME NEW v \in Valuation, NEW loan \in Loan
  PROVE  RequiredRepayment(v, loan) \in Nat
<1>1. LiquidationCoverage(v) \in Nat \ {0} /\ Balance(loan) \in Nat
  BY CoveragesAreRatios, BalanceNat
<1>2. Balance(loan) * LiquidationCoverage(v) \in Nat /\ v.stressed * Whole \in Nat
  BY <1>1 DEF Valuation, Whole
<1>3. Excess(Balance(loan) * LiquidationCoverage(v), v.stressed * Whole) \in Nat
  BY <1>2, ExcessNat
<1>. QED BY <1>1, <1>3, RoundQuotientNat DEF RequiredRepayment

LEMMA AvailableNat ==
  ASSUME NEW v \in Valuation, NEW loan \in Loan
  PROVE  RoundMoney(Excess(SafeCreditLimit(v), RoundMoney(Balance(loan)))) \in Nat
BY SafeCreditLimitNat, BalanceNat, RoundMoneyNat, ExcessNat

LEMMA DecisionTypes ==
  ASSUME NEW v, NEW loan, NEW w, NEW after, NEW d
  PROVE  /\ ActionDecision(v, loan, w, after) \in Decisions
         /\ RiskDecision(d) \in Decisions
BY DEF ActionDecision, AlarmStates, Decisions, RiskDecision

IsAnswer(a) == a.decision \in Decisions /\ a.available \in Nat /\ a.required \in Nat

LEMMA RefusedType ==
  ASSUME NEW action
  PROVE  /\ IsAnswer(Refused(action)) /\ Refused(action).decision = "refused"
         /\ IsAnswer([Refused(action) EXCEPT !.decision = "none"])
         /\ [Refused(action) EXCEPT !.decision = "none"].decision = "none"
BY DEF Refused, IsAnswer, Decisions

(* The two checks, step by step.                                             *)
LEMMA DrawStep ==
  ASSUME TypeOK, NEW action \in Actions, CheckDrawAction(action)
  PROVE  /\ IsAccount(account') /\ IsAnswer(answer') /\ market' = market
         /\ CentsLoan(account.loan) => CentsLoan(account'.loan)
<1>1. /\ IsMarket(market) /\ IsAccount(account) /\ market' = market
  BY MarketsAssumption DEF TypeOK, IsMarket, CheckDrawAction
<1>2. PICK v, draw : /\ v = CollateralOf(account) /\ draw = CashAmount(action)
        /\ LET decision == RiskDecision(DrawDecision(v, account.loan, draw, 0))
               projected == ProjectedLoan(account.loan, draw, 0)
           IN  IF StatedCash(action) = 0 \/ ~CanAssess(account)
               THEN answer' = Refused(action) /\ UNCHANGED account
               ELSE /\ answer' = [decision  |-> decision,
                                  available |-> RoundMoney(Excess(SafeCreditLimit(v),
                                                  RoundMoney(Balance(projected)))),
                                  required  |-> RepaymentOnlyCure(v, Balance(projected)),
                                  action    |-> action]
                    /\ account' = IF decision = "approve"
                                  THEN [account EXCEPT !.loan = projected] ELSE account
  BY DEF CheckDrawAction
<1> DEFINE decision == RiskDecision(DrawDecision(v, account.loan, draw, 0))
           projected == ProjectedLoan(account.loan, draw, 0)
<1>3. v \in Valuation /\ draw \in Nat
  BY <1>1, <1>2, CollateralType, CashAmountNat
<1>4. account.loan \in Loan /\ projected \in Loan
  BY <1>1, <1>3, ProjectedLoanType DEF IsAccount
<1>5. CentsLoan(projected)
  <2> DEFINE paid == ApplyRepayment(account.loan, RoundMoney(0))
             repaid == RoundLoan(paid)
             p == RoundMoney(repaid.principal + RoundMoney(draw))
  <2>1. projected = [repaid EXCEPT !.principal = p]
    BY DEF ProjectedLoan, AfterRepayment
  <2>2. paid \in Loan
    BY <1>4, RoundMoneyNat, ApplyRepaymentType
  <2> HIDE DEF paid
  <2>3. repaid \in Loan /\ CentsLoan(repaid)
    BY <2>2, RoundLoanIsCents
  <2> HIDE DEF repaid
  <2>4. repaid.principal + RoundMoney(draw) \in Nat
    BY <1>3, <2>3, RoundMoneyNat DEF Loan
  <2>5. IsCents(p)
    BY <2>4, RoundedIsCents DEF RoundMoney
  <2> HIDE DEF p
  <2>. QED BY ONLY <2>1, <2>3, <2>5 DEF CentsLoan, Loan
<1> DEFINE available == RoundMoney(Excess(SafeCreditLimit(v), RoundMoney(Balance(projected))))
           required == RepaymentOnlyCure(v, Balance(projected))
<1>6. available \in Nat /\ required \in Nat /\ decision \in Decisions
  BY <1>3, <1>4, AvailableNat, BalanceNat, RepaymentOnlyCureNat, DecisionTypes
<1>7. \/ answer' = Refused(action) /\ account' = account
      \/ /\ answer' = [decision |-> decision, available |-> available,
                       required |-> required, action |-> action]
         /\ account' \in {account, [account EXCEPT !.loan = projected]}
  BY <1>2
<1> HIDE DEF decision, projected, available, required
<1>8. IsAnswer(answer')
  BY <1>6, <1>7, RefusedType DEF IsAnswer
<1>9. CASE account' = account
  BY <1>1, <1>8, <1>9
<1>10. CASE account' = [account EXCEPT !.loan = projected]
  <2>1. IsAccount(account') /\ account'.loan = projected
    BY ONLY <1>1, <1>4, <1>10 DEF IsAccount
  <2>. QED BY <1>1, <1>5, <1>8, <2>1
<1>. QED BY <1>7, <1>9, <1>10

LEMMA PortfolioStep ==
  ASSUME TypeOK, NEW action \in Actions, CheckPortfolioAction(action)
  PROVE  /\ IsAccount(account') /\ IsAnswer(answer') /\ market' = market
         /\ CentsLoan(account.loan) => CentsLoan(account'.loan)
<1>1. /\ IsMarket(market) /\ IsAccount(account) /\ market' = market
  BY MarketsAssumption DEF TypeOK, IsMarket, CheckPortfolioAction
<1>2. \/ answer' = Refused(action) /\ account' = account
      \/ \E b \in Projected(account, action) :
           /\ answer' = [decision  |-> ActionDecision(CollateralOf(account), account.loan,
                                                      CollateralOf(b), b.loan),
                         available |-> RoundMoney(Excess(SafeCreditLimit(CollateralOf(b)),
                                                         RoundMoney(Balance(b.loan)))),
                         required  |-> IF ActionDecision(CollateralOf(account), account.loan,
                                                         CollateralOf(b), b.loan) \in Passing
                                       THEN 0
                                       ELSE RequiredRepayment(CollateralOf(b), b.loan),
                         action    |-> action]
           /\ account' \in {b, account}
  BY DEF CheckPortfolioAction
<1>3. CASE answer' = Refused(action) /\ account' = account
  BY <1>1, <1>3, RefusedType
<1>4. ASSUME NEW b \in Projected(account, action),
             answer' = [decision  |-> ActionDecision(CollateralOf(account), account.loan,
                                                     CollateralOf(b), b.loan),
                        available |-> RoundMoney(Excess(SafeCreditLimit(CollateralOf(b)),
                                                        RoundMoney(Balance(b.loan)))),
                        required  |-> IF ActionDecision(CollateralOf(account), account.loan,
                                                        CollateralOf(b), b.loan) \in Passing
                                      THEN 0
                                      ELSE RequiredRepayment(CollateralOf(b), b.loan),
                        action    |-> action],
             account' \in {b, account}
      PROVE  /\ IsAccount(account') /\ IsAnswer(answer')
             /\ CentsLoan(account.loan) => CentsLoan(account'.loan)
  <2>1. IsAccount(b) /\ (CentsLoan(account.loan) => CentsLoan(b.loan))
    BY <1>1, ProjectedType
  <2>2. CollateralOf(b) \in Valuation /\ b.loan \in Loan
    BY <1>1, <2>1, CollateralType DEF IsAccount
  <2>3. /\ RoundMoney(Excess(SafeCreditLimit(CollateralOf(b)), RoundMoney(Balance(b.loan)))) \in Nat
        /\ RequiredRepayment(CollateralOf(b), b.loan) \in Nat
        /\ ActionDecision(CollateralOf(account), account.loan, CollateralOf(b), b.loan) \in Decisions
    BY <2>2, AvailableNat, RequiredRepaymentNat, DecisionTypes
  <2>4. IsAnswer(answer')
    BY <1>4, <2>3 DEF IsAnswer
  <2>. QED BY <1>1, <1>4, <2>1, <2>4
<1>. QED BY <1>1, <1>2, <1>3, <1>4

(* TypeOK: whatever is checked and booked, the account stays an account, the *)
(* market one of the markets, the answer a decision with two amounts.        *)
THEOREM ActionsTypeOK == Spec => []TypeOK
<1>1. Init => TypeOK
  BY AccountsAssumption, MaxChecksAssumption, RefusedType DEF Init, TypeOK, IsAnswer
<1>2. TypeOK /\ [Next]_vars => TypeOK'
  <2> SUFFICES ASSUME TypeOK, [Next]_vars
               PROVE  TypeOK'
    OBVIOUS
  <2>1. CASE UNCHANGED vars
    BY <2>1 DEF TypeOK, vars
  <2>2. ASSUME NEW action \in Actions, checks < MaxChecks, checks' = checks + 1,
               CheckDrawAction(action) \/ CheckPortfolioAction(action)
        PROVE  TypeOK'
    <3>1. IsAccount(account') /\ IsAnswer(answer') /\ market' = market
      BY <2>2, DrawStep, PortfolioStep
    <3>2. checks' \in 0..MaxChecks
      BY <2>2, MaxChecksAssumption DEF TypeOK
    <3>. QED BY <3>1, <3>2 DEF TypeOK, IsAnswer
  <2>3. ASSUME NEW quotes \in Markets, Revalue(quotes)
        PROVE  TypeOK'
    BY <2>3, RefusedType DEF Revalue, TypeOK, IsAnswer
  <2>. QED BY <2>1, <2>2, <2>3 DEF Next
<1>. QED BY <1>1, <1>2, PTL DEF Spec

(***************************************************************************)
(* An account the checks let pass is safe.  That is not inductive alone:   *)
(* whether the answer still fits the account depends on the credit it      *)
(* announced, and the checks compare rounded amounts, so that the loan     *)
(* must stay in whole cents for a rounded check to say what the exact      *)
(* coverage is.  BookedInv carries both.                                   *)
(***************************************************************************)
LEMMA CentsBalance ==
  ASSUME NEW l, CentsLoan(l)
  PROVE  IsCents(Balance(l))
<1>1. IsCents(l.principal + l.interest)
  BY CentsAdd DEF CentsLoan
<1>. QED BY <1>1, CentsAdd DEF CentsLoan, Balance

LEMMA ZeroIsCents == IsCents(0) /\ RoundMoney(0) = 0
<1>1. 0 = Cent * 0
  BY CentAssumption
<1>. QED BY <1>1, CentsStay DEF IsCents

LEMMA NothingRepaid ==
  ASSUME NEW l \in Loan, CentsLoan(l)
  PROVE  AfterRepayment(l, 0) = l
<1>1. /\ l.principal \in Nat /\ l.interest \in Nat /\ l.fees \in Nat
      /\ l = [principal |-> l.principal, interest |-> l.interest, fees |-> l.fees]
  BY DEF Loan
<1>2. ApplyRepayment(l, 0) = l
  BY <1>1 DEF ApplyRepayment, Excess
<1>3. /\ RoundMoney(l.principal) = l.principal /\ RoundMoney(l.interest) = l.interest
      /\ RoundMoney(l.fees) = l.fees
  BY CentsStay DEF CentsLoan
<1>4. RoundLoan(l) = l
  BY <1>1, <1>3 DEF RoundLoan
<1>. QED BY <1>2, <1>4, ZeroIsCents DEF AfterRepayment

LEMMA MoneyIsCents ==
  ASSUME NEW n \in Nat
  PROVE  IsCents(RoundMoney(n))
BY RoundedIsCents DEF RoundMoney

(* What an answer that let an action pass still says of the account.         *)
CreditIsCurrent ==
  Booked => /\ MarginState(CollateralOf(account), Balance(account.loan)) = "safe"
            /\ answer.available = MaxApprovedDraw(CollateralOf(account), account.loan, 0)

BookedInv == TypeOK /\ CentsLoan(account.loan) /\ CreditIsCurrent

LEMMA NotBooked ==
  ASSUME answer.decision \in {"none", "refused"}
  PROVE  CreditIsCurrent
BY DEF CreditIsCurrent, Booked, Passing

LEMMA AvailableIs ==
  ASSUME NEW v, NEW l \in Loan, CentsLoan(l)
  PROVE  RoundMoney(Excess(SafeCreditLimit(v), RoundMoney(Balance(l))))
           = MaxApprovedDraw(v, l, 0)
BY NothingRepaid DEF MaxApprovedDraw

(* A check that lets a draw or another action pass leaves a safe account,    *)
(* and announces the credit that account has.                                *)
LEMMA DrawKeepsCredit ==
  ASSUME TypeOK, CentsLoan(account.loan), NEW action \in Actions, CheckDrawAction(action)
  PROVE  CreditIsCurrent'
<1> DEFINE projected == ProjectedLoan(account.loan, CashAmount(action), 0)
           drawn == [account EXCEPT !.loan = projected]
           v == CollateralOf(account)
           decision == RiskDecision(DrawDecision(v, account.loan, CashAmount(action), 0))
           available == RoundMoney(Excess(SafeCreditLimit(v), RoundMoney(Balance(projected))))
<1>1. /\ IsAccount(account') /\ market' = market
      /\ CentsLoan(account'.loan)
  BY DrawStep
<1>2. \/ answer' = Refused(action)
      \/ /\ answer' = [decision |-> decision, available |-> available,
                       required |-> RepaymentOnlyCure(v, Balance(projected)),
                       action |-> action]
         /\ account' = IF decision = "approve" THEN drawn ELSE account
  BY DEF CheckDrawAction
<1>3. action.kind = "draw"
  BY DEF CheckDrawAction
<1>4. CASE answer' = Refused(action)
  BY <1>4, RefusedType DEF CreditIsCurrent, Booked, Passing
<1>5. CASE /\ answer' = [decision |-> decision, available |-> available,
                       required |-> RepaymentOnlyCure(v, Balance(projected)),
                       action |-> action]
           /\ account' = IF decision = "approve" THEN drawn ELSE account
  <2> HIDE DEF projected, v, decision, available
  <2>1. /\ answer'.decision = decision /\ answer'.available = available
        /\ answer'.action = action
    BY <1>5
  <2>2. CASE decision # "approve"
    BY <1>3, <2>1, <2>2 DEF CreditIsCurrent, Booked
  <2>3. CASE decision = "approve"
    <3>1. DrawDecision(v, account.loan, CashAmount(action), 0) = "approved"
      BY <2>3 DEF decision, RiskDecision
    <3>2. MarginState(v, Balance(projected)) = "safe"
      BY <3>1 DEF DrawDecision, projected
    <3>3. account' = drawn
      BY <1>5, <2>3
    <3>4. /\ account'.holdings = account.holdings /\ account'.cash = account.cash
          /\ account'.loan = projected
      BY ONLY <3>3, TypeOK DEF TypeOK, IsAccount
    <3>5. CollateralOf(account)' = v
      BY <1>1, <3>4 DEF CollateralOf, MarketWithCash, v
    <3>6. available = MaxApprovedDraw(v, projected, 0)
      BY <1>1, <3>4, AvailableIs DEF available, IsAccount
    <3>. QED BY <2>1, <3>2, <3>4, <3>5, <3>6 DEF CreditIsCurrent
  <2>. QED BY <2>2, <2>3
<1>. QED BY <1>2, <1>4, <1>5

LEMMA PassingIsSafe ==
  ASSUME NEW pre, NEW preLoan, NEW v \in Valuation, NEW l \in Loan, CentsLoan(l),
         ActionDecision(pre, preLoan, v, l) \in Passing
  PROVE  MarginState(v, Balance(l)) = "safe"
<1>1. RoundMoney(Balance(l)) = Balance(l)
  BY CentsBalance, CentsStay
<1>2. CASE Balance(l) = 0
  BY <1>2 DEF MarginState
<1>3. CASE Balance(l) # 0
  <2>1. \/ ActionDecision(pre, preLoan, v, l) \in AlarmStates \cup {"reject"}
        \/ MarginState(v, Balance(l)) = "safe"
    BY <1>1, <1>3 DEF ActionDecision
  <2>. QED BY <2>1 DEF AlarmStates, Passing
<1>. QED BY <1>2, <1>3

LEMMA PortfolioKeepsCredit ==
  ASSUME TypeOK, CentsLoan(account.loan), NEW action \in Actions, CheckPortfolioAction(action)
  PROVE  CreditIsCurrent'
<1>1. market' = market /\ IsMarket(market) /\ IsAccount(account)
  BY MarketsAssumption DEF TypeOK, IsMarket, CheckPortfolioAction
<1>2. \/ answer' = Refused(action)
      \/ \E b \in Projected(account, action) :
           /\ answer'.decision = ActionDecision(CollateralOf(account), account.loan,
                                                CollateralOf(b), b.loan)
           /\ answer'.available = RoundMoney(Excess(SafeCreditLimit(CollateralOf(b)),
                                                    RoundMoney(Balance(b.loan))))
           /\ answer'.decision \in Passing => account' = b
  BY DEF CheckPortfolioAction
<1>3. CASE answer' = Refused(action)
  BY <1>3, RefusedType DEF CreditIsCurrent, Booked, Passing
<1>4. ASSUME NEW b \in Projected(account, action),
             answer'.decision = ActionDecision(CollateralOf(account), account.loan,
                                               CollateralOf(b), b.loan),
             answer'.available = RoundMoney(Excess(SafeCreditLimit(CollateralOf(b)),
                                                   RoundMoney(Balance(b.loan)))),
             answer'.decision \in Passing => account' = b
      PROVE  CreditIsCurrent'
  <2>1. IsAccount(b) /\ CentsLoan(b.loan)
    BY <1>1, ProjectedType
  <2>2. CollateralOf(b) \in Valuation /\ b.loan \in Loan
    BY <1>1, <2>1, CollateralType DEF IsAccount
  <2>3. CASE answer'.decision \notin Passing
    BY <2>3 DEF CreditIsCurrent, Booked
  <2>4. CASE answer'.decision \in Passing
    <3>1. account' = b
      BY <1>4, <2>4
    <3>2. MarginState(CollateralOf(b), Balance(b.loan)) = "safe"
      BY <1>4, <2>1, <2>2, <2>4, PassingIsSafe
    <3>3. answer'.available = MaxApprovedDraw(CollateralOf(b), b.loan, 0)
      BY <1>4, <2>1, <2>2, AvailableIs
    <3>4. CollateralOf(account)' = CollateralOf(b)
      BY <1>1, <3>1 DEF CollateralOf, MarketWithCash
    <3>. QED BY <3>1, <3>2, <3>3, <3>4 DEF CreditIsCurrent
  <2>. QED BY <2>3, <2>4
<1>. QED BY <1>2, <1>3, <1>4

LEMMA ReportedCents ==
  ASSUME WholeCents, NEW a \in Accounts
  PROVE  CentsLoan(a.loan)
<1>1. RoundLoan(a.loan) = a.loan /\ a.loan \in Loan
  BY AccountsAssumption DEF WholeCents, IsAccount
<1>. QED BY <1>1, RoundLoanIsCents

LEMMA BookedAccounts ==
  ASSUME WholeCents
  PROVE  Spec => [](TypeOK /\ BookedInv)
<1>1. TypeOK /\ Init => BookedInv
  <2> SUFFICES ASSUME TypeOK, Init PROVE BookedInv
    OBVIOUS
  <2>1. CentsLoan(account.loan)
    BY ReportedCents DEF Init
  <2>2. answer.decision = "none"
    BY RefusedType DEF Init
  <2>. QED BY <2>1, <2>2, NotBooked DEF BookedInv
<1>2. TypeOK /\ BookedInv /\ TypeOK' /\ [Next]_vars => BookedInv'
  <2> SUFFICES ASSUME BookedInv, TypeOK', [Next]_vars
               PROVE  CentsLoan(account'.loan) /\ CreditIsCurrent'
    BY DEF BookedInv
  <2>1. TypeOK /\ CentsLoan(account.loan) /\ CreditIsCurrent
    BY DEF BookedInv
  <2>2. CASE UNCHANGED vars
    BY <2>1, <2>2 DEF vars, CreditIsCurrent, Booked, CollateralOf, MarketWithCash
  <2>3. ASSUME NEW action \in Actions, CheckDrawAction(action) \/ CheckPortfolioAction(action)
        PROVE  CentsLoan(account'.loan) /\ CreditIsCurrent'
    BY <2>1, <2>3, DrawStep, PortfolioStep, DrawKeepsCredit, PortfolioKeepsCredit
  <2>4. ASSUME NEW quotes \in Markets, Revalue(quotes)
        PROVE  CentsLoan(account'.loan) /\ CreditIsCurrent'
    BY <2>1, <2>4, RefusedType DEF Revalue, CreditIsCurrent, Booked, Passing
  <2>. QED BY <2>2, <2>3, <2>4 DEF Next
<1>. QED BY <1>1, <1>2, ActionsTypeOK, PTL DEF Spec

(* BookedAccountIsSafe: the account that an action let pass by the checks    *)
(* leads to is safe, when the loans the client reports are whole cents.      *)
THEOREM BookedAccountsAreSafe ==
  ASSUME WholeCents
  PROVE  Spec => []BookedAccountIsSafe
<1>1. BookedInv => BookedAccountIsSafe
  BY DEF BookedInv, CreditIsCurrent, BookedAccountIsSafe
<1>. QED BY <1>1, BookedAccounts, PTL

(* AvailableCreditCanBeDrawn: a draw of the credit an answer announces, less *)
(* a cent, is approved.                                                      *)
THEOREM AvailableCreditIsThere ==
  ASSUME WholeCents
  PROVE  Spec => []AvailableCreditCanBeDrawn
<1>1. BookedInv => AvailableCreditCanBeDrawn
  <2> SUFFICES ASSUME BookedInv, Booked, answer.available > Cent
               PROVE  DrawDecision(CollateralOf(account), account.loan,
                                   answer.available - Cent, 0) = "approved"
    BY DEF AvailableCreditCanBeDrawn
  <2>1. answer.available = MaxApprovedDraw(CollateralOf(account), account.loan, 0)
    BY DEF BookedInv, CreditIsCurrent
  <2>2. CollateralOf(account) \in Valuation /\ account.loan \in Loan
    BY CollateralType, MarketsAssumption DEF BookedInv, TypeOK, IsMarket, IsAccount
  <2>. QED BY <2>1, <2>2, LessACentIsApproved
<1>. QED BY <1>1, BookedAccounts, PTL

(* Zeros do not count.                                                       *)
LEMMA SumZeros ==
  ASSUME NEW S, IsFiniteSet(S), NEW f, \A x \in S : f[x] \in Int,
         NEW T \in SUBSET S, \A x \in S \ T : f[x] = 0
  PROVE  SumFunctionOnSet(f, S) = SumFunctionOnSet(f, T)
<1> DEFINE Sum(U) == SumFunctionOnSet(f, U)
           G == {U \in SUBSET S : Sum(U) = Sum(U \cap T)}
<1>1. \A U \in SUBSET S : \A x \in U :
        Sum(U) = f[x] + Sum(U \ {x}) /\ Sum(U \ {x}) \in Int
  <2> TAKE U \in SUBSET S
  <2> TAKE x \in U
  <2>1. /\ IsFiniteSet(U) /\ \A y \in U : f[y] \in Int
        /\ IsFiniteSet(U \ {x}) /\ \A y \in U \ {x} : f[y] \in Int
    <3>1. U \ {x} \in SUBSET S
      OBVIOUS
    <3>. QED BY <3>1, FS_Subset
  <2>2. Sum(U \ {x}) \in Int
    BY <2>1, SumInt
  <2>3. Sum(U) = f[x] + Sum(U \ {x})
    BY <2>1, SumStep
  <2>. QED BY <2>2, <2>3
<1> HIDE DEF Sum
<1>2. {} \in G
  <2>1. {} \cap T = {}
    OBVIOUS
  <2>. QED BY <2>1
<1>3. ASSUME NEW U \in SUBSET S, U # {}, \A x \in U : U \ {x} \in G
      PROVE  U \in G
  <2>1. PICK x : x \in U
    BY <1>3
  <2>2. Sum(U) = f[x] + Sum(U \ {x}) /\ Sum(U \ {x}) = Sum((U \ {x}) \cap T)
        /\ Sum(U \ {x}) \in Int
    BY <1>1, <1>3, <2>1
  <2>3. CASE x \in T
    <3>1. (U \ {x}) \cap T = (U \cap T) \ {x} /\ x \in U \cap T /\ U \cap T \in SUBSET S
      BY <2>1, <2>3
    <3>2. Sum(U \cap T) = f[x] + Sum((U \cap T) \ {x})
      BY <1>1, <3>1
    <3>. QED BY <2>2, <3>1, <3>2
  <2>4. CASE x \notin T
    <3>1. (U \ {x}) \cap T = U \cap T /\ f[x] = 0
      BY <2>1, <2>4
    <3>2. Sum(U) = Sum(U \ {x})
      BY <2>2, <3>1
    <3>3. Sum(U) = Sum(U \cap T)
      BY <2>2, <3>1, <3>2
    <3>. QED BY <3>3
  <2>. QED BY <2>3, <2>4
<1> HIDE DEF G
<1>4. SUBSET S \subseteq G
  BY <1>2, <1>3, SubsetInduction
<1>5. Sum(S) = Sum(S \cap T) /\ S \cap T = T
  BY <1>4 DEF G
<1>. QED BY <1>5 DEF Sum

(***************************************************************************)
(* What lots are worth at the bid.                                         *)
(***************************************************************************)
(* A portfolio's value at the bid, as a sum over its holdings.               *)
LEMMA BidNat ==
  ASSUME IsMarket(market), NEW asset
  PROVE  Bid(asset) \in Nat
BY ExecutionPriceNat DEF Bid

LEMMA ValueIsSum ==
  ASSUME IsMarket(market), NEW h, AreLots(h)
  PROVE  \E f : /\ DOMAIN f = DOMAIN h /\ LotsValue(h) = SumFunctionOnSet(f, DOMAIN h)
                /\ \A i \in DOMAIN h : f[i] = h[i] * Bid(i.asset) /\ f[i] \in Nat
<1> DEFINE f == [i \in DOMAIN h |-> h[i] * Bid(i.asset)]
<1>1. LotsValue(h) = SumFunctionOnSet(f, DOMAIN h)
  BY SumFunctionIs DEF LotsValue
<1>2. ASSUME NEW i \in DOMAIN h
      PROVE  f[i] = h[i] * Bid(i.asset) /\ f[i] \in Nat
  <2>1. h[i] \in Nat /\ Bid(i.asset) \in Nat
    BY BidNat DEF AreLots
  <2>2. h[i] * Bid(i.asset) \in Nat
    BY <2>1
  <2>. QED BY <2>2
<1>3. DOMAIN f = DOMAIN h
  OBVIOUS
<1> HIDE DEF f
<1>. QED BY <1>1, <1>2, <1>3

LEMMA LotsValueNat ==
  ASSUME IsMarket(market), NEW h, AreLots(h)
  PROVE  LotsValue(h) \in Nat
<1>1. PICK f : /\ LotsValue(h) = SumFunctionOnSet(f, DOMAIN h)
               /\ \A i \in DOMAIN h : f[i] \in Nat
  BY ValueIsSum
<1>. QED BY <1>1, SumNat DEF AreLots

(* Lots added or taken change the value by what they are worth.              *)
LEMMA DeltaValue ==
  ASSUME IsMarket(market), NEW h, AreLots(h), NEW asset,
         NEW type \in DOMAIN Terms \cup {"any"}, NEW delta \in Int,
         NEW k \in HoldingDelta(h, asset, type, delta)
  PROVE  LotsValue(k) = LotsValue(h) + delta * Bid(asset)
<1> DEFINE candidates == {i \in DOMAIN h : i.asset = asset /\ type \in {"any", i.type}}
           opened     == [asset |-> asset, type |-> type, venue |-> "unknown"]
<1>1. AreLots(k)
  BY HoldingDeltaType
<1>2. PICK f : /\ LotsValue(h) = SumFunctionOnSet(f, DOMAIN h)
               /\ \A i \in DOMAIN h : f[i] = h[i] * Bid(i.asset) /\ f[i] \in Nat
  BY ValueIsSum
<1>3. PICK g : /\ LotsValue(k) = SumFunctionOnSet(g, DOMAIN k)
               /\ \A i \in DOMAIN k : g[i] = k[i] * Bid(i.asset) /\ g[i] \in Nat
  BY <1>1, ValueIsSum
<1>4. \E x \in DOMAIN k : /\ x.asset = asset
                          /\ \A i \in DOMAIN k \ {x} : i \in DOMAIN h /\ k[i] = h[i]
                          /\ \/ x \notin DOMAIN h /\ DOMAIN k \ {x} = DOMAIN h /\ k[x] = delta
                             \/ x \in DOMAIN h /\ DOMAIN k = DOMAIN h /\ k[x] = h[x] + delta
  <2>1. CASE candidates = {}
    <3>1. type # "any" /\ k = Put(h, opened, delta)
      BY <2>1 DEF HoldingDelta
    <3>2. opened.asset = asset /\ opened.type = type
      OBVIOUS
    <3>3. opened \notin DOMAIN h
      BY <2>1, <3>2
    <3> HIDE DEF opened
    <3>4. /\ DOMAIN k = DOMAIN h \cup {opened}
          /\ \A i \in DOMAIN k : k[i] = IF i = opened THEN delta ELSE h[i]
      BY <3>1 DEF Put
    <3>5. /\ opened \in DOMAIN k /\ DOMAIN k \ {opened} = DOMAIN h /\ k[opened] = delta
          /\ \A i \in DOMAIN k \ {opened} : i \in DOMAIN h /\ k[i] = h[i]
      BY <3>3, <3>4
    <3>. QED BY <3>2, <3>3, <3>5
  <2>2. CASE candidates # {}
    <3>1. PICK x \in candidates : k = [h EXCEPT ![x] = @ + delta]
      BY <2>2 DEF HoldingDelta
    <3>2. x \in DOMAIN h /\ x.asset = asset
      OBVIOUS
    <3>3. DOMAIN k = DOMAIN h /\ \A i \in DOMAIN h : k[i] = IF i = x THEN h[x] + delta ELSE h[i]
      BY <3>1
    <3> HIDE DEF candidates
    <3>. QED BY <3>2, <3>3
  <2>. QED BY <2>1, <2>2
<1>5. PICK x \in DOMAIN k : /\ x.asset = asset
                            /\ \A i \in DOMAIN k \ {x} : i \in DOMAIN h /\ k[i] = h[i]
                            /\ \/ x \notin DOMAIN h /\ DOMAIN k \ {x} = DOMAIN h /\ k[x] = delta
                               \/ x \in DOMAIN h /\ DOMAIN k = DOMAIN h /\ k[x] = h[x] + delta
  BY <1>4
<1> DEFINE rest == DOMAIN k \ {x}
<1>6. IsFiniteSet(DOMAIN k) /\ IsFiniteSet(DOMAIN h) /\ IsFiniteSet(rest)
  BY <1>1, FS_RemoveElement DEF AreLots
<1>7. SumFunctionOnSet(g, rest) = SumFunctionOnSet(f, rest)
  <2>1. \A i \in rest : g[i] = f[i]
    <3> TAKE i \in rest
    <3>1. i \in DOMAIN k /\ i \in DOMAIN h /\ k[i] = h[i]
      BY <1>5
    <3>. QED BY <1>2, <1>3, <3>1
  <2>. QED BY <1>6, <2>1, SumSame
<1>8. LotsValue(k) = g[x] + SumFunctionOnSet(f, rest)
  <2>1. \A i \in DOMAIN k : g[i] \in Int
    BY <1>3
  <2>2. SumFunctionOnSet(g, DOMAIN k) = g[x] + SumFunctionOnSet(g, rest)
    BY <1>6, <2>1, SumStep
  <2>. QED BY <1>3, <1>7, <2>2
<1>9. Bid(asset) \in Nat /\ LotsValue(h) \in Nat /\ LotsValue(k) \in Nat
  BY <1>1, BidNat, LotsValueNat
<1>10. g[x] = k[x] * Bid(asset) /\ k[x] \in Nat
  BY <1>1, <1>3, <1>5 DEF AreLots
<1>11. CASE x \notin DOMAIN h /\ rest = DOMAIN h /\ k[x] = delta
  BY <1>2, <1>8, <1>9, <1>10, <1>11
<1>12. CASE x \in DOMAIN h /\ DOMAIN k = DOMAIN h /\ k[x] = h[x] + delta
  <2>1. \A i \in DOMAIN h : f[i] \in Int
    BY <1>2
  <2>2. SumFunctionOnSet(f, DOMAIN h) = f[x] + SumFunctionOnSet(f, DOMAIN h \ {x})
    BY <1>6, <1>12, <2>1, SumStep
  <2>3. LotsValue(h) = f[x] + SumFunctionOnSet(f, rest)
    BY <1>2, <1>12, <2>2
  <2>4. f[x] = h[x] * Bid(asset) /\ h[x] \in Nat
    BY <1>2, <1>5, <1>12 DEF AreLots
  <2>5. g[x] = f[x] + delta * Bid(asset)
    BY ONLY <1>9, <1>10, <1>12, <2>4, delta \in Int
  <2>6. f[x] \in Int /\ g[x] \in Int
    BY ONLY <1>9, <1>10, <2>4
  <2>7. SumFunctionOnSet(f, rest) \in Int
    <3>1. \A i \in rest : f[i] \in Int
      BY <1>5, <2>1
    <3>. QED BY <1>6, <3>1, SumInt
  <2> DEFINE d == delta * Bid(asset)
             s == SumFunctionOnSet(f, rest)
  <2>8. d \in Int
    BY <1>9
  <2>. QED BY ONLY <1>8, <2>3, <2>5, <2>6, <2>7, <2>8
<1>. QED BY <1>5, <1>11, <1>12

LEMMA LeftValue ==
  ASSUME IsMarket(market), NEW h, AreLots(h)
  PROVE  LotsValue([i \in {i \in DOMAIN h : h[i] > 0} |-> h[i]]) = LotsValue(h)
<1> DEFINE k == [i \in {i \in DOMAIN h : h[i] > 0} |-> h[i]]
<1>1. /\ DOMAIN k = {i \in DOMAIN h : h[i] > 0} /\ \A i \in DOMAIN k : k[i] = h[i]
      /\ DOMAIN k \in SUBSET DOMAIN h
  OBVIOUS
<1> HIDE DEF k
<1>2. AreLots(k)
  <2>1. IsFiniteSet(DOMAIN k)
    BY <1>1, FS_Subset DEF AreLots
  <2>. QED BY <1>1, <2>1 DEF AreLots
<1>3. PICK f : /\ LotsValue(h) = SumFunctionOnSet(f, DOMAIN h)
               /\ \A i \in DOMAIN h : f[i] = h[i] * Bid(i.asset) /\ f[i] \in Nat
  BY ValueIsSum
<1>4. PICK g : /\ LotsValue(k) = SumFunctionOnSet(g, DOMAIN k)
               /\ \A i \in DOMAIN k : g[i] = k[i] * Bid(i.asset) /\ g[i] \in Nat
  BY <1>2, ValueIsSum
<1>5. SumFunctionOnSet(g, DOMAIN k) = SumFunctionOnSet(f, DOMAIN k)
  <2>1. \A i \in DOMAIN k : g[i] = f[i]
    BY <1>1, <1>3, <1>4
  <2>. QED BY <1>2, <2>1, SumSame DEF AreLots
<1>6. SumFunctionOnSet(f, DOMAIN h) = SumFunctionOnSet(f, DOMAIN k)
  <2>1. \A i \in DOMAIN h \ DOMAIN k : f[i] = 0
    <3> TAKE i \in DOMAIN h \ DOMAIN k
    <3>1. h[i] = 0 /\ Bid(i.asset) \in Nat
      BY <1>1, BidNat DEF AreLots
    <3>. QED BY <1>3, <3>1
  <2>2. \A i \in DOMAIN h : f[i] \in Int
    BY <1>3
  <2>. QED BY <1>1, <2>1, <2>2, SumZeros DEF AreLots
<1>. QED BY <1>3, <1>4, <1>5, <1>6 DEF k

(* What ActionsCreateNoValue bounds: b is no richer than a was.              *)
NoGain(a, b, brought) ==
  LiquidValue(b) + Balance(a.loan) <= LiquidValue(a) + Balance(b.loan) + Cent + brought

(* An account's numbers, and what a rounded sum of money differs by.         *)
LEMMA DraftNumbers ==
  ASSUME IsMarket(market), NEW b, IsDraft(b)
  PROVE  /\ LiquidValue(b) = b.cash + LotsValue(b.holdings)
         /\ b.cash \in Nat /\ LotsValue(b.holdings) \in Nat /\ Balance(b.loan) \in Nat
BY LotsValueNat, BalanceNat DEF LiquidValue, IsDraft

LEMMA AccountNumbers ==
  ASSUME IsMarket(market), NEW a, IsAccount(a)
  PROVE  /\ LiquidValue(a) = a.cash + LotsValue(a.holdings)
         /\ a.cash \in Nat /\ LotsValue(a.holdings) \in Nat /\ Balance(a.loan) \in Nat
         /\ AreLots(a.holdings) /\ DOMAIN a = {"holdings", "cash", "loan"} /\ a.loan \in Loan
BY LotsValueNat, BalanceNat, HoldingsAreLots DEF LiquidValue, IsAccount

LEMMA PricesInOrder ==
  ASSUME market \in Markets, NeverCrossed, NEW asset, NEW side, Tradable(asset, side),
         NEW q \in Nat
  PROVE  /\ Bid(asset) \in Nat /\ ExecutionPrice(asset, "buy") \in Nat
         /\ Bid(asset) = ExecutionPrice(asset, "sell")
         /\ q * Bid(asset) \in Nat /\ q * ExecutionPrice(asset, "buy") \in Nat
         /\ q * Bid(asset) <= q * ExecutionPrice(asset, "buy")
<1>1. asset \in DOMAIN market /\ IsMarket(market)
  BY MarketsAssumption DEF Tradable, IsMarket
<1>2. Bid(asset) = ExecutionPrice(asset, "sell")
  BY <1>1 DEF Bid
<1>3. Bid(asset) \in Nat /\ ExecutionPrice(asset, "buy") \in Nat
  BY <1>1, BidNat, ExecutionPriceNat
<1>4. Bid(asset) <= ExecutionPrice(asset, "buy")
  BY <1>1, <1>2 DEF NeverCrossed, ExecutionPrice
<1>5. /\ q * Bid(asset) \in Nat /\ q * ExecutionPrice(asset, "buy") \in Nat
  BY <1>3
<1>6. q * Bid(asset) <= q * ExecutionPrice(asset, "buy")
  BY <1>3, <1>4, ProductMonotone
<1>. QED BY <1>2, <1>3, <1>5, <1>6

(* A quantity that comes from an amount of money is worth no more.           *)
LEMMA QuantityWithin ==
  ASSUME IsMarket(market), NEW asset, NEW amount \in Nat, NEW side,
         NEW q \in QuantityFor(asset, amount, side)
  PROVE  /\ Tradable(asset, side) /\ q \in Nat
         /\ q * ExecutionPrice(asset, side) \in Nat
         /\ q * ExecutionPrice(asset, side) <= amount
<1> DEFINE price == ExecutionPrice(asset, side)
<1>1. Tradable(asset, side) /\ q = amount \div price
  BY DEF QuantityFor
<1>2. price \in Nat \ {0}
  BY <1>1, ExecutionPriceNat DEF Tradable
<1> HIDE DEF price
<1>3. q \in Nat /\ price * q <= amount /\ price * q \in Nat
  BY <1>1, <1>2, DivisionBounds
<1>4. price * q = q * price
  BY <1>2, <1>3
<1>. QED BY <1>1, <1>3, <1>4 DEF price

(* Action by action: what the account gains is at most what is brought in.   *)
LEMMA SellGain ==
  ASSUME market \in Markets, NEW a, IsAccount(a), NEW action \in Actions,
         NEW b \in Sell(a, action)
  PROVE  NoGain(a, b, 0)
<1>0. IsMarket(market)
  BY MarketsAssumption DEF IsMarket
<1> DEFINE received(q) == RoundMoney(a.cash + MarketAmount(action.asset, q, "sell"))
           cash(q) == IF action.withdraw THEN a.cash ELSE received(q)
           after(q, h) == [a EXCEPT !.holdings = h, !.cash = cash(q)]
           quantities == IF Tradable(action.asset, "sell") THEN AssetQuantity(action, "sell")
                         ELSE {}
<1>1. PICK q \in quantities :
        b \in {after(q, h) : h \in HoldingDelta(a.holdings, action.asset, action.type, -q)}
  <2>1. Sell(a, action) =
          UNION {{after(q, h) : h \in HoldingDelta(a.holdings, action.asset, action.type, -q)} :
                 q \in quantities}
    BY DEF Sell
  <2> HIDE DEF after, quantities
  <2>. QED BY <2>1
<1>2. PICK h \in HoldingDelta(a.holdings, action.asset, action.type, -q) : b = after(q, h)
  <2> HIDE DEF after
  <2>. QED BY <1>1
<1>3. Tradable(action.asset, "sell") /\ q \in Nat
  <2>1. Tradable(action.asset, "sell") /\ q \in AssetQuantity(action, "sell")
    OBVIOUS
  <2>. QED BY <1>0, <2>1, QuantitiesNat
<1> DEFINE worth == q * Bid(action.asset)
           amount == MarketAmount(action.asset, q, "sell")
<1>4. worth \in Nat /\ amount \in Nat /\ 2 * amount <= 2 * worth + Cent
  <2>1. Bid(action.asset) = ExecutionPrice(action.asset, "sell") /\ Bid(action.asset) \in Nat
    BY <1>0, <1>3, BidNat DEF Bid, Tradable
  <2>2. worth \in Nat /\ amount = RoundMoney(worth)
    BY <1>3, <2>1 DEF MarketAmount
  <2> HIDE DEF worth, amount
  <2>. QED BY <2>2, HalfACent, RoundMoneyNat
<1>5. LotsValue(h) = LotsValue(a.holdings) - worth
  <2>1. -q \in Int /\ action.type \in DOMAIN Terms \cup {"any"} /\ AreLots(a.holdings)
    BY <1>3, ActionsAssumption, HoldingsAreLots DEF IsAccount
  <2>2. LotsValue(h) = LotsValue(a.holdings) + (-q) * Bid(action.asset)
    BY <1>0, <2>1, DeltaValue
  <2>3. (-q) * Bid(action.asset) = -worth /\ LotsValue(a.holdings) \in Nat
    BY <1>0, <1>3, <2>1, BidNat, LotsValueNat
  <2>. QED BY <1>4, <2>2, <2>3
<1>6. /\ LiquidValue(a) = a.cash + LotsValue(a.holdings)
      /\ a.cash \in Nat /\ LotsValue(a.holdings) \in Nat /\ Balance(a.loan) \in Nat
      /\ DOMAIN a = {"holdings", "cash", "loan"}
  BY <1>0, AccountNumbers
<1> HIDE DEF amount, worth
<1>7. received(q) \in Nat /\ 2 * received(q) <= 2 * (a.cash + amount) + Cent
  <2>1. a.cash + amount \in Nat
    BY <1>4, <1>6
  <2>. QED BY <2>1, HalfACent, RoundMoneyNat DEF amount
<1> HIDE DEF received
<1>8. cash(q) \in Nat /\ 2 * cash(q) <= 2 * (a.cash + amount) + Cent
  BY <1>4, <1>6, <1>7, CentAssumption
<1>9. b = [a EXCEPT !.holdings = h, !.cash = cash(q)]
  BY <1>2
<1> HIDE DEF cash
<1>10. b.cash = cash(q) /\ b.holdings = h /\ b.loan = a.loan
  BY ONLY <1>6, <1>9
<1>11. LiquidValue(b) = cash(q) + LotsValue(h)
  BY <1>10 DEF LiquidValue
<1>12. Cent \in Nat
  BY CentAssumption
<1>13. cash(q) + LotsValue(h) <= a.cash + LotsValue(a.holdings) + Cent
  BY ONLY <1>4, <1>5, <1>6, <1>8, <1>12
<1>. QED BY ONLY <1>4, <1>5, <1>6, <1>8, <1>10, <1>11, <1>12, <1>13 DEF NoGain

LEMMA WithdrawGain ==
  ASSUME market \in Markets, NEW a, IsAccount(a), NEW action \in Actions,
         NEW b \in WithdrawCash(a, action)
  PROVE  NoGain(a, b, 0)
<1> DEFINE c == CashAmount(action)
<1>1. c <= a.cash /\ b = [a EXCEPT !.cash = a.cash - c]
  BY DEF WithdrawCash
<1>2. c \in Nat /\ Cent \in Nat
  BY CashAmountNat, CentAssumption
<1> HIDE DEF c
<1>3. /\ LiquidValue(a) = a.cash + LotsValue(a.holdings)
      /\ a.cash \in Nat /\ LotsValue(a.holdings) \in Nat /\ Balance(a.loan) \in Nat
      /\ DOMAIN a = {"holdings", "cash", "loan"}
  BY AccountNumbers, MarketsAssumption DEF IsMarket
<1>4. b.cash = a.cash - c /\ b.holdings = a.holdings /\ b.loan = a.loan
  BY ONLY <1>1, <1>3
<1>5. LiquidValue(b) = (a.cash - c) + LotsValue(a.holdings)
  BY <1>4 DEF LiquidValue
<1>. QED BY ONLY <1>2, <1>3, <1>4, <1>5 DEF NoGain

(* What a repayment leaves of a loan in whole cents.                         *)
LEMMA RepaidBalance ==
  ASSUME NEW l \in Loan, CentsLoan(l), NEW c, IsCents(c)
  PROVE  Balance(RoundLoan(ApplyRepayment(l, c))) = Excess(Balance(l), c)
<1> DEFINE paid == ApplyRepayment(l, c)
           afterFees == Excess(c, l.fees)
           afterInterest == Excess(afterFees, l.interest)
<1>1. Balance(paid) = Excess(Balance(l), c)
  BY CentsStay, WaterfallConserves
<1>2. CentsLoan(paid)
  <2>1. IsCents(afterFees)
    BY CentsAdd DEF CentsLoan
  <2> HIDE DEF afterFees
  <2>2. IsCents(afterInterest)
    BY <2>1, CentsAdd DEF CentsLoan
  <2> HIDE DEF afterInterest
  <2>3. /\ IsCents(Excess(l.principal, afterInterest))
        /\ IsCents(Excess(l.interest, afterFees)) /\ IsCents(Excess(l.fees, c))
    BY <2>1, <2>2, CentsAdd DEF CentsLoan
  <2>. QED BY <2>3 DEF ApplyRepayment, CentsLoan, afterFees, afterInterest
<1> HIDE DEF paid
<1>3. /\ RoundMoney(paid.principal) = paid.principal
      /\ RoundMoney(paid.interest) = paid.interest /\ RoundMoney(paid.fees) = paid.fees
  BY <1>2, CentsStay DEF CentsLoan
<1>4. Balance(RoundLoan(paid)) = Balance(paid)
  BY <1>3 DEF RoundLoan, Balance
<1>. QED BY <1>1, <1>4 DEF paid

LEMMA RepayGain ==
  ASSUME market \in Markets, NEW a, IsAccount(a), CentsLoan(a.loan), NEW action \in Actions,
         NEW b \in Repay(a, action)
  PROVE  NoGain(a, b, CashAmount(action))
<1> DEFINE c == CashAmount(action)
           paid == ApplyRepayment(a.loan, c)
<1>1. b = [a EXCEPT !.loan = RoundLoan(paid)]
  BY DEF Repay
<1>2. /\ LiquidValue(a) = a.cash + LotsValue(a.holdings)
      /\ a.cash \in Nat /\ LotsValue(a.holdings) \in Nat /\ Balance(a.loan) \in Nat
      /\ DOMAIN a = {"holdings", "cash", "loan"} /\ a.loan \in Loan
  BY AccountNumbers, MarketsAssumption DEF IsMarket
<1>3. c \in Nat /\ IsCents(c) /\ Cent \in Nat
  <2>1. StatedCash(action) \in Nat
    BY ActionsAssumption DEF StatedCash
  <2>. QED BY <2>1, CashAmountNat, MoneyIsCents, CentAssumption DEF CashAmount
<1> HIDE DEF c
<1>4. paid \in Loan /\ Balance(paid) = Excess(Balance(a.loan), c)
  BY <1>2, <1>3, ApplyRepaymentType, WaterfallConserves
<1>5. Balance(RoundLoan(paid)) = Balance(paid)
  BY <1>2, <1>3, <1>4, RepaidBalance
<1> HIDE DEF paid
<1>6. b.cash = a.cash /\ b.holdings = a.holdings /\ b.loan = RoundLoan(paid)
  BY ONLY <1>1, <1>2
<1>7. LiquidValue(b) = LiquidValue(a)
  BY <1>6 DEF LiquidValue
<1>8. Balance(a.loan) <= Balance(b.loan) + c /\ Balance(b.loan) \in Nat
  BY <1>2, <1>3, <1>4, <1>5, <1>6 DEF Excess
<1>. QED BY <1>2, <1>3, <1>7, <1>8 DEF NoGain, c

(* The value an action states, or that of the lots it names.                 *)
Stated(action, side) ==
  IF action.amount > 0 THEN action.amount
  ELSE IF Tradable(action.asset, side)
  THEN MarketAmount(action.asset, action.quantity, side) ELSE 0

LEMMA StatedNat ==
  ASSUME IsMarket(market), NEW action \in Actions, NEW side
  PROVE  Stated(action, side) \in Nat
BY ActionsAssumption, MarketAmountNat DEF Stated

LEMMA BroughtInIs ==
  ASSUME NEW action
  PROVE  BroughtIn(action) =
           IF action.kind = "repay" THEN CashAmount(action)
           ELSE IF Inward(action) THEN Stated(action, "sell")
           ELSE IF action.kind = "buy" /\ action.funding = "external_cash"
           THEN Stated(action, "buy") ELSE 0
BY DEF BroughtIn, Stated, Inward

LEMMA BroughtInNat ==
  ASSUME IsMarket(market), NEW action \in Actions
  PROVE  BroughtIn(action) \in Nat
BY BroughtInIs, StatedNat, CashAmountNat

(* Securities moved: only an inward transfer brings any.                     *)
LEMMA MoveGain ==
  ASSUME market \in Markets, NEW a, IsAccount(a), NEW action \in Actions,
         action.quantity = 0 \/ action.amount = 0, NEW b \in Move(a, action)
  PROVE  NoGain(a, b, IF Inward(action) THEN Stated(action, "sell") ELSE 0)
<1>0. IsMarket(market)
  BY MarketsAssumption DEF IsMarket
<1> DEFINE delta(q) == IF Inward(action) THEN q ELSE -q
           brought == IF Inward(action) THEN Stated(action, "sell") ELSE 0
<1>1. PICK q \in AssetQuantity(action, "sell") :
        b \in {[a EXCEPT !.holdings = h] :
                 h \in HoldingDelta(a.holdings, action.asset, action.type, delta(q))}
  BY DEF Move
<1>2. PICK h \in HoldingDelta(a.holdings, action.asset, action.type, delta(q)) :
        b = [a EXCEPT !.holdings = h]
  BY <1>1
<1>3. q \in Nat
  BY <1>0, QuantitiesNat
<1> DEFINE worth == q * Bid(action.asset)
<1>4. worth \in Nat /\ Bid(action.asset) \in Nat
  BY <1>0, <1>3, BidNat
<1>5. /\ LiquidValue(a) = a.cash + LotsValue(a.holdings)
      /\ a.cash \in Nat /\ LotsValue(a.holdings) \in Nat /\ Balance(a.loan) \in Nat
      /\ DOMAIN a = {"holdings", "cash", "loan"} /\ AreLots(a.holdings)
  BY <1>0, AccountNumbers
<1>6. LotsValue(h) = LotsValue(a.holdings) + delta(q) * Bid(action.asset)
  <2>1. delta(q) \in Int /\ action.type \in DOMAIN Terms \cup {"any"}
    BY <1>3, ActionsAssumption
  <2>2. PICK d \in Int : d = delta(q)
    BY <2>1
  <2>3. h \in HoldingDelta(a.holdings, action.asset, action.type, d)
    BY <2>2
  <2>4. LotsValue(h) = LotsValue(a.holdings) + d * Bid(action.asset)
    BY ONLY <1>0, <1>5, <2>1, <2>3, DeltaValue
  <2>. QED BY <2>2, <2>4
<1>7. Inward(action) => 2 * worth <= 2 * Stated(action, "sell") + Cent
  <2> SUFFICES ASSUME Inward(action)
               PROVE  2 * worth <= 2 * Stated(action, "sell") + Cent
    OBVIOUS
  <2>1. Cent \in Nat /\ action.amount \in Nat /\ action.quantity \in Nat
    BY CentAssumption, ActionsAssumption
  <2>2. CASE action.amount > 0
    <3>1. q \in QuantityFor(action.asset, action.amount, "sell") /\ Stated(action, "sell") = action.amount
      BY <2>1, <2>2 DEF AssetQuantity, Stated
    <3>2. /\ Tradable(action.asset, "sell")
          /\ q * ExecutionPrice(action.asset, "sell") <= action.amount
      BY <1>0, <2>1, <3>1, QuantityWithin
    <3>3. worth <= action.amount
      BY <3>2 DEF Bid, Tradable
    <3> HIDE DEF worth
    <3>. QED BY <1>4, <2>1, <3>1, <3>3
  <2>3. CASE action.amount = 0 /\ Tradable(action.asset, "sell")
    <3>1. q = action.quantity
      BY <2>1, <2>3 DEF AssetQuantity, QuantityFor
    <3>2. Stated(action, "sell") = RoundMoney(worth)
      BY <2>3, <3>1 DEF Stated, MarketAmount, Bid, Tradable
    <3> HIDE DEF worth
    <3>. QED BY <1>4, <3>2, HalfACent
  <2>4. CASE action.amount = 0 /\ ~Tradable(action.asset, "sell")
    <3>1. Bid(action.asset) = 0
      BY <1>4, <2>4 DEF Bid, Tradable
    <3>2. worth = 0 /\ Stated(action, "sell") = 0
      BY <1>3, <2>1, <2>4, <3>1 DEF Stated
    <3> HIDE DEF worth
    <3>. QED BY <2>1, <3>2
  <2>. QED BY <2>1, <2>2, <2>3, <2>4
<1>8. b.cash = a.cash /\ b.holdings = h /\ b.loan = a.loan
  BY ONLY <1>2, <1>5
<1>9. LiquidValue(b) = a.cash + LotsValue(h)
  BY <1>8 DEF LiquidValue
<1>10. Cent \in Nat
  BY CentAssumption
<1>11. CASE Inward(action)
  <2>1. LotsValue(h) = LotsValue(a.holdings) + worth /\ brought = Stated(action, "sell")
    BY <1>6, <1>11
  <2>2. Stated(action, "sell") \in Nat
    BY <1>0, StatedNat
  <2> HIDE DEF worth, brought
  <2>3. NoGain(a, b, brought)
    BY ONLY <1>4, <1>5, <1>7, <1>8, <1>9, <1>10, <1>11, <2>1, <2>2 DEF NoGain
  <2>. QED BY <2>3 DEF brought
<1>12. CASE ~Inward(action)
  <2>1. LotsValue(h) = LotsValue(a.holdings) + (-q) * Bid(action.asset) /\ brought = 0
    BY <1>6, <1>12
  <2>2. (-q) * Bid(action.asset) = -worth
    BY <1>3, <1>4
  <2> HIDE DEF worth, brought
  <2>3. NoGain(a, b, brought)
    BY ONLY <1>4, <1>5, <1>8, <1>9, <1>10, <2>1, <2>2 DEF NoGain
  <2>. QED BY <2>3 DEF brought
<1>. QED BY <1>11, <1>12

(* A purchase costs what it brings, at the ask, to half a cent.              *)
LEMMA CostWithin ==
  ASSUME IsMarket(market), NEW action \in Actions,
         action.quantity = 0 \/ action.amount = 0,
         NEW q \in AssetQuantity(action, "buy"), NEW cost \in PurchaseCost(action, q)
  PROVE  /\ Tradable(action.asset, "buy") /\ q \in Nat /\ cost \in Nat /\ IsCents(cost)
         /\ q * ExecutionPrice(action.asset, "buy") \in Nat
         /\ 2 * (q * ExecutionPrice(action.asset, "buy")) <= 2 * cost + Cent
         /\ 2 * (q * ExecutionPrice(action.asset, "buy")) <= 2 * Stated(action, "buy") + Cent
<1> DEFINE worth == q * ExecutionPrice(action.asset, "buy")
<1>1. Cent \in Nat /\ action.amount \in Nat /\ action.quantity \in Nat
  BY CentAssumption, ActionsAssumption
<1>2. CASE action.amount > 0
  <2>1. /\ q \in QuantityFor(action.asset, action.amount, "buy")
        /\ Stated(action, "buy") = action.amount /\ cost = RoundMoney(action.amount)
    BY <1>1, <1>2 DEF AssetQuantity, Stated, PurchaseCost
  <2>2. Tradable(action.asset, "buy") /\ q \in Nat /\ worth \in Nat /\ worth <= action.amount
    BY <1>1, <2>1, QuantityWithin
  <2>3. 2 * action.amount <= 2 * cost + Cent /\ cost \in Nat /\ IsCents(cost)
    BY <1>1, <2>1, HalfACent, RoundMoneyNat, MoneyIsCents
  <2> HIDE DEF worth
  <2>4. 2 * worth <= 2 * cost + Cent /\ 2 * worth <= 2 * Stated(action, "buy") + Cent
    BY ONLY <1>1, <2>1, <2>2, <2>3
  <2>. QED BY <2>2, <2>3, <2>4 DEF worth
<1>3. CASE action.amount = 0
  <2>1. Tradable(action.asset, "buy") /\ cost = MarketAmount(action.asset, q, "buy")
    BY <1>1, <1>3 DEF PurchaseCost
  <2>2. q = action.quantity
    BY <1>1, <1>3 DEF AssetQuantity, QuantityFor
  <2>3. ExecutionPrice(action.asset, "buy") \in Nat
    BY <2>1, ExecutionPriceNat DEF Tradable
  <2>4. worth \in Nat /\ cost = RoundMoney(worth) /\ Stated(action, "buy") = RoundMoney(worth)
    BY <1>1, <1>3, <2>1, <2>2, <2>3 DEF MarketAmount, Stated
  <2> HIDE DEF worth
  <2>5. 2 * worth <= 2 * cost + Cent /\ cost \in Nat /\ IsCents(cost)
    BY <2>4, HalfACent, RoundMoneyNat, MoneyIsCents
  <2>. QED BY <1>1, <2>1, <2>2, <2>4, <2>5 DEF worth
<1>. QED BY <1>1, <1>2, <1>3

(* What a purchase is paid with.                                             *)
LEMMA FundedGain ==
  ASSUME IsMarket(market), NEW a, IsAccount(a), CentsLoan(a.loan), NEW cost \in Nat,
         NEW funding, NEW b \in Funded(a, cost, funding)
  PROVE  /\ b.holdings = a.holdings /\ Balance(b.loan) \in Nat /\ b.cash \in Nat
         /\ \/ 2 * (b.cash + cost + Balance(a.loan)) <= 2 * (a.cash + Balance(b.loan)) + Cent
            \/ funding = "external_cash" /\ b.cash <= a.cash /\ Balance(b.loan) = Balance(a.loan)
<1>1. /\ DOMAIN a = {"holdings", "cash", "loan"}
      /\ a.cash \in Nat /\ a.loan \in Loan /\ Balance(a.loan) \in Nat
  BY AccountNumbers
<1>2. Projects(a, b)
  BY FundedProjects
<1>3. b.cash \in Nat /\ Balance(b.loan) \in Nat
  BY <1>2, BalanceNat DEF Projects, IsDraft
<1>4. Cent \in Nat
  BY CentAssumption
<1>5. CASE cost <= a.cash
  <2>1. b = [a EXCEPT !.cash = RoundMoney(a.cash - cost)]
    BY <1>5 DEF Funded
  <2>2. b.holdings = a.holdings /\ b.loan = a.loan /\ b.cash = RoundMoney(a.cash - cost)
    BY ONLY <1>1, <2>1
  <2>3. a.cash - cost \in Nat
    BY <1>1, <1>5
  <2>4. 2 * b.cash <= 2 * (a.cash - cost) + Cent
    BY <2>2, <2>3, HalfACent
  <2>. QED BY <1>1, <1>3, <1>4, <2>2, <2>4
<1>6. CASE ~(cost <= a.cash) /\ funding = "external_cash"
  <2>1. b = [a EXCEPT !.cash = 0]
    BY <1>6 DEF Funded
  <2>2. b.holdings = a.holdings /\ b.loan = a.loan /\ b.cash = 0
    BY ONLY <1>1, <2>1
  <2>. QED BY <1>1, <1>3, <1>6, <2>2
<1>7. CASE ~(cost <= a.cash) /\ funding # "external_cash"
  <2> DEFINE shortfall == RoundMoney(cost - a.cash)
             p == RoundMoney(a.loan.principal + shortfall)
  <2>1. b = [a EXCEPT !.cash = 0, !.loan.principal = p]
    BY <1>7 DEF Funded
  <2>2. cost - a.cash \in Nat
    BY <1>1, <1>7
  <2>3. shortfall \in Nat /\ IsCents(shortfall) /\ 2 * (cost - a.cash) <= 2 * shortfall + Cent
    BY <2>2, RoundMoneyNat, MoneyIsCents, HalfACent
  <2> HIDE DEF shortfall
  <2>4. p = a.loan.principal + shortfall
    BY <2>3, CentsAdd, CentsStay DEF CentsLoan
  <2> HIDE DEF p
  <2>5. /\ b.holdings = a.holdings /\ b.cash = 0
        /\ b.loan = [a.loan EXCEPT !.principal = p]
    BY ONLY <1>1, <2>1
  <2>6. Balance(b.loan) = Balance(a.loan) + shortfall
    BY <1>1, <2>3, <2>4, <2>5 DEF Loan, Balance
  <2>7. 2 * (0 + cost + Balance(a.loan)) <= 2 * (a.cash + Balance(b.loan)) + Cent
    BY ONLY <1>1, <1>4, <2>3, <2>6, cost \in Nat
  <2>. QED BY <1>3, <2>5, <2>7
<1>. QED BY <1>5, <1>6, <1>7

(* A purchase, and a sale that pays for another purchase.                    *)
LEMMA BuyGain ==
  ASSUME market \in Markets, NeverCrossed, NEW a, IsAccount(a), CentsLoan(a.loan),
         NEW action \in Actions, action.quantity = 0 \/ action.amount = 0,
         NEW b \in Buy(a, action)
  PROVE  NoGain(a, b, IF action.funding = "external_cash" THEN Stated(action, "buy") ELSE 0)
<1>0. IsMarket(market)
  BY MarketsAssumption DEF IsMarket
<1>1. PICK q \in AssetQuantity(action, "buy") :
        \E cost \in PurchaseCost(action, q) : \E paid \in Funded(a, cost, action.funding) :
          \E h \in HoldingDelta(paid.holdings, action.asset, action.type, q) :
            b = [paid EXCEPT !.holdings = h]
  BY DEF Buy
<1>2. PICK cost \in PurchaseCost(action, q) : \E paid \in Funded(a, cost, action.funding) :
          \E h \in HoldingDelta(paid.holdings, action.asset, action.type, q) :
            b = [paid EXCEPT !.holdings = h]
  BY <1>1
<1>3. PICK paid \in Funded(a, cost, action.funding) :
          \E h \in HoldingDelta(paid.holdings, action.asset, action.type, q) :
            b = [paid EXCEPT !.holdings = h]
  BY <1>2
<1>4. PICK h \in HoldingDelta(paid.holdings, action.asset, action.type, q) :
            b = [paid EXCEPT !.holdings = h]
  BY <1>3
<1> DEFINE worth == q * Bid(action.asset)
           asked == q * ExecutionPrice(action.asset, "buy")
           stated == Stated(action, "buy")
           brought == IF action.funding = "external_cash" THEN stated ELSE 0
<1>5. /\ Tradable(action.asset, "buy") /\ q \in Nat /\ cost \in Nat
      /\ asked \in Nat /\ 2 * asked <= 2 * cost + Cent /\ 2 * asked <= 2 * stated + Cent
  BY <1>0, CostWithin
<1>6. worth \in Nat /\ worth <= asked
  BY <1>5, PricesInOrder
<1>7. stated \in Nat /\ Cent \in Nat
  BY <1>0, StatedNat, CentAssumption
<1>8. /\ paid.holdings = a.holdings /\ Balance(paid.loan) \in Nat /\ paid.cash \in Nat
      /\ \/ 2 * (paid.cash + cost + Balance(a.loan)) <= 2 * (a.cash + Balance(paid.loan)) + Cent
         \/ /\ action.funding = "external_cash" /\ paid.cash <= a.cash
            /\ Balance(paid.loan) = Balance(a.loan)
  BY <1>0, <1>5, FundedGain
<1>9. /\ LiquidValue(a) = a.cash + LotsValue(a.holdings)
      /\ a.cash \in Nat /\ LotsValue(a.holdings) \in Nat /\ Balance(a.loan) \in Nat
      /\ AreLots(a.holdings)
  BY <1>0, AccountNumbers
<1>10. LotsValue(h) = LotsValue(a.holdings) + worth
  <2>1. q \in Int /\ action.type \in DOMAIN Terms \cup {"any"}
    BY <1>5, ActionsAssumption
  <2>2. h \in HoldingDelta(a.holdings, action.asset, action.type, q)
    BY <1>8
  <2>. QED BY ONLY <1>0, <1>9, <2>1, <2>2, DeltaValue
<1>11. b.cash = paid.cash /\ b.holdings = h /\ b.loan = paid.loan
  <2>1. DOMAIN paid = {"holdings", "cash", "loan"}
    BY <1>0, <1>5, FundedProjects DEF Projects, IsDraft
  <2>. QED BY ONLY <1>4, <2>1
<1>12. LiquidValue(b) = paid.cash + LotsValue(h)
  BY <1>11 DEF LiquidValue
<1>13. brought \in Nat /\ (action.funding = "external_cash" => brought = stated)
  BY <1>7
<1> HIDE DEF worth, asked, stated, brought
<1>14. CASE 2 * (paid.cash + cost + Balance(a.loan)) <= 2 * (a.cash + Balance(paid.loan)) + Cent
  <2>1. 2 * (paid.cash + LotsValue(h) + Balance(a.loan))
          <= 2 * (a.cash + LotsValue(a.holdings) + Balance(paid.loan)) + 2 * Cent
    BY ONLY <1>5, <1>6, <1>7, <1>8, <1>9, <1>10, <1>14
  <2>2. NoGain(a, b, brought)
    BY ONLY <2>1, <1>6, <1>7, <1>8, <1>9, <1>10, <1>11, <1>12, <1>13 DEF NoGain
  <2>. QED BY <2>2 DEF brought, stated
<1>15. CASE /\ action.funding = "external_cash" /\ paid.cash <= a.cash
            /\ Balance(paid.loan) = Balance(a.loan)
  <2>1. paid.cash + LotsValue(h) + Balance(a.loan)
          <= a.cash + LotsValue(a.holdings) + Balance(paid.loan) + Cent + stated
    BY ONLY <1>5, <1>6, <1>7, <1>8, <1>9, <1>10, <1>15
  <2>2. NoGain(a, b, brought)
    BY ONLY <2>1, <1>6, <1>7, <1>8, <1>9, <1>10, <1>11, <1>12, <1>13, <1>15 DEF NoGain
  <2>. QED BY <2>2 DEF brought, stated
<1>. QED BY <1>8, <1>14, <1>15

LEMMA RebalanceGain ==
  ASSUME market \in Markets, NeverCrossed, NEW a, IsAccount(a),
         NEW action \in Actions, action.toQuantity = 0,
         NEW b \in Rebalance(a, action)
  PROVE  NoGain(a, b, 0)
<1>0. IsMarket(market)
  BY MarketsAssumption DEF IsMarket
<1> DEFINE proceeds(q) == MarketAmount(action.asset, q, "sell")
           cost(q) == IF action.toAmount > 0 THEN action.toAmount ELSE proceeds(q)
           bought(q) == IF action.toQuantity > 0 THEN {action.toQuantity}
                        ELSE QuantityFor(action.to, cost(q), "buy")
           after(q, h) ==
             [a EXCEPT !.holdings = h, !.cash = RoundMoney(a.cash + proceeds(q) - cost(q))]
           quantities == IF Tradable(action.asset, "sell") THEN AssetQuantity(action, "sell")
                         ELSE {}
           ways(q) == UNION {UNION {{after(q, h) : h \in HoldingDelta(sold, action.to, action.toType, n)} :
                                    n \in bought(q)} :
                             sold \in HoldingDelta(a.holdings, action.asset, action.type, -q)}
<1>1. PICK q \in quantities : ~(cost(q) > proceeds(q) + a.cash) /\ b \in ways(q)
  <2>1. Rebalance(a, action) =
          UNION {IF cost(q) > proceeds(q) + a.cash THEN {} ELSE ways(q) : q \in quantities}
    BY DEF Rebalance
  <2> HIDE DEF cost, proceeds, ways, quantities
  <2>. QED BY <2>1
<1>2. PICK sold \in HoldingDelta(a.holdings, action.asset, action.type, -q), n \in bought(q) :
        b \in {after(q, h) : h \in HoldingDelta(sold, action.to, action.toType, n)}
  <2> HIDE DEF after, bought
  <2>. QED BY <1>1
<1>3. PICK h \in HoldingDelta(sold, action.to, action.toType, n) : b = after(q, h)
  <2> HIDE DEF after
  <2>. QED BY <1>2
<1>4. /\ LiquidValue(a) = a.cash + LotsValue(a.holdings)
      /\ a.cash \in Nat /\ LotsValue(a.holdings) \in Nat /\ Balance(a.loan) \in Nat
      /\ AreLots(a.holdings) /\ DOMAIN a = {"holdings", "cash", "loan"}
  BY <1>0, AccountNumbers
<1>5. /\ q \in Nat /\ action.toAmount \in Nat /\ Tradable(action.asset, "sell")
      /\ action.type \in DOMAIN Terms \cup {"any"}
      /\ action.toType \in DOMAIN Terms \cup {"any"} /\ Cent \in Nat
  <2>1. q \in AssetQuantity(action, "sell") /\ Tradable(action.asset, "sell")
    OBVIOUS
  <2>. QED BY <1>0, <2>1, QuantitiesNat, ActionsAssumption, CentAssumption
<1>6. q * Bid(action.asset) \in Nat /\ proceeds(q) = RoundMoney(q * Bid(action.asset))
  <2>1. Bid(action.asset) = ExecutionPrice(action.asset, "sell") /\ Bid(action.asset) \in Nat
    BY <1>0, <1>5, BidNat DEF Bid, Tradable
  <2>2. q * Bid(action.asset) \in Nat
    BY <1>5, <2>1
  <2>. QED BY <2>1, <2>2 DEF MarketAmount
<1>7. LotsValue(sold) = LotsValue(a.holdings) - q * Bid(action.asset) /\ AreLots(sold)
  <2>1. -q \in Int
    BY <1>5
  <2>2. LotsValue(sold) = LotsValue(a.holdings) + (-q) * Bid(action.asset)
    BY ONLY <1>0, <1>4, <1>5, <2>1, DeltaValue,
            sold \in HoldingDelta(a.holdings, action.asset, action.type, -q)
  <2>3. (-q) * Bid(action.asset) = -(q * Bid(action.asset)) /\ Bid(action.asset) \in Nat
    BY <1>0, <1>5, BidNat
  <2>4. AreLots(sold)
    BY ONLY <1>4, <1>5, <2>1, HoldingDeltaType,
            sold \in HoldingDelta(a.holdings, action.asset, action.type, -q)
  <2>5. LotsValue(sold) = LotsValue(a.holdings) - q * Bid(action.asset)
    BY ONLY <1>4, <1>6, <2>2, <2>3
  <2>. QED BY <2>4, <2>5
<1>8. n \in QuantityFor(action.to, cost(q), "buy")
  OBVIOUS
<1>9. b = [a EXCEPT !.holdings = h, !.cash = RoundMoney(a.cash + proceeds(q) - cost(q))]
  BY <1>3
<1>10. ~(cost(q) > proceeds(q) + a.cash)
  BY <1>1
<1> DEFINE s == q * Bid(action.asset)
           p == proceeds(q)
           k == cost(q)
           c == RoundMoney(a.cash + p - k)
           w == n * Bid(action.to)
<1>11. p \in Nat /\ 2 * p <= 2 * s + Cent /\ s \in Nat
  BY <1>6, HalfACent, RoundMoneyNat
<1>12. k \in Nat /\ k <= p + a.cash
  <2>1. k \in Nat
    BY <1>5, <1>11
  <2> HIDE DEF k, p
  <2>. QED BY <1>4, <1>10, <1>11, <2>1 DEF k, p
<1>13. w \in Nat /\ w <= k /\ n \in Nat
  <2>1. k \in Nat /\ n \in QuantityFor(action.to, k, "buy")
    BY <1>8, <1>12
  <2> HIDE DEF k
  <2>2. /\ Tradable(action.to, "buy") /\ n \in Nat
        /\ n * ExecutionPrice(action.to, "buy") <= k
        /\ n * ExecutionPrice(action.to, "buy") \in Nat
    BY ONLY <1>0, <2>1, QuantityWithin
  <2>3. w \in Nat /\ w <= n * ExecutionPrice(action.to, "buy")
    BY <2>2, PricesInOrder
  <2> HIDE DEF w
  <2>. QED BY ONLY <2>1, <2>2, <2>3
<1>14. LotsValue(h) = LotsValue(sold) + w
  <2>1. n \in Int
    BY <1>13
  <2>. QED BY ONLY <1>0, <1>5, <1>7, <2>1, DeltaValue,
                h \in HoldingDelta(sold, action.to, action.toType, n) DEF w
<1>15. b = [a EXCEPT !.holdings = h, !.cash = c] /\ LotsValue(sold) = LotsValue(a.holdings) - s
  BY <1>7, <1>9
<1> HIDE DEF s, p, k, w, proceeds, cost
<1>16. c \in Nat /\ 2 * c <= 2 * (a.cash + p - k) + Cent
  <2>1. a.cash + p - k \in Nat
    BY ONLY <1>4, <1>11, <1>12
  <2>. QED BY <2>1, HalfACent, RoundMoneyNat
<1> HIDE DEF c
<1>17. b.cash = c /\ b.holdings = h /\ b.loan = a.loan
  BY ONLY <1>4, <1>15
<1>18. LiquidValue(b) = c + LotsValue(h)
  BY <1>17 DEF LiquidValue
<1>19. c + LotsValue(h) <= a.cash + LotsValue(a.holdings) + Cent
  BY ONLY <1>4, <1>5, <1>11, <1>12, <1>13, <1>14, <1>15, <1>16
<1>. QED BY ONLY <1>4, <1>5, <1>11, <1>13, <1>14, <1>15, <1>16, <1>17, <1>18, <1>19 DEF NoGain

(* Whatever the action is.                                                   *)
LEMMA ProjectedGain ==
  ASSUME market \in Markets, NeverCrossed, NEW a, IsAccount(a), CentsLoan(a.loan),
         NEW action \in Actions, OneSided(action), NEW b \in Projected(a, action)
  PROVE  NoGain(a, b, BroughtIn(action))
<1>0. IsMarket(market)
  BY MarketsAssumption DEF IsMarket
<1> DEFINE left(c) == [c EXCEPT !.holdings =
                         [i \in {i \in DOMAIN @ : @[i] > 0} |-> @[i]]]
<1>1. PICK c : /\ \/ c \in Sell(a, action) /\ action.kind = "sell"
                  \/ c \in Buy(a, action) /\ action.kind = "buy"
                  \/ c \in WithdrawCash(a, action)
                  \/ /\ c \in Move(a, action)
                     /\ action.kind \in {"withdraw_security", "transfer_security"}
                  \/ c \in Repay(a, action) /\ action.kind = "repay"
                  \/ c \in Rebalance(a, action) /\ action.kind = "rebalance"
               /\ b = left(c)
  BY DEF Projected
<1>2. Projects(a, c)
  BY <1>0, <1>1, SellProjects, BuyProjects, WithdrawProjects, MoveProjects, RepayProjects,
     RebalanceProjects
<1> DEFINE h == [i \in {i \in DOMAIN c.holdings : c.holdings[i] > 0} |-> c.holdings[i]]
<1>3. b = [c EXCEPT !.holdings = h]
  BY <1>1
<1>4. LotsValue(h) = LotsValue(c.holdings)
  BY <1>0, <1>2, LeftValue DEF Projects, IsDraft
<1> HIDE DEF h
<1>5. b.holdings = h /\ b.cash = c.cash /\ b.loan = c.loan
  BY ONLY <1>2, <1>3 DEF Projects, IsDraft
<1>6. LiquidValue(b) = LiquidValue(c) /\ Balance(b.loan) = Balance(c.loan)
  BY <1>4, <1>5 DEF LiquidValue
<1>7. BroughtIn(action) \in Nat /\ Cent \in Nat
  BY <1>0, BroughtInNat, CentAssumption
<1>8. /\ LiquidValue(a) \in Nat /\ LiquidValue(c) \in Nat
      /\ Balance(a.loan) \in Nat /\ Balance(c.loan) \in Nat
  BY <1>0, <1>2, AccountNumbers, DraftNumbers DEF Projects
<1>9. NoGain(a, c, 0) \/ NoGain(a, c, BroughtIn(action))
  <2>1. CASE c \in Sell(a, action) \/ c \in WithdrawCash(a, action)
             \/ c \in Rebalance(a, action)
    <3>1. action.toQuantity = 0
      BY DEF OneSided
    <3>. QED BY <2>1, <3>1, SellGain, WithdrawGain, RebalanceGain
  <2>2. CASE c \in Repay(a, action) /\ action.kind = "repay"
    BY <2>2, RepayGain, BroughtInIs
  <2>3. CASE c \in Buy(a, action) /\ action.kind = "buy"
    <3>1. BroughtIn(action)
            = IF action.funding = "external_cash" THEN Stated(action, "buy") ELSE 0
      BY <2>3, BroughtInIs DEF Inward
    <3>2. action.quantity = 0 \/ action.amount = 0
      BY DEF OneSided
    <3>. QED BY <2>3, <3>1, <3>2, BuyGain
  <2>4. CASE /\ c \in Move(a, action)
             /\ action.kind \in {"withdraw_security", "transfer_security"}
    <3>1. BroughtIn(action) = IF Inward(action) THEN Stated(action, "sell") ELSE 0
      BY <2>4, BroughtInIs
    <3>2. action.quantity = 0 \/ action.amount = 0
      BY DEF OneSided
    <3>. QED BY <2>4, <3>1, <3>2, MoveGain
  <2>. QED BY <1>1, <2>1, <2>2, <2>3, <2>4
<1>. QED BY ONLY <1>6, <1>7, <1>8, <1>9 DEF NoGain

LEMMA NothingHappens ==
  ASSUME IsMarket(market), NEW a, IsAccount(a), NEW brought \in Nat
  PROVE  NoGain(a, a, brought)
<1>1. LiquidValue(a) \in Nat /\ Balance(a.loan) \in Nat /\ Cent \in Nat
  BY AccountNumbers, CentAssumption
<1>. QED BY ONLY <1>1, brought \in Nat DEF NoGain

LEMMA DrawGain ==
  ASSUME IsMarket(market), NEW a, IsAccount(a), CentsLoan(a.loan), NEW draw,
         IsCents(draw), NEW brought \in Nat
  PROVE  NoGain(a, [a EXCEPT !.loan = ProjectedLoan(a.loan, draw, 0)], brought)
<1> DEFINE l == ProjectedLoan(a.loan, draw, 0)
           b == [a EXCEPT !.loan = l]
<1>1. /\ LiquidValue(a) \in Nat /\ Balance(a.loan) \in Nat /\ Cent \in Nat
      /\ DOMAIN a = {"holdings", "cash", "loan"} /\ a.loan \in Loan
      /\ LiquidValue(a) = a.cash + LotsValue(a.holdings)
  BY AccountNumbers, CentAssumption
<1>2. Balance(l) = Balance(a.loan) + draw /\ draw \in Nat
  <2>1. Balance(l) = Balance(AfterRepayment(a.loan, 0)) + draw
    BY <1>1, DrawAddsItself
  <2>. QED BY <1>1, <2>1, NothingRepaid, CentsStay
<1> HIDE DEF l
<1>3. b.cash = a.cash /\ b.holdings = a.holdings /\ b.loan = l
  BY ONLY <1>1
<1>4. LiquidValue(b) = LiquidValue(a) /\ Balance(b.loan) = Balance(l)
  BY <1>1, <1>3 DEF LiquidValue
<1> HIDE DEF b
<1>5. NoGain(a, b, brought)
  BY ONLY <1>1, <1>2, <1>4, brought \in Nat DEF NoGain
<1>. QED BY <1>5 DEF b, l

(* ActionsCreateNoValue as a relation of two states.                         *)
CreatesNoValue ==
  market' = market /\ OneSided(answer'.action)
    => LiquidValue(account') + Balance(account.loan)
         <= LiquidValue(account) + Balance(account'.loan) + Cent + BroughtIn(answer'.action)

(* ActionsCreateNoValue: no booked action makes the account richer than      *)
(* it was by more than a cent and what is brought in from outside, when no   *)
(* asset sells above what it is bought at.  The loan's whole cents matter:   *)
(* a repayment is rounded, and so is the loan it is taken from.              *)
THEOREM NoValueIsCreated ==
  ASSUME WholeCents, NeverCrossed
  PROVE  Spec => ActionsCreateNoValue
<1>1. TypeOK /\ BookedInv /\ [Next]_vars => [CreatesNoValue]_vars
  <2> SUFFICES ASSUME BookedInv, Next, market' = market, OneSided(answer'.action)
               PROVE  NoGain(account, account', BroughtIn(answer'.action))
    BY DEF CreatesNoValue, NoGain
  <2>1. /\ market \in Markets /\ IsMarket(market) /\ IsAccount(account)
        /\ CentsLoan(account.loan)
    BY MarketsAssumption DEF BookedInv, TypeOK, IsMarket
  <2>2. PICK action \in Actions : CheckDrawAction(action) \/ CheckPortfolioAction(action)
    BY DEF Next, Revalue
  <2>3. answer'.action = action
    BY <2>2 DEF CheckDrawAction, CheckPortfolioAction, Refused
  <2>4. BroughtIn(action) \in Nat
    BY <2>1, BroughtInNat
  <2>5. CASE account' = account
    BY <2>1, <2>3, <2>4, <2>5, NothingHappens
  <2>6. CASE account' # account /\ CheckDrawAction(action)
    <3>1. account' = [account EXCEPT !.loan = ProjectedLoan(account.loan, CashAmount(action), 0)]
      BY <2>6 DEF CheckDrawAction
    <3>2. IsCents(CashAmount(action))
      <4>1. StatedCash(action) \in Nat
        BY ActionsAssumption DEF StatedCash
      <4>. QED BY <4>1, MoneyIsCents DEF CashAmount
    <3>. QED BY <2>1, <2>3, <2>4, <3>1, <3>2, DrawGain
  <2>7. CASE account' # account /\ CheckPortfolioAction(action)
    <3>1. account' \in Projected(account, action)
      BY <2>7 DEF CheckPortfolioAction
    <3>. QED BY <2>1, <2>3, <3>1, ProjectedGain
  <2>. QED BY <2>2, <2>5, <2>6, <2>7
<1>2. [][CreatesNoValue]_vars <=> ActionsCreateNoValue
  BY DEF ActionsCreateNoValue, CreatesNoValue
<1>. QED BY <1>1, <1>2, BookedAccounts, PTL DEF Spec

(***************************************************************************)
(* Sorting: a finite set can be listed by falling priority.                *)
(***************************************************************************)
(* A finite set has an element of lowest priority; put last, it gives a      *)
(* listing of the whole set.                                                 *)
LEMMA LowestExists ==
  ASSUME NEW S, IsFiniteSet(S), NEW p, \A x \in S : p[x] \in Int
  PROVE  \A T \in SUBSET S : T # {} => \E x \in T : \A y \in T : p[x] <= p[y]
<1> DEFINE G == {T \in SUBSET S : T = {} \/ \E x \in T : \A y \in T : p[x] <= p[y]}
<1>1. {} \in G
  OBVIOUS
<1>2. ASSUME NEW T \in SUBSET S, T # {}, \A x \in T : T \ {x} \in G
      PROVE  T \in G
  <2>1. PICK z \in T : T \ {z} \in G
    BY <1>2
  <2>2. CASE T \ {z} = {}
    <3>1. \A y \in T : y = z
      BY <2>2
    <3>. QED BY <3>1
  <2>3. CASE T \ {z} # {}
    <3>1. PICK x \in T \ {z} : \A y \in T \ {z} : p[x] <= p[y]
      BY <2>1, <2>3
    <3>2. p[x] \in Int /\ p[z] \in Int /\ \A y \in T : p[y] \in Int
      OBVIOUS
    <3>3. CASE p[x] <= p[z]
      <4>1. \A y \in T : p[x] <= p[y]
        BY <3>1, <3>3
      <4>. QED BY <4>1
    <3>4. CASE p[z] <= p[x]
      <4>1. \A y \in T : p[z] <= p[y]
        <5> TAKE y \in T
        <5>1. CASE y = z
          BY <5>1, <3>2
        <5>2. CASE y # z
          <6>1. p[x] <= p[y]
            BY <3>1, <5>2
          <6>. QED BY ONLY <6>1, <3>2, <3>4, y \in T
        <5>. QED BY <5>1, <5>2
      <4>. QED BY <4>1
    <3>. QED BY ONLY <3>2, <3>3, <3>4
  <2>. QED BY <2>2, <2>3
<1> HIDE DEF G
<1>3. SUBSET S \subseteq G
  BY <1>1, <1>2, SubsetInduction
<1>. QED BY <1>3 DEF G

(* s lists T by falling priority.                                            *)
IsRanking(s, T, p) ==
  /\ s \in [1..Cardinality(T) -> T] /\ IsInjective(s)
  /\ \A j, k \in DOMAIN s : j < k => p[s[j]] >= p[s[k]]

LEMMA RankingExists ==
  ASSUME NEW S, IsFiniteSet(S), NEW p, \A x \in S : p[x] \in Int
  PROVE  \E s : IsRanking(s, S, p)
<1> DEFINE G == {T \in SUBSET S : \E s : IsRanking(s, T, p)}
<1>1. {} \in G
  <2> DEFINE s == [k \in 1..0 |-> {}]
  <2>1. IsRanking(s, {}, p)
    BY FS_EmptySet DEF IsRanking, IsInjective
  <2> HIDE DEF s
  <2>. QED BY <2>1
<1>2. ASSUME NEW T \in SUBSET S, T # {}, \A x \in T : T \ {x} \in G
      PROVE  T \in G
  <2>1. PICK x \in T : \A y \in T : p[x] <= p[y]
    BY <1>2, LowestExists
  <2>2. PICK t : IsRanking(t, T \ {x}, p)
    BY <1>2
  <2> DEFINE n == Cardinality(T)
             s == [k \in 1..n |-> IF k = n THEN x ELSE t[k]]
  <2>3. n \in Nat \ {0} /\ Cardinality(T \ {x}) = n - 1
    <3>1. IsFiniteSet(T)
      BY FS_Subset
    <3>. QED BY <1>2, <3>1, FS_CardinalityType, FS_EmptySet, FS_RemoveElement
  <2> HIDE DEF n
  <2>4. /\ t \in [1..(n - 1) -> T \ {x}] /\ IsInjective(t)
        /\ \A j, k \in 1..(n - 1) : j < k => p[t[j]] >= p[t[k]]
    BY <2>2, <2>3 DEF IsRanking
  <2>5. /\ DOMAIN s = 1..n /\ s[n] = x
        /\ \A k \in 1..(n - 1) : s[k] = t[k] /\ t[k] \in T /\ t[k] # x
    BY <2>3, <2>4
  <2>6. \A k \in 1..n : k = n \/ k \in 1..(n - 1)
    BY <2>3
  <2>7. s \in [1..n -> T]
    BY <2>5, <2>6
  <2> HIDE DEF s
  <2>8. IsInjective(s)
    <3>1. \A j, k \in 1..(n - 1) : t[j] = t[k] => j = k
      BY <2>4 DEF IsInjective
    <3>2. \A j, k \in 1..n : s[j] = s[k] => j = k
      BY <2>5, <2>6, <3>1
    <3>. QED BY <2>5, <3>2 DEF IsInjective
  <2>9. \A j, k \in 1..n : j < k => p[s[j]] >= p[s[k]]
    <3> TAKE j, k \in 1..n
    <3> HAVE j < k
    <3>1. j \in 1..(n - 1)
      BY <2>3
    <3>2. CASE k = n
      <4>1. s[j] \in T /\ s[k] = x
        BY <2>5, <3>1, <3>2
      <4>2. p[x] <= p[s[j]]
        BY <2>1, <4>1
      <4>. QED BY <4>1, <4>2
    <3>3. CASE k # n
      <4>1. k \in 1..(n - 1)
        BY <2>6, <3>3
      <4>2. s[j] = t[j] /\ s[k] = t[k]
        BY <2>5, <3>1, <4>1
      <4>. QED BY <2>4, <3>1, <4>1, <4>2
    <3>. QED BY <3>2, <3>3
  <2>10. IsRanking(s, T, p)
    BY <2>5, <2>7, <2>8, <2>9 DEF IsRanking, n
  <2>. QED BY <2>10
<1> HIDE DEF G
<1>3. SUBSET S \subseteq G
  BY <1>1, <1>2, SubsetInduction
<1>4. S \in G
  BY <1>3
<1>. QED BY <1>4 DEF G

(* A sum over a set is a sum along any listing of it.                        *)
Listed(s, n) == {s[j] : j \in 1..n}

LEMMA ListedSum ==
  ASSUME NEW S, IsFiniteSet(S), NEW f, \A x \in S : f[x] \in Int,
         NEW s \in [1..Cardinality(S) -> S], IsInjective(s)
  PROVE  /\ Listed(s, 0) = {} /\ Listed(s, Cardinality(S)) = S
         /\ \A n \in 1..Cardinality(S) :
              SumFunctionOnSet(f, Listed(s, n))
                = SumFunctionOnSet(f, Listed(s, n - 1)) + f[s[n]]
<1> DEFINE N == Cardinality(S)
<1>1. N \in Nat
  BY FS_CardinalityType
<1>2. Listed(s, 0) = {}
  BY DEF Listed
<1>3. Listed(s, N) = S
  <2>1. s \in Injection(1..N, S)
    BY DEF Injection
  <2>2. Cardinality(1..N) = N
    BY <1>1, FS_Interval
  <2>3. s \in Surjection(1..N, S)
    BY <2>1, <2>2, FS_Injection
  <2>. QED BY <2>3 DEF Surjection, Listed
<1>4. ASSUME NEW n \in 1..N
      PROVE  SumFunctionOnSet(f, Listed(s, n)) = SumFunctionOnSet(f, Listed(s, n - 1)) + f[s[n]]
  <2> DEFINE T == Listed(s, n)
             U == Listed(s, n - 1)
  <2>1. n \in Int /\ n >= 1 /\ n <= N
    BY <1>1
  <2> HIDE DEF N
  <2>2. \A j \in 1..n : j = n \/ j \in 1..(n - 1)
    BY <2>1
  <2>3. 1..(n - 1) \subseteq 1..n /\ n \in 1..n /\ 1..n \subseteq DOMAIN s
    BY <1>1, <2>1 DEF N
  <2>4. s[n] \in T /\ U \subseteq T /\ T \subseteq S
    BY <2>3 DEF Listed
  <2>5. s[n] \notin U
    <3>1. \A j \in 1..(n - 1) : j # n /\ j \in DOMAIN s /\ n \in DOMAIN s
      BY <2>1, <2>3
    <3>2. \A j \in 1..(n - 1) : s[j] # s[n]
      BY <3>1 DEF IsInjective
    <3>. QED BY <3>2 DEF Listed
  <2>6. T \ {s[n]} = U
    <3>1. \A x \in T : x = s[n] \/ x \in U
      BY <2>2 DEF Listed
    <3>. QED BY <2>4, <2>5, <3>1
  <2> HIDE DEF T, U
  <2>7. IsFiniteSet(T) /\ IsFiniteSet(U)
    BY <2>4, FS_Subset
  <2>8. (\A x \in T : f[x] \in Int) /\ (\A x \in U : f[x] \in Int) /\ f[s[n]] \in Int
    BY <2>4
  <2>9. SumFunctionOnSet(f, T) = f[s[n]] + SumFunctionOnSet(f, U)
    BY <2>4, <2>6, <2>7, <2>8, SumStep
  <2>10. SumFunctionOnSet(f, U) \in Int
    BY <2>7, <2>8, SumInt
  <2>. QED BY <2>8, <2>9, <2>10 DEF T, U
<1>. QED BY <1>2, <1>3, <1>4

(***************************************************************************)
(* The liquidation plan.                                                   *)
(***************************************************************************)
(* What the plan is made of, and what its orders raise together.             *)
Order(D) == [instrument: D, cash: Nat]
Plans(D) == [remaining: Nat, orders: Seq(Order(D))]

Raised(orders) == SumFunction([k \in DOMAIN orders |-> orders[k].cash])

(* Results of a valuation: an asset that is not eligible recovers nothing.   *)
AreResults(r) ==
  /\ IsFiniteSet(DOMAIN r)
  /\ \A i \in DOMAIN r : IsResult(r[i]) /\ (~r[i].eligible => r[i].stressed = 0)

(* The plan grows along the ranking, one order at a time.                    *)
LEMMA AddOrderType ==
  ASSUME NEW r, AreResults(r), NEW i \in DOMAIN r, NEW p \in Plans(DOMAIN r)
  PROVE  AddOrder(p, i, r) \in Plans(DOMAIN r)
<1> DEFINE D == DOMAIN r
           cash == Least(r[i].stressed, p.remaining)
           e == [instrument |-> i, cash |-> cash]
<1>1. p.remaining \in Nat /\ p.orders \in Seq(Order(D)) /\ r[i].stressed \in Nat
  BY DEF Plans, AreResults, IsResult
<1>2. cash \in Nat /\ p.remaining - cash \in Nat
  BY <1>1 DEF Least
<1> HIDE DEF cash
<1>3. e \in Order(D)
  BY <1>2 DEF Order
<1> HIDE DEF e
<1>4. Append(p.orders, e) \in Seq(Order(D))
  BY <1>1, <1>3, AppendProperties
<1>5. [remaining |-> p.remaining - cash, orders |-> Append(p.orders, e)] \in Plans(D)
  BY <1>2, <1>4 DEF Plans
<1>. QED BY <1>5 DEF AddOrder, cash, e

LEMMA RankedIs ==
  ASSUME NEW r, AreResults(r)
  PROVE  /\ IsFiniteSet(Sellable(r)) /\ Sellable(r) \subseteq DOMAIN r
         /\ Ranked(r) \in [1..Cardinality(Sellable(r)) -> Sellable(r)]
         /\ IsInjective(Ranked(r))
<1> DEFINE S == Sellable(r)
           p == [i \in S |-> Priority(r[i])]
           Falling(s) == /\ IsInjective(s)
                          /\ \A j, k \in DOMAIN s :
                               j < k => Priority(r[s[j]]) >= Priority(r[s[k]])
<1>1. S \subseteq DOMAIN r /\ IsFiniteSet(S)
  <2>1. S \in SUBSET DOMAIN r
    BY DEF Sellable
  <2>. QED BY <2>1, FS_Subset DEF AreResults
<1>2. \A i \in S : p[i] \in Int
  BY <1>1 DEF AreResults, IsResult, Priority
<1>3. \A i \in S : p[i] = Priority(r[i])
  OBVIOUS
<1> HIDE DEF S, p
<1>4. PICK s : IsRanking(s, S, p)
  BY <1>1, <1>2, RankingExists
<1>5. s \in [1..Cardinality(S) -> S] /\ Falling(s)
  <2>1. s \in [1..Cardinality(S) -> S]
    BY <1>4 DEF IsRanking
  <2>2. \A j \in DOMAIN s : p[s[j]] = Priority(r[s[j]])
    BY <1>3, <2>1
  <2>. QED BY <1>4, <2>1, <2>2 DEF IsRanking
<1>6. Ranked(r) = CHOOSE t \in [1..Cardinality(S) -> S] : Falling(t)
  BY DEF Ranked, S
<1> HIDE DEF Falling
<1>7. Ranked(r) \in [1..Cardinality(S) -> S] /\ Falling(Ranked(r))
  BY <1>5, <1>6
<1>. QED BY <1>1, <1>7 DEF Falling, S

LEMMA PlanRecursion ==
  ASSUME NEW r, AreResults(r), NEW target \in Nat
  PROVE  \E plan :
           /\ LiquidationOrders(r, target) = plan[Cardinality(Sellable(r))].orders
           /\ plan[0] = [remaining |-> target, orders |-> <<>>]
           /\ \A n \in 0..Cardinality(Sellable(r)) : plan[n] \in Plans(DOMAIN r)
           /\ \A n \in 1..Cardinality(Sellable(r)) :
                plan[n] = AddOrder(plan[n - 1], Ranked(r)[n], r)
<1> DEFINE N == Cardinality(Sellable(r))
           P == Plans(DOMAIN r)
           start == [remaining |-> target, orders |-> <<>>]
           After(n, p) == AddOrder(p, Ranked(r)[n], r)
           IsPlan(f) == f = [n \in 0..N |-> IF n = 0 THEN start ELSE After(n, f[n - 1])]
           plan == CHOOSE f : IsPlan(f)
           Adding(n) == [p \in P |-> After(n, p)]
           step == [n \in 1..N |-> Adding(n)]
<1>1. LiquidationOrders(r, target) = plan[N].orders
  BY DEF LiquidationOrders
<1>2. N \in Nat /\ \A n \in 1..N : Ranked(r)[n] \in DOMAIN r
  BY RankedIs, FS_CardinalityType
<1>3. start \in P
  BY EmptySeq DEF Plans
<1> HIDE DEF N, P, start
<1>4. ASSUME NEW n \in 1..N
      PROVE  /\ Adding(n) \in [P -> P]
             /\ \A p \in P : Adding(n)[p] = After(n, p)
  <2>1. \A p \in P : After(n, p) \in P
    BY <1>2, AddOrderType DEF P
  <2>. QED BY <2>1
<1> HIDE DEF Adding, After
<1>5. \A n \in 1..N : step[n] = Adding(n)
  OBVIOUS
<1>6. Steps(step, N, P)
  BY <1>4 DEF Steps
<1> HIDE DEF step
<1>7. PICK f \in [0..N -> P] : Follows(f, N, start, step)
  BY ONLY <1>2, <1>3, <1>6, RecursionExists
<1>8. IsPlan(f)
  <2>1. \A n \in 1..N : f[n] = After(n, f[n - 1])
    <3> TAKE n \in 1..N
    <3>1. f[n - 1] \in P
      BY <1>2, <1>7
    <3>. QED BY <3>1, <1>4, <1>5, <1>7 DEF Follows
  <2>. QED BY <2>1, <1>7 DEF Follows
<1>9. IsPlan(plan)
  BY <1>8
<1> HIDE DEF plan
<1>10. plan[0] = start /\ \A n \in 1..N : plan[n] = After(n, plan[n - 1])
  BY <1>2, <1>9
<1>11. \A n \in 0..N : plan[n] \in P
  <2>1. \A n \in 1..N : plan[n - 1] \in P => plan[n] = step[n][plan[n - 1]]
    BY <1>4, <1>5, <1>10
  <2>2. plan[0] \in P
    BY <1>3, <1>10
  <2>. QED BY ONLY <1>2, <1>6, <2>1, <2>2, RecursionTyped
<1>. QED BY <1>1, <1>10, <1>11 DEF After, N, P, start

(* One more order raises its cash more.                                      *)
LEMMA RaisedAppend ==
  ASSUME NEW D, NEW o \in Seq(Order(D)), NEW e \in Order(D)
  PROVE  Raised(Append(o, e)) = Raised(o) + e.cash /\ Raised(o) \in Nat
<1> DEFINE t == Append(o, e)
           N == Len(o)
           f == [k \in DOMAIN o |-> o[k].cash]
           g == [k \in DOMAIN t |-> t[k].cash]
<1>1. /\ t \in Seq(Order(D)) /\ DOMAIN t = 1..(N + 1) /\ DOMAIN o = 1..N /\ N \in Nat
      /\ \A n \in 1..N : t[n] = o[n]
      /\ t[N + 1] = e
  BY AppendProperties, LenProperties
<1>2. e.cash \in Nat /\ \A n \in 1..N : o[n].cash \in Nat
  <2>1. \A n \in 1..N : o[n] \in Order(D)
    BY <1>1, ElementOfSeq
  <2>2. \A x \in Order(D) : x.cash \in Nat
    BY DEF Order
  <2>. QED BY <2>1, <2>2
<1> HIDE DEF t, N
<1>3. /\ DOMAIN f = 1..N /\ DOMAIN g = 1..(N + 1)
      /\ \A n \in 1..N : f[n] \in Nat /\ g[n] = f[n]
      /\ g[N + 1] = e.cash
  BY <1>1, <1>2
<1>4. Raised(o) = SumFunctionOnSet(f, 1..N) /\ Raised(t) = SumFunctionOnSet(g, 1..(N + 1))
  BY <1>3, SumFunctionIs DEF Raised
<1> HIDE DEF f, g
<1>5. IsFiniteSet(1..N) /\ IsFiniteSet(1..(N + 1))
  BY <1>1, FS_Interval
<1>6. (1..(N + 1)) \ {N + 1} = 1..N /\ N + 1 \in 1..(N + 1)
  BY <1>1
<1>7. \A n \in 1..(N + 1) : g[n] \in Int
  <2> TAKE n \in 1..(N + 1)
  <2>1. n = N + 1 \/ n \in 1..N
    BY <1>1
  <2>. QED BY <1>2, <1>3, <2>1
<1>8. SumFunctionOnSet(g, 1..(N + 1)) = g[N + 1] + SumFunctionOnSet(g, 1..N)
  <2>1. SumFunctionOnSet(g, 1..(N + 1))
          = g[N + 1] + SumFunctionOnSet(g, (1..(N + 1)) \ {N + 1})
    BY ONLY <1>5, <1>6, <1>7, SumStep
  <2>. QED BY <1>6, <2>1
<1>9. SumFunctionOnSet(g, 1..N) = SumFunctionOnSet(f, 1..N)
  BY <1>3, <1>5, SumSame
<1>10. SumFunctionOnSet(f, 1..N) \in Nat
  BY <1>3, <1>5, SumNat
<1>. QED BY <1>2, <1>3, <1>4, <1>8, <1>9, <1>10 DEF t

(* What the plan has done once the first n assets of the ranking are seen:   *)
(* what remains of the target is what those assets do not recover, the       *)
(* orders follow the ranking, and none takes more than its asset recovers.   *)
Stressed(r) == [i \in DOMAIN r |-> r[i].stressed]

PlanStands(r, target, n, p) ==
  /\ p.remaining = Excess(target, SumFunctionOnSet(Stressed(r), Listed(Ranked(r), n)))
  /\ Raised(p.orders) + p.remaining = target
  /\ Len(p.orders) <= n
  /\ p.remaining > 0 => Len(p.orders) = n
  /\ \A k \in DOMAIN p.orders :
       /\ p.orders[k].instrument = Ranked(r)[k]
       /\ p.orders[k].cash <= r[Ranked(r)[k]].stressed

(* What the ranked assets recover together is what the whole collateral      *)
(* recovers: the others recover nothing.                                     *)
LEMMA ListedStressed ==
  ASSUME NEW r, AreResults(r)
  PROVE  LET N == Cardinality(Sellable(r))
             Sum(n) == SumFunctionOnSet(Stressed(r), Listed(Ranked(r), n))
         IN  /\ N \in Nat
             /\ Sum(0) = 0 /\ Sum(N) = SumFunctionOnSet(Stressed(r), DOMAIN r)
             /\ \A n \in 1..N : /\ Ranked(r)[n] \in DOMAIN r
                              /\ Sum(n) = Sum(n - 1) + r[Ranked(r)[n]].stressed
             /\ \A n \in 0..N : Sum(n) \in Nat
<1> DEFINE S == Sellable(r)
           N == Cardinality(S)
           f == Stressed(r)
           s == Ranked(r)
           Sum(n) == SumFunctionOnSet(f, Listed(s, n))
<1>1. /\ IsFiniteSet(S) /\ S \subseteq DOMAIN r
      /\ s \in [1..N -> S] /\ IsInjective(s) /\ N \in Nat
  BY RankedIs, FS_CardinalityType
<1>2. /\ IsFiniteSet(DOMAIN r)
      /\ \A i \in DOMAIN r : f[i] = r[i].stressed /\ f[i] \in Nat
      /\ \A i \in DOMAIN r \ S : f[i] = 0
  <2>1. \A i \in DOMAIN r : f[i] = r[i].stressed /\ r[i].stressed \in Nat
    BY DEF AreResults, IsResult, Stressed
  <2>2. \A i \in DOMAIN r \ S : r[i].stressed = 0
    BY <2>1 DEF AreResults, IsResult, Sellable
  <2>. QED BY <2>1, <2>2 DEF AreResults
<1> HIDE DEF S, f, s
<1>3. \A i \in S : f[i] \in Int
  BY <1>1, <1>2
<1>4. /\ Listed(s, 0) = {} /\ Listed(s, N) = S
      /\ \A n \in 1..N : SumFunctionOnSet(f, Listed(s, n))
                           = SumFunctionOnSet(f, Listed(s, n - 1)) + f[s[n]]
  BY ONLY <1>1, <1>3, ListedSum
<1>5. Sum(0) = 0
  BY <1>4, EmptySum
<1>6. Sum(N) = SumFunctionOnSet(f, DOMAIN r)
  <2>1. SumFunctionOnSet(f, DOMAIN r) = SumFunctionOnSet(f, S)
    BY <1>1, <1>2, SumZeros
  <2>. QED BY <1>4, <2>1
<1>7. \A n \in 1..N : s[n] \in DOMAIN r /\ Sum(n) = Sum(n - 1) + r[s[n]].stressed
  BY <1>1, <1>2, <1>4
<1>8. \A n \in 0..N : Sum(n) \in Nat
  <2> TAKE n \in 0..N
  <2>1. Listed(s, n) \subseteq S
    <3>1. 1..n \subseteq 1..N
      BY <1>1
    <3>. QED BY <1>1, <3>1 DEF Listed
  <2>2. IsFiniteSet(Listed(s, n)) /\ \A i \in Listed(s, n) : f[i] \in Nat
    BY <1>1, <1>2, <2>1, FS_Subset
  <2>. QED BY <2>2, SumNat
<1>. QED BY <1>1, <1>5, <1>6, <1>7, <1>8 DEF S, f, s

(* One step of the plan: PlanStands is what makes the induction along the    *)
(* ranking go through.                                                       *)
LEMMA PlanAddsOrder ==
  ASSUME NEW r, AreResults(r), NEW target \in Nat,
         NEW n \in 1..Cardinality(Sellable(r)), NEW p \in Plans(DOMAIN r),
         PlanStands(r, target, n - 1, p)
  PROVE  PlanStands(r, target, n, AddOrder(p, Ranked(r)[n], r))
<1> DEFINE s == Ranked(r)
           Sum(k) == SumFunctionOnSet(Stressed(r), Listed(s, k))
           i == s[n]
           cash == Least(r[i].stressed, p.remaining)
           e == [instrument |-> i, cash |-> cash]
           o == p.orders
           t == Append(o, e)
           q == [remaining |-> p.remaining - cash, orders |-> t]
<1>1. n \in Nat /\ n > 0 /\ n - 1 \in 0..Cardinality(Sellable(r))
  BY RankedIs, FS_CardinalityType
<1>2. /\ i \in DOMAIN r /\ r[i].stressed \in Nat
      /\ Sum(n) = Sum(n - 1) + r[i].stressed /\ Sum(n - 1) \in Nat /\ Sum(n) \in Nat
  <2>1. i \in DOMAIN r /\ r[i].stressed \in Nat
    BY ListedStressed DEF AreResults, IsResult
  <2>. QED BY <1>1, <2>1, ListedStressed
<1>3. p.remaining \in Nat /\ o \in Seq(Order(DOMAIN r))
  BY DEF Plans
<1>4. /\ p.remaining = Excess(target, Sum(n - 1)) /\ Raised(o) + p.remaining = target
      /\ Len(o) \in Nat /\ DOMAIN o = 1..Len(o) /\ Len(o) <= n - 1
      /\ p.remaining > 0 => Len(o) = n - 1
      /\ \A k \in DOMAIN o : o[k].instrument = s[k] /\ o[k].cash <= r[s[k]].stressed
  BY <1>3, LenProperties DEF PlanStands
<1> HIDE DEF Sum
<1>5. CASE p.remaining = 0
  <2>1. AddOrder(p, i, r) = p
    BY <1>5 DEF AddOrder
  <2>2. p.remaining = Excess(target, Sum(n))
    BY <1>2, <1>4, <1>5 DEF Excess
  <2>3. Len(o) <= n /\ ~(p.remaining > 0)
    BY <1>1, <1>4, <1>5
  <2>4. PlanStands(r, target, n, p)
    BY <1>4, <2>2, <2>3 DEF PlanStands, Sum
  <2>. QED BY <2>1, <2>4
<1>6. CASE p.remaining # 0
  <2>1. AddOrder(p, i, r) = q
    BY <1>6 DEF AddOrder
  <2>2. cash \in Nat /\ cash <= r[i].stressed /\ cash <= p.remaining
        /\ (cash = r[i].stressed \/ cash = p.remaining)
    BY <1>2, <1>3 DEF Least
  <2> HIDE DEF cash
  <2>3. e \in Order(DOMAIN r) /\ e.instrument = i /\ e.cash = cash
    BY <1>2, <2>2 DEF Order
  <2> HIDE DEF e
  <2>4. /\ DOMAIN t = 1..(Len(o) + 1) /\ Len(t) = Len(o) + 1
        /\ \A k \in 1..Len(o) : t[k] = o[k]
        /\ t[Len(o) + 1] = e
    BY <1>3, <2>3, AppendProperties, LenProperties
  <2>5. Raised(t) = Raised(o) + cash /\ Raised(o) \in Nat
    BY <1>3, <2>3, RaisedAppend
  <2> HIDE DEF t, o, i, s
  <2>6. Len(o) = n - 1
    BY <1>3, <1>4, <1>6
  <2>7. p.remaining - cash = Excess(target, Sum(n))
    <3>1. /\ p.remaining \in Nat /\ p.remaining # 0 /\ cash \in Nat /\ target \in Nat
          /\ r[i].stressed \in Nat /\ Sum(n - 1) \in Nat
      BY <1>2, <1>3, <1>6, <2>2
    <3>2. p.remaining = target - Sum(n - 1)
      BY ONLY <1>4, <3>1 DEF Excess
    <3>. QED BY ONLY <1>2, <2>2, <3>1, <3>2 DEF Excess
  <2>8. Raised(t) + (p.remaining - cash) = target
    BY <1>3, <1>4, <2>2, <2>5
  <2>9. \A k \in DOMAIN t : t[k].instrument = s[k] /\ t[k].cash <= r[s[k]].stressed
    <3> TAKE k \in DOMAIN t
    <3>1. k \in 1..n
      BY <1>1, <2>4, <2>6
    <3>2. CASE k = n
      <4>1. t[k] = e /\ s[k] = i
        BY <1>1, <2>4, <2>6, <3>2 DEF i
      <4>. QED BY <2>2, <2>3, <4>1
    <3>3. CASE k # n
      <4>1. k \in 1..Len(o)
        BY <1>1, <2>6, <3>1, <3>3
      <4>. QED BY <1>4, <2>4, <4>1
    <3>. QED BY <3>2, <3>3
  <2>10. Len(t) = n
    BY <1>1, <2>4, <2>6
  <2>11. q.remaining = p.remaining - cash /\ q.orders = t
    OBVIOUS
  <2> HIDE DEF q
  <2>12. PlanStands(r, target, n, q)
    BY <1>1, <2>7, <2>8, <2>9, <2>10, <2>11 DEF PlanStands, Sum, s
  <2>. QED BY <2>1, <2>12 DEF i, s
<1>. QED BY <1>5, <1>6

(* The whole plan: it raises the target or all there is to recover, and no   *)
(* asset is asked for more than it recovers.                                 *)
LEMMA PlanRaises ==
  ASSUME NEW r, AreResults(r), NEW target \in Nat
  PROVE  LET N == Cardinality(Sellable(r))
             o == LiquidationOrders(r, target)
             all == SumFunctionOnSet(Stressed(r), DOMAIN r)
         IN  /\ o \in Seq(Order(DOMAIN r)) /\ Len(o) <= N
             /\ Raised(o) = Least(target, all)
             /\ \A k \in DOMAIN o : /\ o[k].instrument = Ranked(r)[k]
                                  /\ o[k].cash <= r[Ranked(r)[k]].stressed
<1> DEFINE N == Cardinality(Sellable(r))
           all == SumFunctionOnSet(Stressed(r), DOMAIN r)
<1>1. PICK plan :
        /\ LiquidationOrders(r, target) = plan[N].orders
        /\ plan[0] = [remaining |-> target, orders |-> <<>>]
        /\ \A n \in 0..N : plan[n] \in Plans(DOMAIN r)
        /\ \A n \in 1..N : plan[n] = AddOrder(plan[n - 1], Ranked(r)[n], r)
  BY PlanRecursion
<1> DEFINE G == {n \in 0..N : PlanStands(r, target, n, plan[n])}
<1>2. N \in Nat
  BY ListedStressed
<1>3. 0 \in G
  <2>1. SumFunctionOnSet(Stressed(r), Listed(Ranked(r), 0)) = 0
    BY ListedStressed
  <2>2. plan[0].remaining = target /\ plan[0].orders = <<>>
    BY <1>1
  <2>3. Raised(<<>>) = 0
    <3>1. DOMAIN [k \in DOMAIN <<>> |-> <<>>[k].cash] = {}
      OBVIOUS
    <3>. QED BY <3>1, SumFunctionIs, EmptySum DEF Raised
  <2>4. Len(<<>>) = 0 /\ DOMAIN <<>> = {}
    OBVIOUS
  <2>5. PlanStands(r, target, 0, plan[0])
    BY <2>1, <2>2, <2>3, <2>4 DEF PlanStands, Excess
  <2>. QED BY <1>2, <2>5
<1>4. \A n \in 0..(N - 1) : n \in G => n + 1 \in G
  <2> TAKE n \in 0..(N - 1)
  <2> HAVE n \in G
  <2>1. /\ n + 1 \in 1..N /\ (n + 1) - 1 = n /\ n \in 0..N
        /\ PlanStands(r, target, n, plan[n])
    BY <1>2
  <2>2. plan[n] \in Plans(DOMAIN r) /\ plan[n + 1] = AddOrder(plan[n], Ranked(r)[n + 1], r)
    BY <1>1, <2>1
  <2>3. PlanStands(r, target, n + 1, plan[n + 1])
    BY <2>1, <2>2, PlanAddsOrder
  <2>. QED BY <2>1, <2>3
<1>5. N \in G
  <2> HIDE DEF G
  <2>1. 0..N \subseteq G
    BY <1>2, <1>3, <1>4, PrefixInduction
  <2>. QED BY <1>2, <2>1
<1> DEFINE p == plan[N]
<1>6. PlanStands(r, target, N, p) /\ p \in Plans(DOMAIN r)
  BY <1>1, <1>5
<1>7. /\ p.remaining = Excess(target, all) /\ all \in Nat
      /\ Raised(p.orders) + p.remaining = target
  <2>1. SumFunctionOnSet(Stressed(r), Listed(Ranked(r), N)) = all
    BY ListedStressed
  <2>2. all \in Nat
    BY <1>2, ListedStressed
  <2>. QED BY <1>6, <2>1, <2>2 DEF PlanStands
<1>8. Raised(p.orders) \in Int
  <2>1. p.orders \in Seq(Order(DOMAIN r))
    BY <1>6 DEF Plans
  <2>2. \A k \in DOMAIN p.orders : p.orders[k].cash \in Nat
    <3>1. \A k \in 1..Len(p.orders) : p.orders[k] \in Order(DOMAIN r)
      BY <2>1, ElementOfSeq
    <3>2. \A x \in Order(DOMAIN r) : x.cash \in Nat
      BY DEF Order
    <3>. QED BY <2>1, <3>1, <3>2, LenProperties
  <2>3. IsFiniteSet(DOMAIN p.orders)
    BY <2>1, LenProperties, FS_Interval
  <2>4. SumFunction([k \in DOMAIN p.orders |-> p.orders[k].cash]) \in Int
    BY <2>2, <2>3, ResultSum
  <2>. QED BY <2>4 DEF Raised
<1> HIDE DEF all
<1>9. Raised(p.orders) = Least(target, all)
  BY <1>7, <1>8 DEF Least, Excess
<1>10. /\ p.orders \in Seq(Order(DOMAIN r)) /\ Len(p.orders) <= N
       /\ \A k \in DOMAIN p.orders : /\ p.orders[k].instrument = Ranked(r)[k]
                                   /\ p.orders[k].cash <= r[Ranked(r)[k]].stressed
  BY <1>6 DEF Plans, PlanStands
<1>. QED BY <1>1, <1>9, <1>10 DEF all

(* The results of any valuation are such results.                            *)
LEMMA ResultsOf ==
  ASSUME NEW h, AreHoldings(h), NEW m, IsMarket(m)
  PROVE  AreResults(AssetResults(h, m))
<1> DEFINE r == AssetResults(h, m)
           total == PortfolioValue(h, m)
<1>1. IsFiniteSet(DOMAIN r) /\ DOMAIN r = DOMAIN h /\ \A i \in DOMAIN h : IsResult(r[i])
  BY AssetResultsType
<1>2. \A i \in DOMAIN h : r[i] = AssetResult(h, m, i, total)
  BY DEF AssetResults
<1> HIDE DEF r, total
<1>3. ASSUME NEW i \in DOMAIN h, ~r[i].eligible
      PROVE  r[i].stressed = 0
  <2> DEFINE result == AssetResult(h, m, i, total)
  <2>1. ~result.eligible => result.stressed = 0
    <3>1. CASE i \notin Priced(h, m)
      BY <3>1 DEF AssetResult
    <3>2. CASE i \in Priced(h, m)
      BY <3>2 DEF AssetResult
    <3>. QED BY <3>1, <3>2
  <2>2. r[i] = result
    BY <1>2
  <2> HIDE DEF result
  <2>. QED BY <1>3, <2>1, <2>2
<1>. QED BY <1>1, <1>3 DEF AreResults, r

(* No two orders of a plan sell the same holding.                            *)
LEMMA OneOrderEach ==
  ASSUME NEW r, AreResults(r), NEW o \in Seq(Order(DOMAIN r)),
         Len(o) <= Cardinality(Sellable(r)),
         \A k \in DOMAIN o : /\ o[k].instrument = Ranked(r)[k]
                             /\ o[k].cash <= r[Ranked(r)[k]].stressed,
         NEW i \in DOMAIN r
  PROVE  LET own == {k \in DOMAIN o : o[k].instrument = i}
         IN  SumFunction([k \in own |-> o[k].cash]) <= r[i].stressed
<1> DEFINE own == {k \in DOMAIN o : o[k].instrument = i}
           f == [k \in own |-> o[k].cash]
           s == Ranked(r)
           N == Cardinality(Sellable(r))
<1>1. r[i].stressed \in Nat
  BY DEF AreResults, IsResult
<1>2. SumFunction(f) = SumFunctionOnSet(f, own)
  BY SumFunctionIs
<1>3. DOMAIN o \subseteq 1..N /\ DOMAIN s = 1..N /\ IsInjective(s)
  <2>1. N \in Nat
    BY ListedStressed
  <2>2. DOMAIN o = 1..Len(o) /\ Len(o) \in Nat
    BY LenProperties
  <2>. QED BY <2>1, <2>2, RankedIs
<1>4. \A j, k \in own : j = k
  BY <1>3 DEF IsInjective
<1> HIDE DEF f, own
<1>5. SumFunction(f) <= r[i].stressed
  <2>1. CASE own = {}
    <3>1. SumFunctionOnSet(f, {}) = 0
      BY EmptySum
    <3>2. SumFunction(f) = 0
      BY <1>2, <2>1, <3>1
    <3>. QED BY <1>1, <3>2
  <2>2. CASE own # {}
    <3>1. PICK k \in own : TRUE
      BY <2>2
    <3>2. own \ {k} = {}
      BY <1>4, <3>1
    <3>3. f[k] = o[k].cash /\ o[k].cash <= r[i].stressed
      BY <3>1 DEF own, f
    <3>4. o[k].cash \in Nat
      <4>1. k \in 1..Len(o)
        BY <3>1, LenProperties DEF own
      <4>2. o[k] \in Order(DOMAIN r)
        BY <4>1, ElementOfSeq
      <4>. QED BY <4>2 DEF Order
    <3>5. IsFiniteSet(own) /\ \A x \in own : f[x] \in Int
      <4>1. own = {k}
        BY <1>4, <3>1
      <4>2. IsFiniteSet({k})
        <5>1. IsFiniteSet({} \cup {k})
          BY FS_EmptySet, FS_AddElement
        <5>2. {} \cup {k} = {k}
          OBVIOUS
        <5>. QED BY <5>1, <5>2
      <4>. QED BY <3>3, <3>4, <4>1, <4>2
    <3>6. SumFunctionOnSet(f, own) = f[k] + SumFunctionOnSet(f, own \ {k})
      BY <3>1, <3>5, SumStep
    <3>7. SumFunctionOnSet(f, own \ {k}) = 0
      BY <3>2, EmptySum
    <3>8. SumFunction(f) = o[k].cash
      BY <1>2, <3>3, <3>4, <3>6, <3>7
    <3>. QED BY <3>3, <3>8
  <2>. QED BY <2>1, <2>2
<1>. QED BY <1>5 DEF f, own

(* PlanRaisesItsTarget: whatever the holdings and the market, the plan       *)
(* drawn up for an account in an alarm raises its target or all that may be  *)
(* sold, and sells of no holding more than it recovers.                      *)
THEOREM PlansRaiseTheirTarget == Spec => []PlanRaisesItsTarget
<1>1. TypeOK => PlanRaisesItsTarget
  <2> SUFFICES ASSUME TypeOK PROVE PlanRaisesItsTarget
    OBVIOUS
  <2> DEFINE collateral == WithCash(account.holdings, account.cash)
             m      == MarketWithCash
             r      == AssetResults(collateral, m)
             v      == ValuationOf(r)
             owed   == Balance(account.loan)
             target == TargetRecovery(v, owed)
             o      == LiquidationOrders(r, target)
             taken(i) == SumFunction([k \in {k \in DOMAIN o : o[k].instrument = i} |->
                                        o[k].cash])
  <2>1. IsMarket(m)
    <3>1. IsMarket(market)
      BY MarketsAssumption DEF TypeOK, IsMarket
    <3>. QED BY <3>1, CashQuoteType DEF MarketWithCash, IsMarket
  <2>2. AreHoldings(collateral) /\ owed \in Nat
    BY WithCashType, BalanceNat DEF TypeOK, IsAccount
  <2> HIDE DEF m, collateral, owed
  <2>3. AreResults(r) /\ v \in Valuation
    <3>1. Valued(collateral, m) = v
      BY ValuedIs
    <3>. QED BY <2>1, <2>2, <3>1, ResultsOf, ValuedType
  <2>4. v.stressed = SumFunctionOnSet(Stressed(r), DOMAIN r)
    <3>1. v.stressed = SumFunction(Stressed(r))
      BY DEF ValuationOf, Stressed
    <3>2. DOMAIN Stressed(r) = DOMAIN r
      BY DEF Stressed
    <3>. QED BY <3>1, <3>2, SumFunctionIs
  <2> HIDE DEF r, v
  <2>5. target \in Nat
    <3>1. RepaymentOnlyCure(v, owed) \in Nat
      BY <2>2, <2>3, RepaymentOnlyCureNat
    <3>2. Excess(owed, v.approved) \in Nat
      BY <2>2, <2>3, ExcessNat DEF Valuation
    <3>. QED BY <3>1, <3>2 DEF TargetRecovery, Larger
  <2> HIDE DEF target
  <2>6. /\ o \in Seq(Order(DOMAIN r)) /\ Len(o) <= Cardinality(Sellable(r))
        /\ Raised(o) = Least(target, v.stressed)
        /\ \A k \in DOMAIN o : /\ o[k].instrument = Ranked(r)[k]
                               /\ o[k].cash <= r[Ranked(r)[k]].stressed
    BY <2>3, <2>4, <2>5, PlanRaises
  <2> HIDE DEF o
  <2>7. \A i \in DOMAIN r : taken(i) <= r[i].stressed
    BY <2>3, <2>6, OneOrderEach
  <2>8. SumFunction([k \in DOMAIN o |-> o[k].cash]) = Least(target, v.stressed)
    BY <2>6 DEF Raised
  <2> HIDE DEF taken
  <2>. QED BY <2>7, <2>8
           DEF PlanRaisesItsTarget, taken, o, target, r, v, owed, collateral, m
<1>. QED BY <1>1, ActionsTypeOK, PTL

(***************************************************************************)
(* The two gates.  Both compare rounded amounts, the older one with other  *)
(* roundings: rounding keeps amounts in order.                             *)
(***************************************************************************)
LEMMA DivisionIs ==
  ASSUME NEW n \in Nat, NEW unit \in Nat \ {0}
  PROVE  \E q, r \in Nat : /\ n \div unit = q /\ n % unit = r
                           /\ r < unit /\ n = unit * q + r
<1> DEFINE q == n \div unit
           r == n % unit
<1>1. q \in Nat /\ r \in Nat /\ r < unit
  OBVIOUS
<1>2. r = n - unit * q
  OBVIOUS
<1> HIDE DEF q, r
<1> DEFINE t == unit * q
<1>3. t \in Nat /\ r = n - t
  BY <1>1, <1>2
<1> HIDE DEF t
<1>4. n = t + r
  BY ONLY <1>1, <1>3, n \in Nat
<1>5. n = unit * q + r
  BY ONLY <1>4 DEF t
<1>6. q = n \div unit /\ r = n % unit
  BY ONLY DEF q, r
<1>. QED BY <1>1, <1>5, <1>6

LEMMA DivisionOf ==
  ASSUME NEW n \in Nat, NEW unit \in Nat \ {0}, NEW q \in Nat, NEW r \in Nat,
         r < unit, n = unit * q + r
  PROVE  n \div unit = q /\ n % unit = r
<1>1. PICK p \in Nat, s \in Nat : /\ n \div unit = p /\ n % unit = s
                                  /\ s < unit /\ n = unit * p + s
  BY DivisionIs
<1>2. unit * p \in Nat /\ unit * q \in Nat
  BY <1>1
<1>3. ~(p < q)
  <2> SUFFICES ASSUME p + 1 <= q PROVE FALSE
    BY <1>1
  <2>1. unit * (p + 1) <= unit * q /\ unit * (p + 1) = unit * p + unit
    BY <1>1, ProductMonotone
  <2>. QED BY <1>1, <1>2, <2>1
<1>4. ~(q < p)
  <2> SUFFICES ASSUME q + 1 <= p PROVE FALSE
    BY <1>1
  <2>1. unit * (q + 1) <= unit * p /\ unit * (q + 1) = unit * q + unit
    BY <1>1, ProductMonotone
  <2>. QED BY <1>1, <1>2, <2>1
<1>5. p = q
  BY <1>1, <1>3, <1>4
<1>6. s = r
  BY <1>1, <1>2, <1>5
<1>. QED BY <1>1, <1>5, <1>6

LEMMA RoundingMonotone ==
  ASSUME NEW x \in Nat, NEW y \in Nat, NEW d \in Nat \ {0}, x <= y
  PROVE  RoundQuotient(x, d) <= RoundQuotient(y, d)
<1> DEFINE unit == d * Cent
           p == x \div unit
           q == y \div unit
           r == x % unit
           s == y % unit
           upX == 2 * r > unit \/ (2 * r = unit /\ p % 2 = 1)
           upY == 2 * s > unit \/ (2 * s = unit /\ q % 2 = 1)
           i == IF upX THEN p + 1 ELSE p
           j == IF upY THEN q + 1 ELSE q
<1>1. unit \in Nat \ {0} /\ Cent \in Nat
  BY CentAssumption
<1>2. RoundQuotient(x, d) = Cent * i /\ RoundQuotient(y, d) = Cent * j
  BY DEF RoundQuotient
<1> HIDE DEF unit
<1>3. /\ p \in Nat /\ q \in Nat /\ r \in Nat /\ s \in Nat
      /\ x = unit * p + r /\ y = unit * q + s
  <2>1. PICK k \in Nat, l \in Nat : p = k /\ r = l /\ x = unit * k + l
    BY <1>1, DivisionIs
  <2>2. PICK m \in Nat, o \in Nat : q = m /\ s = o /\ y = unit * m + o
    BY <1>1, DivisionIs
  <2> HIDE DEF p, q, r, s
  <2>. QED BY <2>1, <2>2
<1>4. p <= q
  BY <1>1, QuotientMonotone
<1> HIDE DEF p, q, r, s
<1>5. i <= j
  <2>1. CASE p < q
    BY <1>3, <2>1
  <2>2. CASE p = q
    <3>1. r <= s
      <4>1. unit * p \in Nat /\ x = unit * p + r /\ y = unit * p + s
        BY <1>1, <1>3, <2>2
      <4>. QED BY <1>3, <4>1
    <3>2. upX => upY
      BY <1>1, <1>3, <2>2, <3>1
    <3> HIDE DEF upX, upY
    <3>. QED BY <1>3, <2>2, <3>2
  <2>. QED BY <1>3, <1>4, <2>1, <2>2
<1>6. i \in Nat /\ j \in Nat
  BY <1>3
<1> HIDE DEF i, j
<1>. QED BY <1>1, <1>2, <1>5, <1>6, ProductMonotone

(* An amount of money, and so many ten-thousandths of it, round alike.       *)
LEMMA RoundsAlike ==
  ASSUME NEW x \in Nat
  PROVE  RoundQuotient(x * Whole, Whole) = RoundMoney(x)
<1> DEFINE p == x \div Cent
           r == x % Cent
           unit == Whole * Cent
           n == x * Whole
<1>1. Cent \in Nat \ {0} /\ Whole = 10000
  BY CentAssumption DEF Whole
<1>2. p \in Nat /\ r \in 0..(Cent - 1) /\ x = Cent * p + r
  <2>1. PICK k \in Nat, l \in Nat : p = k /\ r = l /\ l < Cent /\ x = Cent * k + l
    BY <1>1, DivisionIs
  <2> HIDE DEF p, r
  <2>. QED BY <1>1, <2>1
<1> HIDE DEF p, r
<1>3. unit = 10000 * Cent /\ unit \in Nat \ {0} /\ n \in Nat
  BY <1>1
<1>4. n = unit * p + 10000 * r
  <2>1. n = 10000 * (Cent * p + r)
    BY <1>1, <1>2
  <2>2. unit * p = 10000 * (Cent * p) /\ Cent * p \in Nat
    BY <1>1, <1>2, <1>3
  <2>. QED BY <1>2, <2>1, <2>2
<1>5. n \div unit = p /\ n % unit = 10000 * r
  <2>1. 10000 * r \in Nat /\ 10000 * r < unit
    BY <1>1, <1>2, <1>3
  <2> HIDE DEF n, unit
  <2>. QED BY <1>2, <1>3, <1>4, <2>1, DivisionOf
<1>6. RoundMoney(x) = Cent * (IF 2 * r > Cent \/ (2 * r = Cent /\ p % 2 = 1) THEN p + 1 ELSE p)
  <2>1. 1 * Cent = Cent
    BY <1>1
  <2>. QED BY <2>1 DEF RoundMoney, RoundQuotient, p, r
<1>7. RoundQuotient(n, Whole)
        = Cent * (IF 2 * (10000 * r) > unit \/ (2 * (10000 * r) = unit /\ p % 2 = 1)
                  THEN p + 1 ELSE p)
  BY <1>5 DEF RoundQuotient
<1>8. (2 * (10000 * r) > unit <=> 2 * r > Cent) /\ (2 * (10000 * r) = unit <=> 2 * r = Cent)
  BY <1>1, <1>2, <1>3
<1> HIDE DEF n, unit
<1>9. RoundQuotient(n, Whole) = RoundMoney(x)
  BY <1>6, <1>7, <1>8
<1>. QED BY <1>9 DEF n

LEMMA SafePassesOlderGate ==
  ASSUME NEW v \in Valuation, NEW loan \in Loan, CentsLoan(loan),
         Balance(loan) = 0 \/ (/\ MarginState(v, Balance(loan)) = "safe"
                               /\ Balance(loan) <= SafeCreditLimit(v))
  PROVE  EngineDecision(v, Balance(loan), 0) = "approve"
<1> DEFINE b == Balance(loan)
           stressed == RoundMoney(v.stressed)
           needed == RoundQuotient(b * LiquidationCoverage(v), Whole)
<1>1. b \in Nat /\ b + 0 = b /\ RoundMoney(b) = b
  <2>1. IsCents(b)
    BY CentsBalance
  <2>. QED BY <2>1, BalanceNat, CentsStay
<1>2. v.approved \in Nat /\ v.stressed \in Nat
  BY DEF Valuation
<1> HIDE DEF b
<1>3. CASE b = 0
  BY <1>1, <1>3 DEF EngineDecision, b
<1>4. CASE b # 0
  <2>1. MarginState(v, b) = "safe" /\ b <= SafeCreditLimit(v)
    BY <1>4 DEF b
  <2>2. /\ v.approved # 0 /\ b <= v.approved
        /\ ~Below(v, b, LiquidationCoverage(v))
    BY <1>1, <1>2, <1>4, <2>1 DEF MarginState
  <2>3. b <= RoundMoney(v.approved)
    <3>1. SafeCreditLimit(v) <= RoundMoney(v.approved)
      <4>1. RoundMoney(v.approved) \in Nat
        BY <1>2, RoundMoneyNat
      <4>2. RoundQuotient(v.stressed * Whole, WarningCoverage(v)) \in Nat
        BY <1>2, CoveragesAreRatios, RoundQuotientNat DEF Whole
      <4>. QED BY <4>1, <4>2 DEF SafeCreditLimit, Least
    <3>2. RoundMoney(v.approved) \in Nat /\ SafeCreditLimit(v) \in Nat
      BY <1>2, RoundMoneyNat, SafeCreditLimitNat
    <3>. QED BY <1>1, <2>1, <3>1, <3>2
  <2>4. LiquidationCoverage(v) \in Nat /\ LiquidationCoverage(v) >= Whole
    BY DEF LiquidationCoverage, Clamp, Whole, Valuation
  <2>5. /\ b * LiquidationCoverage(v) \in Nat /\ v.stressed * Whole \in Nat
        /\ b * LiquidationCoverage(v) <= v.stressed * Whole
    <3>1. LiquidationCoverage(v) * b = b * LiquidationCoverage(v)
      BY <1>1, <2>4
    <3>2. b * LiquidationCoverage(v) \in Nat /\ v.stressed * Whole \in Nat
      BY <1>1, <1>2, <2>4 DEF Whole
    <3>. QED BY <2>2, <3>1, <3>2 DEF Below
  <2>6. needed <= stressed
    <3>1. Whole \in Nat \ {0}
      BY DEF Whole
    <3>2. needed <= RoundQuotient(v.stressed * Whole, Whole)
      BY <2>5, <3>1, RoundingMonotone
    <3>. QED BY <1>2, <3>2, RoundsAlike
  <2>7. b <= stressed
    <3>1. b * Whole <= b * LiquidationCoverage(v)
      BY <1>1, <2>4, ProductMonotone DEF Whole
    <3>2. b <= v.stressed
      BY <1>1, <1>2, <2>5, <3>1 DEF Whole
    <3>3. RoundMoney(b) <= RoundMoney(v.stressed)
      BY <1>1, <1>2, <3>2, RoundingMonotone DEF RoundMoney
    <3>. QED BY <1>1, <3>3
  <2>8. stressed \in Nat /\ needed \in Nat /\ RoundMoney(v.approved) \in Nat
        /\ RoundMoney(Excess(v.approved, b)) \in Nat
    <3>1. stressed \in Nat /\ RoundMoney(v.approved) \in Nat
      BY <1>2, RoundMoneyNat
    <3>2. needed \in Nat
      BY <2>5, RoundQuotientNat DEF Whole
    <3>3. RoundMoney(Excess(v.approved, b)) \in Nat
      BY <1>1, <1>2, ExcessNat, RoundMoneyNat
    <3>. QED BY <3>1, <3>2, <3>3
  <2> HIDE DEF stressed, needed
  <2>9. /\ b > 0 /\ ~(stressed < b) /\ ~(stressed < needed)
        /\ ~(0 > RoundMoney(Excess(v.approved, b))) /\ ~(b > RoundMoney(v.approved))
    BY <1>1, <1>4, <2>3, <2>6, <2>7, <2>8
  <2>10. EngineDecision(v, b, 0) = "approve"
    BY <1>1, <1>4, <2>1, <2>9 DEF EngineDecision, stressed, needed
  <2>. QED BY <2>10 DEF b
<1>. QED BY <1>3, <1>4

(***************************************************************************)
(* The older gate keeps a holding that is sold out, the lifecycle check    *)
(* drops it: the valuation is the same unless more of the asset is held.   *)
(***************************************************************************)
(* Dropping what counts for nothing leaves a sum, and a valuation, as it is. *)
LEMMA SumLeft ==
  ASSUME NEW D, IsFiniteSet(D), NEW T \in SUBSET D,
         NEW f, DOMAIN f = D, \A i \in D : f[i] \in Int, \A i \in D \ T : f[i] = 0,
         NEW g, DOMAIN g = T, \A i \in T : g[i] = f[i]
  PROVE  SumFunction(g) = SumFunction(f)
<1>1. SumFunction(g) = SumFunctionOnSet(g, T) /\ SumFunction(f) = SumFunctionOnSet(f, D)
  BY SumFunctionIs
<1>2. SumFunctionOnSet(g, T) = SumFunctionOnSet(f, T)
  BY FS_Subset, SumSame
<1>3. SumFunctionOnSet(f, D) = SumFunctionOnSet(f, T)
  BY SumZeros
<1>. QED BY <1>1, <1>2, <1>3

LEMMA WorthlessDropped ==
  ASSUME NEW r, IsFiniteSet(DOMAIN r), \A i \in DOMAIN r : IsResult(r[i]),
         NEW T \in SUBSET DOMAIN r, NEW s, DOMAIN s = T, \A i \in T : s[i] = r[i],
         \A i \in DOMAIN r \ T : /\ r[i].worth = 0 /\ r[i].share = 0
                                 /\ r[i].lendable = 0 /\ r[i].stressed = 0
  PROVE  ValuationOf(s) = ValuationOf(r)
<1> DEFINE worth(x) == [i \in DOMAIN x |-> x[i].worth]
           lendable(x) == [i \in DOMAIN x |-> x[i].lendable]
           stressed(x) == [i \in DOMAIN x |-> x[i].stressed]
           risky(x) == [i \in DOMAIN x |-> x[i].risk * x[i].worth]
           squares(x) == [i \in DOMAIN x |-> x[i].share * x[i].share]
           outside(x) == [i \in DOMAIN x |-> IF x[i].eligible THEN 0 ELSE x[i].worth]
<1>1. \A i \in DOMAIN r : /\ r[i].worth \in Int /\ r[i].lendable \in Int
                          /\ r[i].stressed \in Int /\ r[i].risk * r[i].worth \in Int
                          /\ r[i].share * r[i].share \in Int
  BY DEF IsResult
<1>2. \A i \in DOMAIN r \ T : r[i].risk * r[i].worth = 0 /\ r[i].share * r[i].share = 0
  <2> TAKE i \in DOMAIN r \ T
  <2>1. r[i].risk \in Int /\ r[i].worth = 0 /\ r[i].share = 0
    BY DEF IsResult
  <2>. QED BY <2>1
<1>3. SumFunction(worth(s)) = SumFunction(worth(r))
  <2> DEFINE f == worth(r)
             g == worth(s)
  <2>1. /\ DOMAIN f = DOMAIN r /\ \A i \in DOMAIN r : f[i] \in Int
        /\ \A i \in DOMAIN r \ T : f[i] = 0
        /\ DOMAIN g = T /\ \A i \in T : g[i] = f[i]
    BY <1>1
  <2> HIDE DEF f, g
  <2>2. SumFunction(g) = SumFunction(f)
    BY <2>1, SumLeft
  <2>. QED BY <2>2 DEF f, g
<1>4. SumFunction(lendable(s)) = SumFunction(lendable(r))
  <2> DEFINE f == lendable(r)
             g == lendable(s)
  <2>1. /\ DOMAIN f = DOMAIN r /\ \A i \in DOMAIN r : f[i] \in Int
        /\ \A i \in DOMAIN r \ T : f[i] = 0
        /\ DOMAIN g = T /\ \A i \in T : g[i] = f[i]
    BY <1>1
  <2> HIDE DEF f, g
  <2>2. SumFunction(g) = SumFunction(f)
    BY <2>1, SumLeft
  <2>. QED BY <2>2 DEF f, g
<1>5. SumFunction(stressed(s)) = SumFunction(stressed(r))
  <2> DEFINE f == stressed(r)
             g == stressed(s)
  <2>1. /\ DOMAIN f = DOMAIN r /\ \A i \in DOMAIN r : f[i] \in Int
        /\ \A i \in DOMAIN r \ T : f[i] = 0
        /\ DOMAIN g = T /\ \A i \in T : g[i] = f[i]
    BY <1>1
  <2> HIDE DEF f, g
  <2>2. SumFunction(g) = SumFunction(f)
    BY <2>1, SumLeft
  <2>. QED BY <2>2 DEF f, g
<1>6. SumFunction(risky(s)) = SumFunction(risky(r))
  <2> DEFINE f == risky(r)
             g == risky(s)
  <2>1. /\ DOMAIN f = DOMAIN r /\ \A i \in DOMAIN r : f[i] \in Int
        /\ \A i \in DOMAIN r \ T : f[i] = 0
        /\ DOMAIN g = T /\ \A i \in T : g[i] = f[i]
    BY <1>1, <1>2
  <2> HIDE DEF f, g
  <2>2. SumFunction(g) = SumFunction(f)
    BY <2>1, SumLeft
  <2>. QED BY <2>2 DEF f, g
<1>7. SumFunction(squares(s)) = SumFunction(squares(r))
  <2> DEFINE f == squares(r)
             g == squares(s)
  <2>1. /\ DOMAIN f = DOMAIN r /\ \A i \in DOMAIN r : f[i] \in Int
        /\ \A i \in DOMAIN r \ T : f[i] = 0
        /\ DOMAIN g = T /\ \A i \in T : g[i] = f[i]
    BY <1>1, <1>2
  <2> HIDE DEF f, g
  <2>2. SumFunction(g) = SumFunction(f)
    BY <2>1, SumLeft
  <2>. QED BY <2>2 DEF f, g
<1>8. SumFunction(outside(s)) = SumFunction(outside(r))
  <2> DEFINE f == outside(r)
             g == outside(s)
  <2>1. /\ DOMAIN f = DOMAIN r /\ \A i \in DOMAIN r : f[i] \in Int
        /\ \A i \in DOMAIN r \ T : f[i] = 0
        /\ DOMAIN g = T /\ \A i \in T : g[i] = f[i]
    BY <1>1
  <2> HIDE DEF f, g
  <2>2. SumFunction(g) = SumFunction(f)
    BY <2>1, SumLeft
  <2>. QED BY <2>2 DEF f, g
<1> DEFINE score(total, risk, square, out) ==
             IF total = 0 THEN 100
             ELSE Clamp((75 * (risk \div total) + 20 * (square \div 100)
                          + 35 * ((100 * out) \div total)) \div 100, 0, 100)
           of(total, lent, stress, points) ==
             [value |-> total, approved |-> Least(lent, (total * PortfolioCap) \div 100),
              stressed |-> stress, score |-> points]
<1>9. \A x \in {r, s} :
        PortfolioRiskScore(x) = score(SumFunction(worth(x)), SumFunction(risky(x)),
                                      SumFunction(squares(x)), SumFunction(outside(x)))
  BY DEF PortfolioRiskScore
<1>10. \A x \in {r, s} :
         ValuationOf(x) = of(SumFunction(worth(x)), SumFunction(lendable(x)),
                             SumFunction(stressed(x)), PortfolioRiskScore(x))
  BY DEF ValuationOf
<1> HIDE DEF worth, lendable, stressed, risky, squares, outside, score, of
<1>11. PortfolioRiskScore(s) = PortfolioRiskScore(r)
  BY <1>3, <1>6, <1>7, <1>8, <1>9
<1>. QED BY <1>3, <1>4, <1>5, <1>10, <1>11

(* What is left of holdings once what is empty is dropped.                   *)
NotEmpty(h) == [i \in {i \in DOMAIN h : h[i] > 0} |-> h[i]]

LEMMA NotEmptyIs ==
  ASSUME NEW h
  PROVE  /\ DOMAIN NotEmpty(h) = {i \in DOMAIN h : h[i] > 0}
         /\ \A i \in DOMAIN NotEmpty(h) : NotEmpty(h)[i] = h[i]
         /\ DOMAIN NotEmpty(h) \in SUBSET DOMAIN h
BY DEF NotEmpty

LEMMA NotEmptyType ==
  ASSUME NEW h, AreHoldings(h)
  PROVE  AreHoldings(NotEmpty(h))
<1>1. IsFiniteSet(DOMAIN NotEmpty(h))
  BY NotEmptyIs, FS_Subset DEF AreHoldings
<1>. QED BY <1>1, NotEmptyIs DEF AreHoldings

LEMMA EmptyIsWorthless ==
  ASSUME NEW h, AreHoldings(h), NEW m, IsMarket(m), NEW i \in DOMAIN h, h[i] = 0,
         NEW total \in Nat
  PROVE  /\ Worth(h, m, i) = 0
         /\ AssetResult(h, m, i, total).worth = 0 /\ AssetResult(h, m, i, total).share = 0
         /\ AssetResult(h, m, i, total).lendable = 0
         /\ AssetResult(h, m, i, total).stressed = 0
<1>1. Worth(h, m, i) = 0
  <2>1. i \in Priced(h, m) => m[i.asset].price \in Nat
    BY DEF Priced, IsMarket, Quote
  <2>. QED BY <2>1 DEF Worth
<1>2. CASE i \notin Priced(h, m)
  BY <1>1, <1>2 DEF AssetResult
<1>3. CASE i \in Priced(h, m)
  <2> DEFINE quote   == m[i.asset]
             share   == IF total = 0 THEN 0 ELSE (100 * Worth(h, m, i)) \div total
             kept    == quote.kept * ConcentrationAdjustment(i.type, share)
                          * DataQualityAdjustment(quote)
             terms   == Terms[i.type]
             ltv     == Least((terms.base * (kept \div 10000)) \div 100, terms.cap)
             lent    == RoundMoney((Worth(h, m, i) * ltv) \div 100)
             stress  == RoundMoney((Worth(h, m, i) * quote.recovered) \div 100)
  <2>1. /\ AssetResult(h, m, i, total).worth = Worth(h, m, i)
        /\ AssetResult(h, m, i, total).share = share
        /\ AssetResult(h, m, i, total).lendable = IF Eligible(quote) THEN lent ELSE 0
        /\ AssetResult(h, m, i, total).stressed = IF Eligible(quote) THEN stress ELSE 0
    BY <1>3 DEF AssetResult
  <2>2. quote \in Quote /\ i.type \in DOMAIN Terms
    BY <1>3 DEF Priced, IsMarket, AreHoldings
  <2>3. terms.base \in Nat /\ terms.cap \in Nat
    BY <2>2, LendingTermsAssumption
  <2> HIDE DEF quote, terms
  <2>4. share = 0
    <3>1. total # 0 => 0 \div total = 0
      OBVIOUS
    <3>. QED BY <1>1, <3>1
  <2> HIDE DEF share
  <2>5. kept \in Nat
    <3>1. /\ quote.kept \in Nat /\ ConcentrationAdjustment(i.type, share) \in Nat
          /\ DataQualityAdjustment(quote) \in Nat
      BY <2>2, <2>4, AdjustmentsNat DEF Quote
    <3>. QED BY ONLY <3>1
  <2> HIDE DEF kept
  <2>6. ltv \in Nat
    <3>1. kept \div 10000 \in Nat
      BY <2>5, IntQuotient
    <3> DEFINE k == kept \div 10000
    <3>2. terms.base * k \in Nat
      BY <2>3, <3>1
    <3> HIDE DEF k
    <3>3. (terms.base * k) \div 100 \in Nat
      BY <3>2, IntQuotient
    <3>4. Least((terms.base * k) \div 100, terms.cap) \in Nat
      BY <2>3, <3>3 DEF Least
    <3>. QED BY <3>4 DEF k
  <2> HIDE DEF ltv
  <2>7. quote.recovered \in Nat
    BY <2>2 DEF Quote
  <2>8. (Worth(h, m, i) * ltv) \div 100 = 0 /\ (Worth(h, m, i) * quote.recovered) \div 100 = 0
    BY <1>1, <2>6, <2>7
  <2>9. lent = 0 /\ stress = 0
    BY <2>8, ZeroIsCents
  <2> HIDE DEF lent, stress
  <2>. QED BY <1>1, <2>1, <2>4, <2>9
<1>. QED BY <1>1, <1>2, <1>3

(* An empty lot of an asset of which nothing else is held counts for         *)
(* nothing.                                                                  *)
LEMMA EmptyDropped ==
  ASSUME NEW h, AreHoldings(h), NEW m, IsMarket(m),
         \A i \in DOMAIN h : h[i] = 0 => \A j \in DOMAIN h : j.asset = i.asset => j = i
  PROVE  Valued(NotEmpty(h), m) = Valued(h, m)
<1> DEFINE g == NotEmpty(h)
<1>1. /\ DOMAIN g = {i \in DOMAIN h : h[i] > 0} /\ \A i \in DOMAIN g : g[i] = h[i]
      /\ DOMAIN g \in SUBSET DOMAIN h
  BY NotEmptyIs
<1>2. AreHoldings(g)
  BY NotEmptyType
<1> HIDE DEF g
<1>3. \A i \in DOMAIN h : h[i] \in Nat
  BY DEF AreHoldings
<1>4. ASSUME NEW i \in DOMAIN g
      PROVE  i \in Priced(g, m) <=> i \in Priced(h, m)
  <2>1. ASSUME NEW j \in DOMAIN h, j.asset = i.asset, j \notin DOMAIN g
        PROVE  j = i
    <3>1. h[j] = 0 /\ i \in DOMAIN h
      BY <1>1, <1>3, <2>1
    <3>. QED BY <2>1, <3>1
  <2>. QED BY <1>1, <2>1 DEF Priced
<1>5. \A i \in DOMAIN g : Worth(g, m, i) = Worth(h, m, i)
  BY <1>1, <1>4 DEF Worth
<1>6. \A i \in DOMAIN h \ DOMAIN g : h[i] = 0
  BY <1>1, <1>3
<1>7. PortfolioValue(g, m) = PortfolioValue(h, m)
  <2> DEFINE f == [i \in DOMAIN h |-> Worth(h, m, i)]
             e == [i \in DOMAIN g |-> Worth(g, m, i)]
  <2>1. /\ DOMAIN f = DOMAIN h /\ \A i \in DOMAIN h : f[i] \in Int
        /\ DOMAIN e = DOMAIN g /\ \A i \in DOMAIN g : e[i] = f[i]
    BY <1>1, <1>5, WorthNat
  <2>2. \A i \in DOMAIN h \ DOMAIN g : f[i] = 0
    <3>1. 0 \in Nat
      OBVIOUS
    <3>. QED BY <1>6, <3>1, EmptyIsWorthless
  <2> HIDE DEF f, e
  <2>3. SumFunction(e) = SumFunction(f)
    BY <1>1, <2>1, <2>2, SumLeft DEF AreHoldings
  <2>. QED BY <2>3 DEF PortfolioValue, e, f
<1> DEFINE total == PortfolioValue(h, m)
           r == AssetResults(h, m)
           s == AssetResults(g, m)
<1>8. /\ DOMAIN r = DOMAIN h /\ \A i \in DOMAIN h : r[i] = AssetResult(h, m, i, total)
      /\ DOMAIN s = DOMAIN g /\ \A i \in DOMAIN g : s[i] = AssetResult(g, m, i, total)
  BY <1>7 DEF AssetResults
<1>9. total \in Nat
  BY PortfolioValueNat
<1>10. IsFiniteSet(DOMAIN r) /\ \A i \in DOMAIN r : IsResult(r[i])
  BY AssetResultsType
<1> HIDE DEF total, r, s
<1>11. \A i \in DOMAIN g : s[i] = r[i]
  <2> TAKE i \in DOMAIN g
  <2>1. AssetResult(g, m, i, total) = AssetResult(h, m, i, total)
    BY <1>4, <1>5 DEF AssetResult
  <2>. QED BY <1>1, <1>8, <2>1
<1>12. \A i \in DOMAIN r \ DOMAIN g : /\ r[i].worth = 0 /\ r[i].share = 0
                                      /\ r[i].lendable = 0 /\ r[i].stressed = 0
  BY <1>6, <1>8, <1>9, EmptyIsWorthless
<1>13. ValuationOf(s) = ValuationOf(r)
  BY <1>1, <1>8, <1>10, <1>11, <1>12, WorthlessDropped
<1>. QED BY <1>13, ValuedIs DEF r, s, g

(* The older gate's list of one action is that action's step.                *)
LEMMA EngineTakesOneStep ==
  ASSUME NEW h, NEW action
  PROVE  \E funds : EngineProjection(h, <<action>>)
                      = EngineStep([holdings |-> h, draw |-> 0, repay |-> 0, funds |-> funds],
                                   action)
<1> DEFINE list == <<action>>
           IsFunds(f) == f = [n \in 0..Len(list) |->
                                IF n = 0 THEN 0
                                ELSE f[n - 1] + IF list[n].kind = "draw"
                                                THEN StatedCash(list[n]) ELSE 0]
           funds == CHOOSE f : IsFunds(f)
           start == [holdings |-> h, draw |-> 0, repay |-> 0, funds |-> funds[Len(list)]]
           next(n, s) == UNION {EngineStep(p, list[n]) : p \in s}
           IsStates(f) == f = [n \in 0..Len(list) |-> IF n = 0 THEN {start}
                                                      ELSE next(n, f[n - 1])]
           states == CHOOSE f : IsStates(f)
<1>1. EngineProjection(h, list) = states[Len(list)]
  BY DEF EngineProjection
<1>2. Len(list) = 1 /\ list[1] = action
  OBVIOUS
<1>3. next(1, {start}) = EngineStep(start, action)
  <2> HIDE DEF start, list
  <2>. QED BY <1>2
<1> HIDE DEF funds, list
<1> HIDE DEF start, next
<1>4. IsStates([n \in 0..1 |-> IF n = 0 THEN {start} ELSE next(1, {start})])
  <2> DEFINE f == [n \in 0..1 |-> IF n = 0 THEN {start} ELSE next(1, {start})]
  <2>1. f[0] = {start} /\ \A n \in 0..1 : n = 0 \/ n = 1
    OBVIOUS
  <2>2. \A n \in 0..1 : f[n] = IF n = 0 THEN {start} ELSE next(n, f[n - 1])
    BY <2>1
  <2>. QED BY <1>2, <2>2
<1>5. IsStates(states)
  <2> HIDE DEF IsStates
  <2>. QED BY <1>4
<1>6. states[0] = {start} /\ states[1] = next(1, states[0])
  <2> HIDE DEF states
  <2>. QED BY <1>2, <1>5
<1> HIDE DEF states
<1>7. EngineProjection(h, list) = EngineStep(start, action)
  BY <1>1, <1>2, <1>3, <1>6
<1>. QED BY <1>7 DEF start, list

(* Where the type is left open both gates change the same holding, the one   *)
(* of its asset.                                                             *)
OnlyOne(h, i) == i \in DOMAIN h /\ \A j \in DOMAIN h : j.asset = i.asset => j = i

LEMMA DeltasAgree ==
  ASSUME NEW h, NEW asset, NEW delta, NEW k \in HoldingDelta(h, asset, "any", delta)
  PROVE  /\ EngineDelta(h, asset, "any", delta) = {k}
         /\ \E i : OnlyOne(h, i) /\ k = [h EXCEPT ![i] = @ + delta]
<1> DEFINE candidates == {i \in DOMAIN h : i.asset = asset}
<1>1. candidates # {} /\ \E i \in candidates : /\ candidates = {i} /\ h[i] + delta >= 0
                                               /\ k = [h EXCEPT ![i] = @ + delta]
  BY DEF HoldingDelta
<1>2. PICK i \in candidates : /\ candidates = {i} /\ h[i] + delta >= 0
                              /\ k = [h EXCEPT ![i] = @ + delta]
  BY <1>1
<1> DEFINE changed(j) == [h EXCEPT ![j] = @ + delta]
<1>3. EngineDelta(h, asset, "any", delta)
        = {changed(j) : j \in {j \in candidates : candidates = {j} /\ h[j] + delta >= 0}}
  BY <1>1 DEF EngineDelta
<1>4. {j \in candidates : candidates = {j} /\ h[j] + delta >= 0} = {i}
  BY <1>2
<1>5. OnlyOne(h, i)
  BY <1>2 DEF OnlyOne
<1>6. k = changed(i)
  BY <1>2
<1> HIDE DEF candidates, changed
<1>7. EngineDelta(h, asset, "any", delta) = {k}
  BY <1>3, <1>4, <1>6
<1>. QED BY <1>5, <1>6, <1>7 DEF changed

LEMMA OneQuantity ==
  ASSUME NEW action, NEW side, NEW q \in AssetQuantity(action, side)
  PROVE  AssetQuantity(action, side) = {q}
BY DEF AssetQuantity, QuantityFor

(* A holding moved out or in, by the one gate and by the other.              *)
LEMMA MovesAgree ==
  ASSUME NEW h, NEW action, action.type = "any",
         NEW sign, NEW q \in AssetQuantity(action, "sell"),
         NEW k \in HoldingDelta(h, action.asset, "any", sign * q),
         \/ action.kind \in {"sell", "withdraw_security"} /\ sign = -1
         \/ action.kind = "transfer_security" /\ sign = IF action.inward THEN 1 ELSE -1
  PROVE  \E p : /\ EngineProjection(h, <<action>>) = {p}
                /\ p.holdings = k /\ p.draw = 0 /\ p.repay = 0
<1>1. PICK funds : EngineProjection(h, <<action>>)
                     = EngineStep([holdings |-> h, draw |-> 0, repay |-> 0, funds |-> funds],
                                  action)
  BY EngineTakesOneStep
<1> DEFINE start == [holdings |-> h, draw |-> 0, repay |-> 0, funds |-> funds]
           moved == UNION {{[start EXCEPT !.holdings = g] :
                              g \in EngineDelta(h, action.asset, "any", sign * x)} :
                           x \in AssetQuantity(action, "sell")}
<1>2. EngineStep(start, action) = moved
  BY DEF EngineStep
<1>3. moved = {[start EXCEPT !.holdings = k]}
  <2>1. AssetQuantity(action, "sell") = {q}
    BY OneQuantity
  <2>2. EngineDelta(h, action.asset, "any", sign * q) = {k}
    BY DeltasAgree
  <2> HIDE DEF start
  <2>. QED BY <2>1, <2>2
<1> DEFINE p == [start EXCEPT !.holdings = k]
<1>4. p.holdings = k /\ p.draw = 0 /\ p.repay = 0
  OBVIOUS
<1>5. EngineProjection(h, <<action>>) = {p}
  BY <1>1, <1>2, <1>3
<1> HIDE DEF p
<1>. QED BY <1>4, <1>5

LEMMA RepaymentsAgree ==
  ASSUME NEW h, NEW action \in Actions, action.kind = "repay", StatedCash(action) > 0
  PROVE  \E p : /\ EngineProjection(h, <<action>>) = {p}
                /\ p.holdings = h /\ p.draw = 0 /\ p.repay = StatedCash(action)
<1>1. PICK funds : EngineProjection(h, <<action>>)
                     = EngineStep([holdings |-> h, draw |-> 0, repay |-> 0, funds |-> funds],
                                  action)
  BY EngineTakesOneStep
<1> DEFINE start == [holdings |-> h, draw |-> 0, repay |-> 0, funds |-> funds]
           c == StatedCash(action)
           p == [start EXCEPT !.repay = c]
<1>2. c \in Nat
  BY ActionsAssumption DEF StatedCash
<1>3. EngineStep(start, action) = {[start EXCEPT !.repay = @ + x] : x \in {x \in {c} : x > 0}}
  BY DEF EngineStep
<1>4. {x \in {c} : x > 0} = {c}
  OBVIOUS
<1> HIDE DEF c
<1>5. EngineStep(start, action) = {p}
  BY <1>2, <1>3, <1>4
<1>6. p.holdings = h /\ p.draw = 0 /\ p.repay = c
  OBVIOUS
<1>7. EngineProjection(h, <<action>>) = {p}
  BY <1>1, <1>5
<1> HIDE DEF p
<1>. QED BY <1>6, <1>7 DEF c

(* What both gates make of an action they share, and of the loan.            *)
LEMMA ProjectionsAgree ==
  ASSUME IsMarket(market), NEW a, IsAccount(a), CentsLoan(a.loan), HoldsLotsOnly(a),
         NEW action \in Actions, action.kind \in Shared, action.type = "any",
         action.kind = "sell" => action.withdraw, InCents(action),
         NEW b \in Projected(a, action)
  PROVE  \E k, p : /\ AreHoldings(k) /\ b.holdings = NotEmpty(k) /\ b.cash = 0
                   /\ \A i \in DOMAIN k : i.asset # "pledged_cash"
                   /\ \A i \in DOMAIN k : k[i] = 0 => OnlyOne(k, i)
                   /\ EngineProjection(a.holdings, <<action>>) = {p}
                   /\ p.holdings = k /\ p.draw = 0
                   /\ Excess(Balance(a.loan), p.repay) = Balance(b.loan)
<1> DEFINE left(c) == [c EXCEPT !.holdings =
                         [i \in {i \in DOMAIN @ : @[i] > 0} |-> @[i]]]
           h == a.holdings
           sign == IF Inward(action) THEN 1 ELSE -1
<1>1. PICK c : /\ IF action.kind = "repay" THEN c \in Repay(a, action)
                  ELSE IF action.kind = "sell" THEN c \in Sell(a, action)
                  ELSE c \in Move(a, action)
               /\ b = left(c)
  BY DEF Projected, Shared
<1>2. /\ DOMAIN a = {"holdings", "cash", "loan"} /\ AreHoldings(h) /\ AreLots(h)
      /\ a.cash = 0 /\ a.loan \in Loan
  BY HoldingsAreLots DEF IsAccount, HoldsLotsOnly
<1>3. \A i \in DOMAIN h : i.asset # "pledged_cash" /\ h[i] > 0
  BY DEF HoldsLotsOnly
<1>4. Balance(a.loan) \in Nat
  BY <1>2, BalanceNat
<1>5. CASE action.kind = "repay"
  <2> DEFINE l == RoundLoan(ApplyRepayment(a.loan, CashAmount(action)))
  <2>1. c = [a EXCEPT !.loan = l]
    BY <1>1, <1>5 DEF Repay
  <2>2. Balance(l) = Excess(Balance(a.loan), CashAmount(action))
    <3>1. StatedCash(action) \in Nat
      BY ActionsAssumption DEF StatedCash
    <3>2. IsCents(CashAmount(action))
      BY <3>1, MoneyIsCents DEF CashAmount
    <3>. QED BY <1>2, <3>2, RepaidBalance
  <2> HIDE DEF l
  <2>3. DOMAIN c = DOMAIN a /\ c.holdings = h /\ c.cash = 0 /\ c.loan = l
    BY ONLY <1>2, <2>1
  <2>4. b.holdings = NotEmpty(h) /\ b.cash = 0 /\ b.loan = l
    BY <1>1, <1>2, <2>3 DEF NotEmpty
  <2>5. PICK p : /\ EngineProjection(h, <<action>>) = {p}
                 /\ p.holdings = h /\ p.draw = 0 /\ p.repay = CashAmount(action)
    <3>1. StatedCash(action) > 0 /\ CashAmount(action) = StatedCash(action)
      BY <1>1, <1>5 DEF Repay, InCents
    <3>. QED BY <1>5, <3>1, RepaymentsAgree
  <2>. QED BY <1>2, <1>3, <2>2, <2>4, <2>5
<1>6. CASE action.kind # "repay"
  <2>1. \E q \in AssetQuantity(action, "sell") :
          \E k \in HoldingDelta(h, action.asset, "any", IF Inward(action) THEN q ELSE -q) :
            \/ c = [a EXCEPT !.holdings = k]
            \/ c = [a EXCEPT !.holdings = k, !.cash = @]
    <3>1. CASE action.kind = "sell"
      <4> DEFINE after(k) == [a EXCEPT !.holdings = k, !.cash = @]
      <4>1. action.withdraw /\ ~Inward(action)
        BY <3>1 DEF Inward
      <4>2. Sell(a, action) = UNION {{after(k) : k \in HoldingDelta(h, action.asset, "any", -q)} :
                                     q \in IF Tradable(action.asset, "sell")
                                           THEN AssetQuantity(action, "sell") ELSE {}}
        BY <4>1 DEF Sell
      <4> HIDE DEF after
      <4>3. \E q \in AssetQuantity(action, "sell") :
              \E k \in HoldingDelta(h, action.asset, "any", -q) : c = after(k)
        BY <1>1, <3>1, <4>2
      <4>4. \E q \in AssetQuantity(action, "sell") :
              \E k \in HoldingDelta(h, action.asset, "any", IF Inward(action) THEN q ELSE -q) :
                c = after(k)
        BY <4>1, <4>3
      <4>. QED BY <4>4 DEF after
    <3>2. CASE action.kind # "sell"
      <4>1. c \in Move(a, action)
        BY <1>1, <1>6, <3>2
      <4> DEFINE after(k) == [a EXCEPT !.holdings = k]
                 ways(q) == HoldingDelta(h, action.asset, "any", IF Inward(action) THEN q ELSE -q)
      <4>2. Move(a, action) = UNION {{after(k) : k \in ways(q)} :
                                     q \in AssetQuantity(action, "sell")}
        BY DEF Move
      <4> HIDE DEF after, ways
      <4>3. \E q \in AssetQuantity(action, "sell") : \E k \in ways(q) : c = after(k)
        BY <4>1, <4>2
      <4>. QED BY <4>3 DEF after, ways
    <3>. QED BY <3>1, <3>2
  <2>2. PICK q \in AssetQuantity(action, "sell") :
          \E k \in HoldingDelta(h, action.asset, "any", IF Inward(action) THEN q ELSE -q) :
            \/ c = [a EXCEPT !.holdings = k]
            \/ c = [a EXCEPT !.holdings = k, !.cash = @]
    BY <2>1
  <2>3. PICK k \in HoldingDelta(h, action.asset, "any", IF Inward(action) THEN q ELSE -q) :
               \/ c = [a EXCEPT !.holdings = k]
               \/ c = [a EXCEPT !.holdings = k, !.cash = @]
    BY <2>2
  <2>4. q \in Nat
    BY QuantitiesNat
  <2>5. (IF Inward(action) THEN q ELSE -q) = sign * q /\ sign * q \in Int
    BY <2>4
  <2>6. k \in HoldingDelta(h, action.asset, "any", sign * q)
    BY <2>3, <2>5
  <2>7. \/ action.kind \in {"sell", "withdraw_security"} /\ sign = -1
        \/ action.kind = "transfer_security" /\ sign = IF action.inward THEN 1 ELSE -1
    BY <1>6 DEF Inward, Shared
  <2> HIDE DEF sign
  <2>8. PICK p : /\ EngineProjection(h, <<action>>) = {p}
                 /\ p.holdings = k /\ p.draw = 0 /\ p.repay = 0
    BY <2>6, <2>7, MovesAgree
  <2>9. PICK i : OnlyOne(h, i) /\ k = [h EXCEPT ![i] = @ + sign * q]
    BY <2>6, DeltasAgree
  <2>10. AreLots(k)
    BY <1>2, <2>5, <2>6, HoldingDeltaType
  <2>11. AreHoldings(k)
    BY <2>10 DEF AreLots, AreHoldings
  <2>12. DOMAIN k = DOMAIN h /\ \A j \in DOMAIN h : j # i => k[j] = h[j]
    BY <2>9
  <2>13. /\ \A j \in DOMAIN k : j.asset # "pledged_cash"
         /\ \A j \in DOMAIN k : k[j] = 0 => OnlyOne(k, j)
    <3>1. OnlyOne(k, i)
      BY <2>9, <2>12 DEF OnlyOne
    <3>2. \A j \in DOMAIN k : k[j] = 0 => j = i
      BY <1>3, <2>12
    <3>. QED BY <1>3, <2>12, <3>1, <3>2
  <2>14. DOMAIN c = DOMAIN a /\ c.holdings = k /\ c.cash = 0 /\ c.loan = a.loan
    BY ONLY <1>2, <2>3
  <2>15. b.holdings = NotEmpty(k) /\ b.cash = 0 /\ b.loan = a.loan
    BY <1>1, <1>2, <2>14 DEF NotEmpty
  <2>16. Excess(Balance(a.loan), p.repay) = Balance(b.loan)
    BY <1>4, <2>8, <2>15 DEF Excess
  <2>. QED BY <2>8, <2>11, <2>13, <2>15, <2>16
<1>. QED BY <1>5, <1>6

(* Only the quotes of what is held count.                                    *)
LEMMA SameQuotes ==
  ASSUME NEW h, NEW m, NEW w,
         \A i \in DOMAIN h : i.asset \in DOMAIN m <=> i.asset \in DOMAIN w,
         \A i \in DOMAIN h : i.asset \in DOMAIN m => m[i.asset] = w[i.asset]
  PROVE  Valued(h, m) = Valued(h, w)
<1>1. \A i \in DOMAIN h : i \in Priced(h, m) <=> i \in Priced(h, w)
  BY DEF Priced
<1>2. \A i \in DOMAIN h : i \in Priced(h, m) => m[i.asset] = w[i.asset]
  BY DEF Priced
<1>3. \A i \in DOMAIN h : Worth(h, m, i) = Worth(h, w, i)
  BY <1>1, <1>2 DEF Worth
<1>4. PortfolioValue(h, m) = PortfolioValue(h, w)
  BY <1>3 DEF PortfolioValue
<1> DEFINE total == PortfolioValue(h, m)
<1>5. AssetResults(h, m) = [i \in DOMAIN h |-> AssetResult(h, m, i, total)]
  BY DEF AssetResults
<1>6. AssetResults(h, w) = [i \in DOMAIN h |-> AssetResult(h, w, i, total)]
  BY <1>4 DEF AssetResults
<1> HIDE DEF total
<1>7. \A i \in DOMAIN h : AssetResult(h, m, i, total) = AssetResult(h, w, i, total)
  BY <1>1, <1>2, <1>3 DEF AssetResult
<1>8. AssetResults(h, m) = AssetResults(h, w)
  BY <1>5, <1>6, <1>7
<1>. QED BY <1>8, ValuedIs

(* Without pledged cash among the holdings its quote does not count.         *)
LEMMA CashQuoteUnused ==
  ASSUME NEW h, \A i \in DOMAIN h : i.asset # "pledged_cash"
  PROVE  Valued(h, MarketWithCash) = Valued(h, market)
<1> DEFINE m == MarketWithCash
<1>1. /\ DOMAIN m = DOMAIN market \cup {"pledged_cash"}
      /\ \A asset \in DOMAIN market : m[asset] = market[asset]
  BY DEF MarketWithCash
<1> HIDE DEF m
<1>2. Valued(h, m) = Valued(h, market)
  BY <1>1, SameQuotes
<1>. QED BY <1>2 DEF m

LEMMA PassesOlderGate ==
  ASSUME IsMarket(market), NEW a, IsAccount(a), CentsLoan(a.loan), HoldsLotsOnly(a),
         NEW action \in Actions, action.kind \in Shared, action.type = "any",
         action.kind = "sell" => action.withdraw, InCents(action),
         NEW b \in Projected(a, action), CanAssess(a), CanAssess(b), NEW pre, NEW preLoan,
         ActionDecision(pre, preLoan, CollateralOf(b), b.loan) \in Passing
  PROVE  EngineAnswer(a, <<action>>) = "approve"
<1> DEFINE v == CollateralOf(b)
           owed == Balance(b.loan)
<1>1. PICK k, p : /\ AreHoldings(k) /\ b.holdings = NotEmpty(k) /\ b.cash = 0
                  /\ \A i \in DOMAIN k : i.asset # "pledged_cash"
                  /\ \A i \in DOMAIN k : k[i] = 0 => OnlyOne(k, i)
                  /\ EngineProjection(a.holdings, <<action>>) = {p}
                  /\ p.holdings = k /\ p.draw = 0
                  /\ Excess(Balance(a.loan), p.repay) = owed
  BY ProjectionsAgree
<1>2. IsAccount(b) /\ CentsLoan(b.loan) /\ b.loan \in Loan /\ v \in Valuation
  BY ProjectedType, CollateralType DEF IsAccount
<1>3. v = Valued(k, market)
  <2>1. v = Valued(NotEmpty(k), MarketWithCash)
    BY <1>1 DEF CollateralOf, WithCash
  <2>2. Valued(NotEmpty(k), MarketWithCash) = Valued(NotEmpty(k), market)
    <3>1. \A i \in DOMAIN NotEmpty(k) : i.asset # "pledged_cash"
      BY <1>1, NotEmptyIs
    <3>. QED BY <3>1, CashQuoteUnused
  <2>3. Valued(NotEmpty(k), market) = Valued(k, market)
    BY <1>1, EmptyDropped DEF OnlyOne
  <2>. QED BY <2>1, <2>2, <2>3
<1> HIDE DEF v
<1>4. EngineAnswer(a, <<action>>) = EngineDecision(v, owed, 0)
  <2> DEFINE projections == EngineProjection(a.holdings, <<action>>)
             q == CHOOSE q \in projections : TRUE
             left == Excess(Balance(a.loan), q.repay)
  <2>1. EngineAnswer(a, <<action>>)
          = IF ~Assessable(a.holdings, Valued(a.holdings, market), Balance(a.loan))
            THEN "refused"
            ELSE IF projections = {} THEN "reject"
            ELSE IF ~Assessable(q.holdings, Valued(q.holdings, market), left + q.draw)
            THEN "refused"
            ELSE EngineDecision(Valued(q.holdings, market), left, q.draw)
    BY DEF EngineAnswer
  <2>2. projections = {p} /\ q = p
    BY <1>1
  <2> HIDE DEF projections, q
  <2>3. projections # {}
    BY <2>2
  <2>4. Assessable(a.holdings, Valued(a.holdings, market), Balance(a.loan))
    <3>1. a.cash = 0 /\ \A i \in DOMAIN a.holdings : i.asset # "pledged_cash"
      BY DEF HoldsLotsOnly
    <3>2. Valued(a.holdings, MarketWithCash) = Valued(a.holdings, market)
      BY <3>1, CashQuoteUnused
    <3>3. CollateralOf(a) = Valued(a.holdings, market) /\ WithCash(a.holdings, a.cash) = a.holdings
      BY <3>1, <3>2 DEF CollateralOf, WithCash
    <3>. QED BY <3>3 DEF CanAssess
  <2>5. left + q.draw = owed
    BY <1>1, <1>2, <2>2, BalanceNat
  <2>6. Assessable(k, v, owed)
    <3>1. WithCash(b.holdings, b.cash) = NotEmpty(k)
      BY <1>1 DEF WithCash
    <3>2. Assessable(NotEmpty(k), v, owed)
      BY <3>1 DEF CanAssess, v
    <3>3. DOMAIN NotEmpty(k) \subseteq DOMAIN k
      BY DEF NotEmpty
    <3>. QED BY <3>2, <3>3 DEF Assessable
  <2>. QED BY <1>1, <1>3, <2>1, <2>2, <2>3, <2>4, <2>5, <2>6
<1>5. owed = 0 \/ (MarginState(v, owed) = "safe" /\ owed <= SafeCreditLimit(v))
  <2>1. RoundMoney(owed) = owed /\ owed \in Nat /\ SafeCreditLimit(v) \in Nat
    BY <1>2, CentsBalance, CentsStay, BalanceNat, SafeCreditLimitNat
  <2>2. ActionDecision(pre, preLoan, v, b.loan) \in Passing
    BY DEF v
  <2>3. \/ ActionDecision(pre, preLoan, v, b.loan) \in AlarmStates \cup {"reject"}
        \/ owed = 0
        \/ MarginState(v, owed) = "safe" /\ ~(owed > SafeCreditLimit(v))
    BY <2>1 DEF ActionDecision
  <2>. QED BY <2>1, <2>2, <2>3 DEF AlarmStates, Passing
<1>. QED BY <1>2, <1>4, <1>5, SafePassesOlderGate

(* GatesAgree as a relation of two states.                                   *)
AgreeOnShared ==
  /\ market' = market
  /\ HoldsLotsOnly(account)
  /\ answer'.action.kind \in Shared /\ answer'.action.type = "any"
  /\ answer'.action.kind = "sell" => answer'.action.withdraw
  /\ InCents(answer'.action)
  /\ answer'.decision \in Passing
  => EngineAnswer(account, <<answer'.action>>) = "approve"

(* GatesAgree: on an account of lots alone, the older gate approves what the *)
(* lifecycle check lets pass, for the actions both know.  The whole cents,   *)
(* of the loans and of a repayment, matter: the two gates round different    *)
(* amounts before they compare them.                                         *)
THEOREM TheGatesAgree ==
  ASSUME WholeCents
  PROVE  Spec => GatesAgree
<1>1. TypeOK /\ BookedInv /\ [Next]_vars => [AgreeOnShared]_vars
  <2> SUFFICES ASSUME BookedInv, Next, market' = market, HoldsLotsOnly(account),
                      answer'.action.kind \in Shared, answer'.action.type = "any",
                      answer'.action.kind = "sell" => answer'.action.withdraw,
                      InCents(answer'.action), answer'.decision \in Passing
               PROVE  EngineAnswer(account, <<answer'.action>>) = "approve"
    BY DEF AgreeOnShared
  <2>1. IsMarket(market) /\ IsAccount(account) /\ CentsLoan(account.loan)
    BY MarketsAssumption DEF BookedInv, TypeOK, IsMarket
  <2>2. PICK action \in Actions : CheckDrawAction(action) \/ CheckPortfolioAction(action)
    BY DEF Next, Revalue
  <2>3. answer'.action = action
    BY <2>2 DEF CheckDrawAction, CheckPortfolioAction, Refused
  <2>4. CheckPortfolioAction(action)
    BY <2>2, <2>3 DEF CheckDrawAction, Shared
  <2>5. answer' # Refused(action)
    BY RefusedType DEF Passing
  <2>6. PICK b \in Projected(account, action) :
          /\ CanAssess(account) /\ CanAssess(b)
          /\ answer'.decision = ActionDecision(CollateralOf(account), account.loan,
                                               CollateralOf(b), b.loan)
    BY <2>4, <2>5 DEF CheckPortfolioAction
  <2>. QED BY <2>1, <2>3, <2>6, PassesOlderGate
<1>2. [][AgreeOnShared]_vars <=> GatesAgree
  BY DEF GatesAgree, AgreeOnShared
<1>. QED BY <1>1, <1>2, BookedAccounts, PTL DEF Spec
=============================================================================
