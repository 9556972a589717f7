---------------------------- MODULE CartRulesProofs ----------------------------
(***************************************************************************)
(* What the rules of carts compute, for carts of any length: totals and    *)
(* quantities are numbers that cover each line, an edit leaves one line    *)
(* per variant, and a discount is no more than the total.  They rest on    *)
(* lemmas about sums over any finite set, by induction: a set that is      *)
(* smallest among the counterexamples is none.                             *)
(***************************************************************************)
EXTENDS CartRules, FiniteSetTheorems, SequenceTheorems, WellFoundedInduction, TLAPS

------------------------------------------------------------------------------
\* Induction over finite sets and numbers, without a predicate as a parameter.

\* Among finite sets there is one that none of the others is part of.
LEMMA FiniteMinimum ==
  ASSUME NEW T, T # {}, \A s \in T : IsFiniteSet(s)
  PROVE  \E s \in T : \A r \in T : r \subseteq s => r = s
<1> DEFINE S == UNION T
<1>1. T \subseteq FiniteSubsetsOf(S)
  BY DEF FiniteSubsetsOf
<1>2. PICK s \in T : \A r \in T : <<r, s>> \notin StrictSubsetOrdering(S)
  BY ONLY T # {}, <1>1, FS_StrictSubsetOrderingWellFounded, WFMin
<1>3. ASSUME NEW r \in T, r \subseteq s PROVE r = s
  BY <1>2, <1>3 DEF StrictSubsetOrdering
<1> QED
  BY <1>3

\* What holds 0, and with a number the next, holds all of them: the elements of 1 .. n
\* are taken away one at a time.
LEMMA NatSetInduction ==
  ASSUME NEW F, 0 \in F, \A n \in Nat : n \in F => n + 1 \in F
  PROVE  \A n \in Nat : n \in F
<1> SUFFICES ASSUME NEW n \in Nat, n \notin F PROVE FALSE
  OBVIOUS
<1> DEFINE T == {s \in SUBSET (1 .. n) : Cardinality(s) \notin F}
<1>1. IsFiniteSet(1 .. n) /\ Cardinality(1 .. n) = n
  BY FS_Interval
<1>2. \A s \in SUBSET (1 .. n) : IsFiniteSet(s) /\ Cardinality(s) \in Nat
  BY <1>1, FS_Subset, FS_CardinalityType
<1>3. 1 .. n \in T
  BY <1>1
<1>4. PICK s \in T : \A r \in T : r \subseteq s => r = s
  <2>1. T # {} /\ \A s \in T : IsFiniteSet(s)
    BY <1>2, <1>3
  <2> HIDE DEF T
  <2> QED
    BY <2>1, FiniteMinimum
<1>5. s # {}
  BY <1>4, FS_EmptySet
<1>6. PICK x \in s : TRUE
  BY <1>5
<1>7. Cardinality(s \ {x}) = Cardinality(s) - 1 /\ s \ {x} \in SUBSET (1 .. n)
  BY <1>2, FS_RemoveElement
<1>8. s \ {x} \notin T
  BY <1>4, <1>6
<1>9. Cardinality(s \ {x}) \in F /\ Cardinality(s \ {x}) \in Nat
  BY <1>2, <1>7, <1>8
<1>10. Cardinality(s) = Cardinality(s \ {x}) + 1
  BY <1>2, <1>7
<1> QED
  BY <1>4, <1>9, <1>10

\* The element a fold takes first.
First(s) == CHOOSE x \in s : TRUE

\* The function that SumFunctionOnSet chooses for S.
IsSumming(g, fun, D) ==
  g = [s \in D |-> IF s = {} THEN 0
                   ELSE fun[First(s)] + g[s \ {First(s)}]]

Summing(fun, S) == CHOOSE g : IsSumming(g, fun, SUBSET S)

\* A sum is the recursive function's value, which has a name here.
LEMMA SumIsSumming ==
  ASSUME NEW fun, NEW S
  PROVE  SumFunctionOnSet(fun, S) = Summing(fun, S)[S]
BY DEF SumFunctionOnSet, FoldFunctionOnSet, MapThenFoldSet, Summing, IsSumming, First

\* A fold's recursion has a solution: for sets of up to 0, 1, 2, ... elements.
LEMMA SummingExists ==
  ASSUME NEW fun, NEW S, IsFiniteSet(S)
  PROVE  \E g : IsSumming(g, fun, SUBSET S)
<1> DEFINE Upto(n) == {s \in SUBSET S : Cardinality(s) <= n}
           F == {n \in Nat : \E g : IsSumming(g, fun, Upto(n))}
<1>1. \A s \in SUBSET S : IsFiniteSet(s) /\ Cardinality(s) \in Nat /\ Cardinality(s) <= Cardinality(S)
  BY FS_Subset, FS_CardinalityType
<1>2. \A s \in SUBSET S : s # {} =>
        /\ First(s) \in s /\ s \ {First(s)} \in SUBSET S
        /\ Cardinality(s \ {First(s)}) = Cardinality(s) - 1
  <2>1. \A s : s # {} => First(s) \in s
    BY DEF First
  <2> QED
    BY <1>1, <2>1, FS_RemoveElement
<1>3. 0 \in F
  <2> DEFINE g == [s \in Upto(0) |-> 0]
  <2>1. \A s \in Upto(0) : s = {}
    BY <1>1, FS_EmptySet
  <2>2. IsSumming(g, fun, Upto(0))
    BY <2>1 DEF IsSumming
  <2> QED
    BY <2>2
<1>4. ASSUME NEW n \in Nat, n \in F PROVE n + 1 \in F
  <2>1. PICK g : IsSumming(g, fun, Upto(n))
    BY <1>4
  <2> DEFINE h == [s \in Upto(n + 1) |-> IF s = {} THEN 0
                                         ELSE fun[First(s)] + g[s \ {First(s)}]]
  <2>2. \A s \in Upto(n) : s \in Upto(n + 1)
    BY <1>1
  <2>5. \A s \in Upto(n) : h[s] = g[s]
    <3>1. \A s \in Upto(n) : g[s] = IF s = {} THEN 0 ELSE fun[First(s)] + g[s \ {First(s)}]
      BY ONLY IsSumming(g, fun, Upto(n)) DEF IsSumming
    <3> HIDE DEF Upto
    <3> QED
      BY <2>2, <3>1
  <2>3. \A s \in Upto(n + 1) : s # {} => s \ {First(s)} \in Upto(n)
    BY <1>1, <1>2
  <2>4. IsSumming(h, fun, Upto(n + 1))
    <3>1. \A s \in Upto(n + 1) : s # {} => g[s \ {First(s)}] = h[s \ {First(s)}]
      BY <2>5, <2>3
    <3> DEFINE k == [s \in Upto(n + 1) |-> IF s = {} THEN 0
                                           ELSE fun[First(s)] + h[s \ {First(s)}]]
    <3>2. \A s \in Upto(n + 1) : h[s] = k[s]
      <4> HIDE DEF Upto
      <4>1. \A s \in Upto(n + 1) : h[s] = IF s = {} THEN 0 ELSE fun[First(s)] + g[s \ {First(s)}]
        OBVIOUS
      <4> HIDE DEF h
      <4> QED
        BY <3>1, <4>1
    <3>3. h = k
      <4> HIDE DEF Upto
      <4>1. DOMAIN h = Upto(n + 1) /\ DOMAIN k = Upto(n + 1) /\ h = [s \in DOMAIN h |-> h[s]] /\ k = [s \in DOMAIN k |-> k[s]]
        OBVIOUS
      <4> HIDE DEF h, k
      <4> QED
        BY <3>2, <4>1
    <3> QED
      BY <3>3 DEF IsSumming
  <2> HIDE DEF h, Upto
  <2> QED
    BY <2>4
<1>5. Cardinality(S) \in F
  <2> HIDE DEF F
  <2>1. \A n \in Nat : n \in F
    BY <1>3, <1>4, NatSetInduction
  <2> QED
    BY <1>1, <2>1
<1>6. Upto(Cardinality(S)) = SUBSET S
  BY <1>1
<1> QED
  BY <1>5, <1>6

\* The function does what its recursion says.
LEMMA SummingUnfolds ==
  ASSUME NEW fun, NEW S, IsFiniteSet(S), NEW s \in SUBSET S
  PROVE  Summing(fun, S)[s] =
           IF s = {} THEN 0
           ELSE fun[First(s)] + Summing(fun, S)[s \ {First(s)}]
<1> DEFINE g == Summing(fun, S)
<1>1. IsSumming(g, fun, SUBSET S)
  BY SummingExists DEF Summing
<1> HIDE DEF g
<1>2. \A r \in SUBSET S : g[r] = IF r = {} THEN 0
                                 ELSE fun[First(r)] + g[r \ {First(r)}]
  BY ONLY IsSumming(g, fun, SUBSET S) DEF IsSumming
<1> QED
  BY <1>2 DEF g

\* What the function has for a set does not depend on the set it was chosen for.
LEMMA SummingAgrees ==
  ASSUME NEW fun, NEW S, IsFiniteSet(S), NEW s \in SUBSET S
  PROVE  Summing(fun, S)[s] = SumFunctionOnSet(fun, s)
<1> DEFINE T == {r \in SUBSET S : \E A \in SUBSET S : r \subseteq A /\ Summing(fun, A)[r] # Summing(fun, r)[r]}
<1>1. \A r \in SUBSET S : IsFiniteSet(r)
  BY FS_Subset
<1>2. ASSUME T # {} PROVE FALSE
  <2>1. PICK r \in T : \A q \in T : q \subseteq r => q = r
    <3>1. \A r \in T : IsFiniteSet(r)
      BY <1>1
    <3> HIDE DEF T
    <3> QED
      BY <1>2, <3>1, FiniteMinimum
  <2>2. PICK A \in SUBSET S : r \subseteq A /\ Summing(fun, A)[r] # Summing(fun, r)[r]
    OBVIOUS
  <2> DEFINE c == First(r)
  <2>3. /\ Summing(fun, A)[r] = IF r = {} THEN 0 ELSE fun[c] + Summing(fun, A)[r \ {c}]
        /\ Summing(fun, r)[r] = IF r = {} THEN 0 ELSE fun[c] + Summing(fun, r)[r \ {c}]
    BY <1>1, <2>2, SummingUnfolds
  <2>4. r # {} /\ c \in r
    BY <2>2, <2>3 DEF First
  <2> HIDE DEF c
  <2>5. r \ {c} \notin T
    BY <2>1, <2>4
  <2>6. /\ Summing(fun, A)[r \ {c}] = Summing(fun, r \ {c})[r \ {c}]
        /\ Summing(fun, r)[r \ {c}] = Summing(fun, r \ {c})[r \ {c}]
    BY <2>2, <2>5
  <2> QED
    BY <2>2, <2>3, <2>6
<1>3. Summing(fun, S)[s] = Summing(fun, s)[s]
  BY <1>2
<1> QED
  BY <1>3, SumIsSumming

\* The sum of nothing.
LEMMA SumOfNone ==
  ASSUME NEW fun
  PROVE  SumFunctionOnSet(fun, {}) = 0
BY FS_EmptySet, SummingUnfolds, SumIsSumming

\* A sum is one of its values and the sum of the others.
LEMMA SumUnfolds ==
  ASSUME NEW fun, NEW S, IsFiniteSet(S), S # {}
  PROVE  \E x \in S : SumFunctionOnSet(fun, S) = fun[x] + SumFunctionOnSet(fun, S \ {x})
<1> DEFINE c == First(S)
<1>1. c \in S
  BY DEF First
<1>2. Summing(fun, S)[S] = fun[c] + Summing(fun, S)[S \ {c}]
  BY SummingUnfolds
<1> HIDE DEF c
<1>3. Summing(fun, S)[S] = SumFunctionOnSet(fun, S) /\ Summing(fun, S)[S \ {c}] = SumFunctionOnSet(fun, S \ {c})
  BY SummingAgrees
<1> QED
  BY <1>1, <1>2, <1>3

\* A sum of numbers is a number.
LEMMA SumIsNat ==
  ASSUME NEW fun, NEW S, IsFiniteSet(S), \A x \in S : fun[x] \in Nat
  PROVE  SumFunctionOnSet(fun, S) \in Nat
<1> DEFINE T == {r \in SUBSET S : SumFunctionOnSet(fun, r) \notin Nat}
<1>1. \A r \in SUBSET S : IsFiniteSet(r)
  BY FS_Subset
<1>2. ASSUME T # {} PROVE FALSE
  <2>1. PICK r \in T : \A q \in T : q \subseteq r => q = r
    <3>1. \A r \in T : IsFiniteSet(r)
      BY <1>1
    <3> HIDE DEF T
    <3> QED
      BY <1>2, <3>1, FiniteMinimum
  <2>2. r # {}
    BY SumOfNone
  <2>3. PICK x \in r : SumFunctionOnSet(fun, r) = fun[x] + SumFunctionOnSet(fun, r \ {x})
    BY <1>1, <2>2, SumUnfolds
  <2>4. r \ {x} \notin T
    BY <2>1
  <2>5. SumFunctionOnSet(fun, r \ {x}) \in Nat
    BY <2>4
  <2> QED
    BY <2>3, <2>5
<1> QED
  BY <1>2

\* Any element may be taken out first.
LEMMA SumTakesOut ==
  ASSUME NEW fun, NEW S, IsFiniteSet(S), \A x \in S : fun[x] \in Nat, NEW a \in S
  PROVE  SumFunctionOnSet(fun, S) = fun[a] + SumFunctionOnSet(fun, S \ {a})
<1> DEFINE Out(r, x) == SumFunctionOnSet(fun, r) = fun[x] + SumFunctionOnSet(fun, r \ {x})
           T == {r \in SUBSET S : \E x \in r : ~Out(r, x)}
<1>1. \A r \in SUBSET S : IsFiniteSet(r) /\ SumFunctionOnSet(fun, r) \in Nat
  BY FS_Subset, SumIsNat
<1>2. ASSUME T # {} PROVE FALSE
  <2>1. PICK r \in T : \A q \in T : q \subseteq r => q = r
    <3>1. \A r \in T : IsFiniteSet(r)
      BY <1>1
    <3> HIDE DEF T
    <3> QED
      BY <1>2, <3>1, FiniteMinimum
  <2>2. PICK x \in r : ~Out(r, x)
    OBVIOUS
  <2>3. PICK c \in r : Out(r, c)
    BY <1>1, SumUnfolds
  <2>4. c # x
    BY <2>2, <2>3
  <2>5. r \ {c} \notin T /\ r \ {x} \notin T
    BY <2>1
  <2>6. Out(r \ {c}, x) /\ Out(r \ {x}, c)
    BY <2>4, <2>5
  <2>7. (r \ {c}) \ {x} = (r \ {x}) \ {c}
    OBVIOUS
  <2>8. /\ fun[x] \in Nat /\ fun[c] \in Nat
        /\ SumFunctionOnSet(fun, (r \ {x}) \ {c}) \in Nat
    BY <1>1
  <2>9. SumFunctionOnSet(fun, r) = fun[c] + (fun[x] + SumFunctionOnSet(fun, (r \ {x}) \ {c}))
    BY <2>3, <2>6, <2>7
  <2>10. SumFunctionOnSet(fun, r \ {x}) = fun[c] + SumFunctionOnSet(fun, (r \ {x}) \ {c})
    BY <2>6
  <2>11. SumFunctionOnSet(fun, r) = fun[x] + SumFunctionOnSet(fun, r \ {x})
    BY <2>8, <2>9, <2>10
  <2> QED
    BY <2>2, <2>11
<1> QED
  BY <1>2

\* A sum depends on the values it adds.
LEMMA SumOfSame ==
  ASSUME NEW f, NEW g, NEW S, IsFiniteSet(S), \A x \in S : f[x] = g[x]
  PROVE  SumFunctionOnSet(f, S) = SumFunctionOnSet(g, S)
<1> DEFINE T == {r \in SUBSET S : SumFunctionOnSet(f, r) # SumFunctionOnSet(g, r)}
<1>1. \A r \in SUBSET S : IsFiniteSet(r)
  BY FS_Subset
<1>2. ASSUME T # {} PROVE FALSE
  <2>1. PICK r \in T : \A q \in T : q \subseteq r => q = r
    <3>1. \A r \in T : IsFiniteSet(r)
      BY <1>1
    <3> HIDE DEF T
    <3> QED
      BY <1>2, <3>1, FiniteMinimum
  <2>2. r # {} /\ IsFiniteSet(r)
    BY <1>1, SumOfNone
  <2> DEFINE c == First(r)
  <2>3. /\ Summing(f, r)[r] = f[c] + Summing(f, r)[r \ {c}]
        /\ Summing(g, r)[r] = g[c] + Summing(g, r)[r \ {c}]
    BY <2>2, SummingUnfolds
  <2>4. c \in r
    BY <2>2 DEF First
  <2> HIDE DEF c
  <2>5. /\ SumFunctionOnSet(f, r) = f[c] + SumFunctionOnSet(f, r \ {c})
        /\ SumFunctionOnSet(g, r) = g[c] + SumFunctionOnSet(g, r \ {c})
    BY <2>2, <2>3, SummingAgrees
  <2>6. r \ {c} \notin T
    BY <2>1, <2>4
  <2> QED
    BY <2>4, <2>5, <2>6
<1> QED
  BY <1>2

\* A sum of zeros.
LEMMA SumOfZeros ==
  ASSUME NEW fun, NEW S, IsFiniteSet(S), \A x \in S : fun[x] = 0
  PROVE  SumFunctionOnSet(fun, S) = 0
<1> DEFINE T == {r \in SUBSET S : SumFunctionOnSet(fun, r) # 0}
<1>1. \A r \in SUBSET S : IsFiniteSet(r)
  BY FS_Subset
<1>2. ASSUME T # {} PROVE FALSE
  <2>1. PICK r \in T : \A q \in T : q \subseteq r => q = r
    <3>1. \A r \in T : IsFiniteSet(r)
      BY <1>1
    <3> HIDE DEF T
    <3> QED
      BY <1>2, <3>1, FiniteMinimum
  <2>2. r # {}
    BY SumOfNone
  <2>3. PICK x \in r : SumFunctionOnSet(fun, r) = fun[x] + SumFunctionOnSet(fun, r \ {x})
    BY <1>1, <2>2, SumUnfolds
  <2>4. r \ {x} \notin T
    BY <2>1
  <2> QED
    BY <2>3, <2>4
<1> QED
  BY <1>2

\* A sum with one more value.
LEMMA SumWithNew ==
  ASSUME NEW f, NEW g, NEW S, NEW a, IsFiniteSet(S), a \notin S,
         \A x \in S : f[x] = g[x] /\ f[x] \in Nat, g[a] \in Nat
  PROVE  SumFunctionOnSet(g, S \cup {a}) = g[a] + SumFunctionOnSet(f, S)
<1>1. IsFiniteSet(S \cup {a}) /\ (S \cup {a}) \ {a} = S
  BY FS_AddElement
<1>2. SumFunctionOnSet(g, S \cup {a}) = g[a] + SumFunctionOnSet(g, (S \cup {a}) \ {a})
  BY <1>1, SumTakesOut
<1> QED
  BY <1>1, <1>2, SumOfSame

\* No value is more than the sum.
LEMMA SumCovers ==
  ASSUME NEW fun, NEW S, IsFiniteSet(S), \A x \in S : fun[x] \in Nat, NEW a \in S
  PROVE  fun[a] <= SumFunctionOnSet(fun, S)
<1>1. SumFunctionOnSet(fun, S) = fun[a] + SumFunctionOnSet(fun, S \ {a})
  BY SumTakesOut
<1>2. SumFunctionOnSet(fun, S \ {a}) \in Nat
  BY FS_Subset, SumIsNat
<1> QED
  BY <1>1, <1>2

------------------------------------------------------------------------------
\* Items.

LEMMA LinesAreFinite ==
  ASSUME NEW items \in Seq(Item)
  PROVE  IsFiniteSet(DOMAIN items) /\ \A i \in DOMAIN items : items[i] \in Item
<1>1. DOMAIN items = 1 .. Len(items) /\ Len(items) \in Nat
  OBVIOUS
<1> QED
  BY <1>1, FS_Interval

\* A price times a quantity.
LEMMA LineIsNat ==
  ASSUME NEW item \in Item
  PROVE  Price[item.v] \in Nat /\ item.qty \in Nat \ {0} /\ Price[item.v] * item.qty \in Nat
<1>1. Price[item.v] \in Nat /\ item.qty \in Nat \ {0}
  BY RulesAssumption DEF Item
<1> QED
  BY <1>1

\* A total is a number, and covers every line.
LEMMA TotalCovers ==
  ASSUME NEW items \in Seq(Item)
  PROVE  /\ Total(items) \in Nat
         /\ \A i \in DOMAIN items : Price[items[i].v] * items[i].qty <= Total(items)
<1> DEFINE f == [i \in DOMAIN items |-> Price[items[i].v] * items[i].qty]
<1>1. IsFiniteSet(DOMAIN items) /\ \A i \in DOMAIN items : f[i] \in Nat
  BY LinesAreFinite, LineIsNat
<1>2. Total(items) = SumFunctionOnSet(f, DOMAIN items)
  BY DEF Total, SumFunction
<1>3. \A i \in DOMAIN items : f[i] = Price[items[i].v] * items[i].qty
  OBVIOUS
<1> HIDE DEF f
<1> QED
  BY <1>1, <1>2, <1>3, SumIsNat, SumCovers

\* A quantity is a number: that of the variant's line if there is one such line,
\* none if there is no line.
LEMMA QuantityCounts ==
  ASSUME NEW items \in Seq(Item), NEW v
  PROVE  /\ Quantity(items, v) \in Nat
         /\ \A i \in DOMAIN items : items[i].v = v => items[i].qty <= Quantity(items, v)
         /\ (\A i \in DOMAIN items : items[i].v # v) => Quantity(items, v) = 0
         /\ OneLineEach(items) => \A i \in DOMAIN items : items[i].v = v => Quantity(items, v) = items[i].qty
<1> DEFINE f == [i \in DOMAIN items |-> IF items[i].v = v THEN items[i].qty ELSE 0]
<1>1. IsFiniteSet(DOMAIN items) /\ \A i \in DOMAIN items : f[i] \in Nat
  BY LinesAreFinite, LineIsNat
<1>2. Quantity(items, v) = SumFunctionOnSet(f, DOMAIN items)
  BY DEF Quantity, SumFunction
<1>3. \A i \in DOMAIN items : f[i] = IF items[i].v = v THEN items[i].qty ELSE 0
  OBVIOUS
<1> HIDE DEF f
<1>4. ASSUME OneLineEach(items), NEW i \in DOMAIN items, items[i].v = v
      PROVE  Quantity(items, v) = items[i].qty
  <2>1. SumFunctionOnSet(f, DOMAIN items) = f[i] + SumFunctionOnSet(f, DOMAIN items \ {i})
    BY <1>1, SumTakesOut
  <2>2. \A j \in DOMAIN items \ {i} : f[j] = 0
    BY <1>3, <1>4 DEF OneLineEach
  <2>3. SumFunctionOnSet(f, DOMAIN items \ {i}) = 0
    BY <1>1, <2>2, FS_Subset, SumOfZeros
  <2>4. f[i] = items[i].qty /\ f[i] \in Nat
    BY <1>1, <1>3, <1>4
  <2> QED
    BY <1>2, <2>1, <2>3, <2>4
<1> QED
  BY <1>1, <1>2, <1>3, <1>4, SumIsNat, SumCovers, SumOfZeros

\* A campaign takes no more off an item than the items come to.
LEMMA DiscountFits ==
  ASSUME NEW items \in Seq(Item), NEW i \in DOMAIN items, NEW k \in Campaigns
  PROVE  CandidateDiscount(items[i], k) \in Nat /\ CandidateDiscount(items[i], k) <= Total(items)
<1> DEFINE price == Price[items[i].v] * items[i].qty
<1>1. items[i] \in Item
  BY LinesAreFinite
<1>2. price \in Nat /\ price <= Total(items) /\ Total(items) \in Nat
  BY <1>1, LineIsNat, TotalCovers
<1> DEFINE percent == Offer[k].percent
           rest == 100 - percent
<1>3. Offer[k] \in [product : Products, percent : 0 .. 100, cap : Nat]
  BY RulesAssumption
<1>4. percent \in Nat /\ rest \in Nat /\ percent + rest = 100
  <2>1. Offer[k].percent \in 0 .. 100
    BY <1>3
  <2>2. \A x \in 0 .. 100 : x \in Nat /\ 100 - x \in Nat /\ x + (100 - x) = 100
    OBVIOUS
  <2> HIDE DEF percent
  <2>3. percent \in 0 .. 100
    BY <2>1 DEF percent
  <2> QED
    BY <2>2, <2>3
<1> HIDE DEF price, percent, rest
<1>5. price * percent \in Nat /\ price * rest \in Nat /\ price * percent + price * rest = 100 * price
  <2>1. price * (percent + rest) = price * percent + price * rest /\ price * percent \in Nat /\ price * rest \in Nat
    BY <1>2, <1>4
  <2> QED
    BY <1>2, <1>4, <2>1
<1>6. (price * percent) \div 100 \in Nat /\ (price * percent) \div 100 <= price
  BY <1>2, <1>5
<1>7. CandidateDiscount(items[i], k) = (price * percent) \div 100
  BY DEF price, percent, CandidateDiscount
<1> QED
  BY <1>2, <1>6, <1>7

------------------------------------------------------------------------------
\* Edits.

\* Without a line there is one line less, in the same order.
LEMMA WithoutFits ==
  ASSUME NEW items \in Seq(Item), NEW v, Positions(items, v) # {}
  PROVE  /\ Without(items, v) \in Seq(Item) /\ Len(Without(items, v)) = Len(items) - 1
         /\ OneLineEach(items) => OneLineEach(Without(items, v))
<1> DEFINE at == CHOOSE i \in Positions(items, v) : TRUE
           n == Len(items)
           head == SubSeq(items, 1, at - 1)
           tail == SubSeq(items, at + 1, n)
           new == head \o tail
<1>1. n \in Nat /\ DOMAIN items = 1 .. n /\ at \in 1 .. n
  BY DEF Positions
<1>2. Without(items, v) = new
  BY DEF Without, RemoveAt
<1> HIDE DEF at
<1>3. \A i \in 1 .. n : items[i] \in Item
  BY <1>1, LinesAreFinite
<1>4. /\ head \in Seq(Item) /\ Len(head) = at - 1
      /\ \A i \in 1 .. at - 1 : head[i] = items[i]
  BY <1>1, <1>3, SubSeqProperties
<1>5. /\ tail \in Seq(Item) /\ Len(tail) = n - at
      /\ \A i \in 1 .. n - at : tail[i] = items[at + i]
  <2> DEFINE from == at + 1
  <2>1. from \in Int /\ \A i \in from .. n : items[i] \in Item
    BY <1>1, <1>3
  <2> HIDE DEF from
  <2>2. /\ SubSeq(items, from, n) \in Seq(Item)
        /\ Len(SubSeq(items, from, n)) = IF from <= n THEN n - from + 1 ELSE 0
        /\ \A i \in 1 .. n - from + 1 : SubSeq(items, from, n)[i] = items[from + i - 1]
    BY <1>1, <2>1, SubSeqProperties
  <2>3. n - from + 1 = n - at /\ (IF from <= n THEN n - from + 1 ELSE 0) = n - at
        /\ \A i \in 1 .. n - at : from + i - 1 = at + i
    <3>1. at \in Int /\ n \in Int /\ at <= n
      BY <1>1
    <3> QED
      BY <3>1 DEF from
  <2> QED
    BY <2>2, <2>3 DEF from
<1> HIDE DEF head, tail
<1>6. /\ new \in Seq(Item) /\ Len(new) = n - 1
      /\ \A i \in 1 .. n - 1 : new[i] = items[IF i < at THEN i ELSE i + 1]
  <2>1. /\ new \in Seq(Item) /\ Len(new) = Len(head) + Len(tail)
        /\ \A i \in 1 .. Len(head) + Len(tail) :
             new[i] = IF i <= Len(head) THEN head[i] ELSE tail[i - Len(head)]
    BY <1>4, <1>5, ConcatProperties
  <2>2. Len(head) + Len(tail) = n - 1
    BY <1>1, <1>4, <1>5
  <2>3. ASSUME NEW i \in 1 .. n - 1, i < at PROVE new[i] = items[i]
    BY <1>1, <1>4, <2>1, <2>2, <2>3
  <2>4. ASSUME NEW i \in 1 .. n - 1, ~(i < at) PROVE new[i] = items[i + 1]
    <3> DEFINE j == i - (at - 1)
    <3>1. j \in 1 .. n - at /\ at + j = i + 1 /\ ~(i <= Len(head)) /\ i - Len(head) = j
      BY <1>1, <1>4, <2>4
    <3> QED
      BY <1>5, <2>1, <2>2, <3>1
  <2> QED
    BY <2>1, <2>2, <2>3, <2>4
<1> HIDE DEF new
<1>7. ASSUME OneLineEach(items), NEW i \in 1 .. n - 1, NEW j \in 1 .. n - 1, new[i].v = new[j].v
      PROVE  i = j
  <2> DEFINE old(x) == IF x < at THEN x ELSE x + 1
  <2>1. /\ old(i) \in 1 .. n /\ old(j) \in 1 .. n
        /\ old(i) = old(j) => i = j
    BY <1>1
  <2>2. items[old(i)].v = items[old(j)].v
    BY <1>6, <1>7
  <2> HIDE DEF old
  <2> QED
    BY <1>1, <1>7, <2>1, <2>2 DEF OneLineEach
<1>8. DOMAIN new = 1 .. n - 1
  BY <1>1, <1>6
<1> QED
  BY <1>2, <1>6, <1>7, <1>8 DEF OneLineEach

\* An edit that is not refused leaves items, one line for each variant.
LEMMA AppliedFits ==
  ASSUME NEW items \in Seq(Item), NEW edit \in Edit, OneLineEach(items),
         edit.kind # "add" => Positions(items, edit.v) # {}
  PROVE  Applied(edit, items) \in Seq(Item) /\ OneLineEach(Applied(edit, items))
<1> DEFINE at == Positions(items, edit.v)
           n == Len(items)
<1>1. edit.kind \in {"add", "set", "remove"} /\ edit.v \in Variants /\ edit.qty \in Nat \ {0}
  BY DEF Edit
<1>2. n \in Nat /\ DOMAIN items = 1 .. n /\ \A i \in 1 .. n : items[i].v \in Variants /\ items[i].qty \in Nat \ {0}
  <2>1. \A i \in 1 .. n : items[i] \in Item
    OBVIOUS
  <2> QED
    BY <2>1 DEF Item
<1>3. CASE edit.kind = "remove"
  BY <1>3, WithoutFits DEF Applied
<1>4. ASSUME NEW new, DOMAIN new = 1 .. n,
             \A i \in 1 .. n : new[i] \in Item /\ new[i].v = items[i].v
      PROVE  OneLineEach(new)
  BY <1>2, <1>4 DEF OneLineEach
<1>5. CASE edit.kind = "set"
  <2> DEFINE new == [i \in DOMAIN items |-> IF i \in at THEN [v |-> edit.v, qty |-> edit.qty] ELSE items[i]]
  <2>1. Applied(edit, items) = new
    BY <1>5 DEF Applied
  <2>2. DOMAIN new = 1 .. n /\ \A i \in 1 .. n : new[i] \in Item /\ new[i].v = items[i].v
    <3>1. \A i \in 1 .. n : i \in at => items[i].v = edit.v
      BY DEF Positions
    <3>2. \A q \in Nat \ {0} : [v |-> edit.v, qty |-> q] \in Item
      BY <1>1 DEF Item
    <3>3. \A i \in 1 .. n : items[i] \in Item
      BY <1>2, LinesAreFinite
    <3> HIDE DEF at
    <3> QED
      BY <1>1, <1>2, <3>1, <3>2, <3>3
  <2>3. new \in Seq(Item)
    BY <1>2, <2>2
  <2> QED
    BY <1>4, <2>1, <2>2, <2>3
<1>6. CASE edit.kind = "add" /\ at # {}
  <2> DEFINE new == [i \in DOMAIN items |->
                       IF i \in at THEN [v |-> edit.v, qty |-> items[i].qty + edit.qty] ELSE items[i]]
  <2>1. Applied(edit, items) = new
    BY <1>6 DEF Applied
  <2>2. DOMAIN new = 1 .. n /\ \A i \in 1 .. n : new[i] \in Item /\ new[i].v = items[i].v
    <3>1. \A i \in 1 .. n : i \in at => items[i].v = edit.v
      BY DEF Positions
    <3>2. \A q \in Nat \ {0} : [v |-> edit.v, qty |-> q] \in Item
      BY <1>1 DEF Item
    <3>3. \A i \in 1 .. n : items[i] \in Item
      BY <1>2, LinesAreFinite
    <3> HIDE DEF at
    <3> QED
      BY <1>1, <1>2, <3>1, <3>2, <3>3
  <2>3. new \in Seq(Item)
    BY <1>2, <2>2
  <2> QED
    BY <1>4, <2>1, <2>2, <2>3
<1>7. CASE edit.kind = "add" /\ at = {}
  <2> DEFINE line == [v |-> edit.v, qty |-> edit.qty]
             new == Append(items, line)
  <2>1. Applied(edit, items) = new
    BY <1>7 DEF Applied
  <2>2. line \in Item /\ line.v = edit.v
    BY <1>1 DEF Item
  <2> HIDE DEF line
  <2>3. new \in Seq(Item) /\ DOMAIN new = 1 .. n + 1 /\ new[n + 1] = line /\ \A i \in 1 .. n : new[i] = items[i]
    BY <1>2, <2>2
  <2>4. \A i \in 1 .. n : items[i].v # edit.v
    BY <1>2, <1>7 DEF Positions
  <2> HIDE DEF new
  <2>5. OneLineEach(new)
    <3> SUFFICES ASSUME NEW i \in 1 .. n + 1, NEW j \in 1 .. n + 1, new[i].v = new[j].v PROVE i = j
      BY <2>3 DEF OneLineEach
    <3>1. CASE i \in 1 .. n /\ j \in 1 .. n
      BY <1>2, <2>3, <3>1 DEF OneLineEach
    <3>2. CASE i = n + 1 /\ j = n + 1
      BY <3>2
    <3>3. CASE i = n + 1 /\ j \in 1 .. n
      BY <2>2, <2>3, <2>4, <3>3
    <3>4. CASE i \in 1 .. n /\ j = n + 1
      BY <2>2, <2>3, <2>4, <3>4
    <3> QED
      BY <1>2, <3>1, <3>2, <3>3, <3>4
  <2> QED
    BY <2>1, <2>3, <2>5
<1> QED
  BY <1>1, <1>3, <1>5, <1>6, <1>7

\* Every edit that is not refused is one of those a cart may change by.
LEMMA AppliedIsEdited ==
  ASSUME NEW items \in Seq(Item), NEW edit \in Edit, OneLineEach(items),
         edit.kind # "add" => Positions(items, edit.v) # {}
  PROVE  Edited(items, Applied(edit, items))
<1> DEFINE new == Applied(edit, items)
           n == Len(items)
           qty == IF edit.kind = "remove" THEN 1 ELSE edit.qty
<1>1. edit.kind \in {"add", "set", "remove"} /\ edit.v \in Variants /\ edit.qty \in Nat \ {0}
  BY DEF Edit
<1>2. new = Applied([kind |-> edit.kind, v |-> edit.v, qty |-> qty], items)
  BY <1>1 DEF Applied
<1>3. new \in Seq(Item)
  BY AppliedFits
<1>4. Quantity(new, edit.v) \in Nat /\ \A i \in DOMAIN new : new[i].v = edit.v => new[i].qty <= Quantity(new, edit.v)
  BY <1>3, QuantityCounts
<1>5. qty <= Quantity(new, edit.v) + 1
  <2>1. CASE edit.kind = "remove"
    BY <1>4, <2>1
  <2>2. CASE edit.kind # "remove"
    <3>1. \E i \in DOMAIN new : new[i].v = edit.v /\ edit.qty <= new[i].qty
      <4>1. n \in Nat /\ DOMAIN items = 1 .. n /\ \A i \in 1 .. n : items[i].qty \in Nat
        <5>1. \A i \in DOMAIN items : items[i].qty \in Nat
          BY LinesAreFinite DEF Item
        <5> QED
          BY <5>1
      <4>2. CASE edit.kind = "add" /\ Positions(items, edit.v) = {}
        <5>1. new = Append(items, [v |-> edit.v, qty |-> edit.qty])
          BY <4>2 DEF Applied
        <5>2. n + 1 \in DOMAIN new /\ new[n + 1] = [v |-> edit.v, qty |-> edit.qty]
          BY <4>1, <5>1
        <5> QED
          BY <1>1, <5>2
      <4>3. CASE Positions(items, edit.v) # {}
        <5>1. PICK i \in DOMAIN items : i \in Positions(items, edit.v)
          BY <4>3 DEF Positions
        <5>2. \/ new[i] = [v |-> edit.v, qty |-> edit.qty]
              \/ new[i] = [v |-> edit.v, qty |-> items[i].qty + edit.qty]
          BY <1>1, <2>2, <4>3, <5>1 DEF Applied
        <5>3. i \in DOMAIN new
          BY <1>1, <2>2, <4>3, <5>1 DEF Applied
        <5>4. edit.qty <= items[i].qty + edit.qty
          BY <1>1, <4>1, <5>1
        <5> QED
          BY <1>1, <5>2, <5>3, <5>4
      <4> QED
        BY <1>1, <2>2, <4>2, <4>3
    <3> HIDE DEF new
    <3>2. PICK i \in DOMAIN new : new[i].v = edit.v /\ edit.qty <= new[i].qty
      BY <3>1
    <3>3. new[i] \in Item
      BY <1>3, LinesAreFinite
    <3>4. new[i].qty \in Nat /\ new[i].qty <= Quantity(new, edit.v)
      BY <1>4, <3>2, <3>3 DEF Item
    <3> QED
      BY <1>1, <1>4, <2>2, <3>2, <3>4
  <2> QED
    BY <2>1, <2>2
<1>6. qty \in 1 .. Quantity(new, edit.v) + 1
  BY <1>1, <1>4, <1>5
<1> HIDE DEF new, qty
<1> QED
  BY <1>1, <1>2, <1>6 DEF Edited, new
================================================================================
