---------------------------- MODULE RulesProofs -----------------------------
(***************************************************************************)
(* What the loops of OrderRules and CommandLine compute, for inputs of any *)
(* length: sums, decimal digits and the list of order types.  A loop is a  *)
(* fold, a fold is a recursive function, and what a recursive function     *)
(* computes is shown by induction over the naturals.                       *)
(***************************************************************************)
EXTENDS CommandLine, FiniteSetTheorems, WellFoundedInduction, TLAPS

-----------------------------------------------------------------------------
(* Induction and recursion.                                                *)

(* A set of naturals with 0 and every successor has all of them.           *)
LEMMA Induction ==
    ASSUME NEW S \in SUBSET Nat, 0 \in S, \A n \in Nat : n \in S => n + 1 \in S
    PROVE  S = Nat
<1>1. PICK R : R = OpToRel(<, Nat)
  OBVIOUS
<1>2. IsWellFoundedOn(R, Nat)
  BY <1>1, NatLessThanWellFounded, Zenon
<1>3. \A x, y \in Nat : x < y => <<x, y>> \in R
  BY <1>1, Zenon DEF OpToRel
<1>. HIDE <1>1
<1>4. SUFFICES ASSUME Nat \ S # {} PROVE FALSE
  OBVIOUS
<1>5. PICK x \in Nat \ S : \A y \in Nat \ S : ~(<<y, x>> \in R)
  BY <1>2, <1>4, WFMin, Zenon
<1>6. x \in Nat /\ x # 0
  OBVIOUS
<1>7. x - 1 \in Nat /\ x - 1 < x /\ (x - 1) + 1 = x
  BY <1>6
<1>8. x - 1 \in S
  BY <1>3, <1>5, <1>6, <1>7
<1>. QED
  BY <1>7, <1>8

(* ch picks an element of every set but the empty one.                     *)
Picks(ch, D) == \A s \in SUBSET D : s # {} => ch[s] \in s

(* The value of a fold over s, given its values at smaller sets.           *)
FoldStep(g, s, ch, base, F) == IF s = {} THEN base ELSE F[<<g[s \ {ch[s]}], ch[s]>>]

(* F takes a value from V and an element of D to a value from V.           *)
Combines(F, V, D) == F \in [V \X D -> V]

(* g is a fold of F over the subsets of D.                                 *)
IsFold(g, D, ch, V, base, F) ==
    /\ g \in [SUBSET D -> V]
    /\ \A s \in SUBSET D : g[s] = FoldStep(g, s, ch, base, F)

(* A set without the element picked from it is smaller.                    *)
LEMMA SmallerSet ==
    ASSUME NEW D, IsFiniteSet(D), NEW s \in SUBSET D, NEW x \in s
    PROVE  /\ s \ {x} \in SUBSET D
           /\ Cardinality(s) \in Nat /\ Cardinality(s) <= Cardinality(D)
           /\ Cardinality(s \ {x}) \in Nat
           /\ Cardinality(s \ {x}) = Cardinality(s) - 1
<1>1. IsFiniteSet(s) /\ Cardinality(s) <= Cardinality(D)
  BY FS_Subset
<1>2. Cardinality(s) \in Nat
  BY <1>1, FS_CardinalityType
<1>3. IsFiniteSet(s \ {x}) /\ Cardinality(s \ {x}) = Cardinality(s) - 1
  BY <1>1, FS_RemoveElement
<1>4. Cardinality(s \ {x}) \in Nat
  BY <1>3, FS_CardinalityType
<1>. QED
  BY <1>1, <1>2, <1>3, <1>4

(* The equation of a fold has a solution.                                  *)
LEMMA FoldExists ==
    ASSUME NEW D, IsFiniteSet(D), NEW ch, Picks(ch, D),
           NEW V, NEW base \in V, NEW F, Combines(F, V, D)
    PROVE  \E g : IsFold(g, D, ch, V, base, F)
<1>. DEFINE Upto(g, k) == \A s \in SUBSET D :
                Cardinality(s) <= k => g[s] = FoldStep(g, s, ch, base, F)
            S == {k \in Nat : \E g \in [SUBSET D -> V] : Upto(g, k)}
<1>1. \A s \in SUBSET D : IsFiniteSet(s) /\ Cardinality(s) \in Nat /\ Cardinality(s) <= Cardinality(D)
  BY FS_Subset, FS_CardinalityType
<1>2. 0 \in S
  <2>1. [s \in SUBSET D |-> base] \in [SUBSET D -> V]
    OBVIOUS
  <2>2. \A s \in SUBSET D : Cardinality(s) <= 0 => s = {}
    BY <1>1, FS_EmptySet
  <2>3. Upto([s \in SUBSET D |-> base], 0)
    BY <2>2 DEF FoldStep
  <2>. QED
    BY <2>1, <2>3
<1>3. ASSUME NEW k \in Nat, k \in S
      PROVE  k + 1 \in S
  <2>1. PICK g \in [SUBSET D -> V] : Upto(g, k)
    BY <1>3
  <2>. DEFINE h == [s \in SUBSET D |-> IF Cardinality(s) <= k THEN g[s]
                                       ELSE FoldStep(g, s, ch, base, F)]
  <2>2. ASSUME NEW s \in SUBSET D
        PROVE  FoldStep(g, s, ch, base, F) \in V
    BY DEF FoldStep, Picks, Combines
  <2>3. h \in [SUBSET D -> V]
    BY <2>2
  <2>4. ASSUME NEW s \in SUBSET D, Cardinality(s) <= k + 1
        PROVE  h[s] = FoldStep(h, s, ch, base, F)
    <3>1. CASE s = {}
      <4>1. Cardinality(s) <= k
        BY <3>1, FS_EmptySet
      <4>. QED
        BY <2>1, <3>1, <4>1 DEF FoldStep
    <3>2. CASE s # {}
      <4>1. ch[s] \in s
        BY <3>2 DEF Picks
      <4>2. s \ {ch[s]} \in SUBSET D /\ Cardinality(s \ {ch[s]}) <= k
        BY <1>1, <2>4, <4>1, SmallerSet
      <4>3. h[s \ {ch[s]}] = g[s \ {ch[s]}]
        BY <4>2
      <4>4. FoldStep(h, s, ch, base, F) = FoldStep(g, s, ch, base, F)
        BY <4>3 DEF FoldStep
      <4>. QED
        BY <2>1, <4>4
    <3>. QED
      BY <3>1, <3>2
  <2>5. Upto(h, k + 1)
    BY <2>4
  <2>. HIDE DEF h, Upto
  <2>. QED
    BY <2>3, <2>5
<1>4. Cardinality(D) \in S
  <2>1. S = Nat
    BY <1>2, <1>3, Induction
  <2>. QED
    BY <2>1, FS_CardinalityType
<1>5. PICK g \in [SUBSET D -> V] : Upto(g, Cardinality(D))
  BY <1>4
<1>. QED
  BY <1>1, <1>5 DEF IsFold

(* A set of places of a sequence has a last one.                           *)
LEMMA LastPlace ==
    ASSUME NEW n \in Nat
    PROVE  /\ \A s \in SUBSET (1 .. n) : s # {} => Max(s) \in s
           /\ \A k \in 1 .. n : Max(1 .. k) = k
<1>. DEFINE S == {m \in Nat : \A s \in SUBSET (1 .. m) :
                      s # {} => \E x \in s : \A y \in s : x >= y}
<1>1. 0 \in S
  <2>1. 1 .. 0 = {}
    OBVIOUS
  <2>. QED
    BY <2>1
<1>2. ASSUME NEW m \in Nat, m \in S
      PROVE  m + 1 \in S
  <2>1. ASSUME NEW s \in SUBSET (1 .. m + 1), s # {}
        PROVE  \E x \in s : \A y \in s : x >= y
    <3>1. CASE m + 1 \in s
      BY <3>1
    <3>2. CASE m + 1 \notin s
      <4>1. s \in SUBSET (1 .. m)
        BY <3>2
      <4>. QED
        BY <1>2, <2>1, <4>1
    <3>. QED
      BY <3>1, <3>2
  <2>. QED
    BY <2>1
<1>3. n \in S
  BY <1>1, <1>2, Induction
<1>4. \A s \in SUBSET (1 .. n) : s # {} => Max(s) \in s
  BY <1>3 DEF Max
<1>5. ASSUME NEW k \in 1 .. n
      PROVE  Max(1 .. k) = k
  <2>1. k \in 1 .. k /\ \A y \in 1 .. k : k >= y
    OBVIOUS
  <2>2. Max(1 .. k) \in 1 .. k /\ \A y \in 1 .. k : Max(1 .. k) >= y
    BY <2>1 DEF Max
  <2>. QED
    BY <2>1, <2>2
<1>. QED
  BY <1>4, <1>5

-----------------------------------------------------------------------------
(* Sums.                                                                   *)

(* p holds the sums of the first terms of v.                               *)
PartialSums(n, v, p) ==
    /\ p \in [0 .. n -> Int]
    /\ p[0] = 0
    /\ \A k \in 1 .. n : p[k] = p[k - 1] + v[k]

(* g adds up v over every subset of D, in the order of ch.                 *)
AddsUp(D, v, ch, g) ==
    /\ g[{}] = 0
    /\ \A s \in SUBSET D : s # {} =>
          \/ g[s] = v[ch[s]] + g[s \ {ch[s]}]
          \/ g[s] = g[s \ {ch[s]}] + v[ch[s]]

(* Such a sum exists.                                                      *)
LEMMA SumExists ==
    ASSUME NEW D, IsFiniteSet(D), NEW v \in [D -> Int], NEW ch, Picks(ch, D)
    PROVE  \E g \in [SUBSET D -> Int] : AddsUp(D, v, ch, g)
<1>. DEFINE F == [x \in Int \X D |-> v[x[2]] + x[1]]
<1>1. Combines(F, Int, D)
  BY DEF Combines
<1>2. \A a \in Int : \A d \in D : F[<<a, d>>] = v[d] + a
  OBVIOUS
<1>. HIDE DEF F
<1>3. PICK g : IsFold(g, D, ch, Int, 0, F)
  <2>1. 0 \in Int
    OBVIOUS
  <2>. QED
    BY <1>1, <2>1, FoldExists, Zenon
<1>4. ASSUME NEW s \in SUBSET D, s # {}
      PROVE  g[s] = v[ch[s]] + g[s \ {ch[s]}]
  <2>1. ch[s] \in D /\ g[s \ {ch[s]}] \in Int
    BY <1>3, <1>4 DEF Picks, IsFold
  <2>. QED
    BY <1>2, <1>3, <1>4, <2>1 DEF FoldStep, IsFold
<1>5. g[{}] = 0
  BY <1>3 DEF FoldStep, IsFold
<1>. QED
  BY <1>3, <1>4, <1>5 DEF AddsUp, IsFold

(* The sum over t is a number, and any term can be split off.              *)
SplitsOff(g, v, t) == g[t] \in Int /\ \A x \in t : g[t] = v[x] + g[t \ {x}]

(* Such a sum does not depend on the order.                                *)
LEMMA AnyOrder ==
    ASSUME NEW D, IsFiniteSet(D), NEW v \in [D -> Int], NEW ch, Picks(ch, D),
           NEW g, AddsUp(D, v, ch, g), NEW s \in SUBSET D
    PROVE  SplitsOff(g, v, s)
<1>. DEFINE Good(t) == g[t] \in Int /\ \A x \in t : g[t] = v[x] + g[t \ {x}]
            S == {k \in Nat : \A t \in SUBSET D : Cardinality(t) <= k => Good(t)}
<1>1. \A t \in SUBSET D : Cardinality(t) \in Nat /\ Cardinality(t) <= Cardinality(D)
  BY FS_Subset, FS_CardinalityType
<1>2. 0 \in S
  <2>1. \A t \in SUBSET D : Cardinality(t) <= 0 => t = {}
    BY <1>1, FS_EmptySet, FS_Subset
  <2>2. Good({})
    BY DEF AddsUp
  <2>. QED
    BY <2>1, <2>2
<1>3. ASSUME NEW k \in Nat, k \in S
      PROVE  k + 1 \in S
  <2>1. ASSUME NEW t \in SUBSET D, Cardinality(t) <= k + 1
        PROVE  Good(t)
    <3>1. CASE t = {}
      BY <3>1 DEF AddsUp
    <3>2. CASE t # {}
      <4>1. PICK y : y = ch[t]
        OBVIOUS
      <4>2. y \in t /\ v[y] \in Int
        BY <3>2, <4>1 DEF Picks
      <4>3. \A x \in t : t \ {x} \in SUBSET D /\ Cardinality(t \ {x}) <= k
        BY <1>1, <2>1, SmallerSet
      <4>4. \A x \in t : Good(t \ {x})
        BY <1>3, <4>3
      <4>5. g[t] = v[y] + g[t \ {y}] /\ g[t] \in Int
        <5>1. g[t \ {y}] \in Int
          BY <4>2, <4>4
        <5>2. g[t] = v[y] + g[t \ {y}] \/ g[t] = g[t \ {y}] + v[y]
          BY <3>2, <4>1 DEF AddsUp
        <5>. QED
          BY <4>2, <5>1, <5>2
      <4>6. ASSUME NEW x \in t, x # y
            PROVE  g[t] = v[x] + g[t \ {x}]
        <5>1. x \in t \ {y} /\ y \in t \ {x}
          BY <4>2, <4>6
        <5>2. g[t \ {y}] = v[x] + g[(t \ {y}) \ {x}]
          BY <4>2, <4>4, <5>1
        <5>3. g[t \ {x}] = v[y] + g[(t \ {x}) \ {y}]
          BY <4>4, <5>1
        <5>4. (t \ {y}) \ {x} = (t \ {x}) \ {y}
          OBVIOUS
        <5>5. g[t \ {y}] \in Int /\ g[t \ {x}] \in Int /\ v[x] \in Int /\ v[y] \in Int
          BY <4>2, <4>4
        <5>6. PICK rest : rest = g[(t \ {x}) \ {y}]
          OBVIOUS
        <5>7. rest \in Int
          <6>1. (t \ {x}) \ {y} \in SUBSET D /\ Cardinality((t \ {x}) \ {y}) <= k
            <7>1. PICK u : u = t \ {x}
              OBVIOUS
            <7>2. u \in SUBSET D /\ Cardinality(u) <= k /\ y \in u
              BY <4>3, <5>1, <7>1
            <7>3. /\ u \ {y} \in SUBSET D
                  /\ Cardinality(u) \in Nat /\ Cardinality(u \ {y}) = Cardinality(u) - 1
              BY <7>2, SmallerSet
            <7>. QED
              BY <7>1, <7>2, <7>3
          <6>. QED
            BY <1>3, <5>6, <6>1
        <5>8. g[t \ {y}] = v[x] + rest /\ g[t \ {x}] = v[y] + rest
          BY <5>2, <5>3, <5>4, <5>6
        <5>9. v[y] + (v[x] + rest) = v[x] + (v[y] + rest)
          BY <5>5, <5>7
        <5>. QED
          BY <4>5, <5>8, <5>9
      <4>. QED
        BY <4>2, <4>5, <4>6
    <3>. QED
      BY <3>1, <3>2
  <2>. QED
    BY <2>1
<1>4. Cardinality(D) \in S
  <2>1. S = Nat
    BY <1>2, <1>3, Induction
  <2>. QED
    BY <2>1, FS_CardinalityType
<1>. QED
  BY <1>1, <1>4 DEF SplitsOff

(* A sum over the places of a sequence is the last of its partial sums.    *)
LEMMA SumOfSequence ==
    ASSUME NEW n \in Nat, NEW v \in [1 .. n -> Int], NEW ch, Picks(ch, 1 .. n),
           NEW g, AddsUp(1 .. n, v, ch, g)
    PROVE  \E p : PartialSums(n, v, p) /\ p[n] = g[1 .. n]
<1>1. IsFiniteSet(1 .. n)
  BY FS_Interval
<1>. DEFINE p == [k \in 0 .. n |-> g[1 .. k]]
<1>2. \A k \in 0 .. n : 1 .. k \in SUBSET (1 .. n)
  OBVIOUS
<1>3. p \in [0 .. n -> Int]
  <2>1. \A k \in 0 .. n : SplitsOff(g, v, 1 .. k)
    BY <1>1, <1>2, AnyOrder
  <2>. QED
    BY <2>1 DEF SplitsOff
<1>4. p[0] = 0
  <2>1. 1 .. 0 = {}
    OBVIOUS
  <2>. QED
    BY <2>1 DEF AddsUp
<1>5. ASSUME NEW k \in 1 .. n
      PROVE  p[k] = p[k - 1] + v[k]
  <2>1. k \in 1 .. k /\ (1 .. k) \ {k} = 1 .. (k - 1) /\ k \in 0 .. n /\ k - 1 \in 0 .. n
    OBVIOUS
  <2>2. g[1 .. k] = v[k] + g[(1 .. k) \ {k}]
    <3>1. 1 .. k \in SUBSET (1 .. n)
      BY <1>2, <2>1
    <3>2. SplitsOff(g, v, 1 .. k)
      BY <1>1, <3>1, AnyOrder
    <3>. QED
      BY <2>1, <3>2 DEF SplitsOff
  <2>3. p[k] = v[k] + p[k - 1]
    BY <2>1, <2>2
  <2>4. p[k - 1] \in Int /\ v[k] \in Int
    BY <1>3, <2>1
  <2>. QED
    BY <2>3, <2>4
<1>6. p[n] = g[1 .. n]
  OBVIOUS
<1>. HIDE DEF p
<1>. QED
  BY <1>3, <1>4, <1>5, <1>6 DEF PartialSums

(* An item of a request.                                                   *)
Item == [chars: Nat, quantity: Int, price: Int]

(* What each item of an order costs.                                       *)
Costs(items) == [i \in 1 .. Len(items) |-> items[i].price * items[i].quantity]

(* Prices and quantities are integers, and so are costs.                   *)
LEMMA CostsAreNumbers ==
    ASSUME NEW items \in Seq(Item)
    PROVE  /\ Len(items) \in Nat /\ DOMAIN items = 1 .. Len(items)
           /\ \A i \in 1 .. Len(items) :
                 items[i] \in Item /\ items[i].price \in Int /\ items[i].quantity \in Int
           /\ Costs(items) \in [1 .. Len(items) -> Int]
<1>1. Len(items) \in Nat /\ DOMAIN items = 1 .. Len(items)
  OBVIOUS
<1>2. \A i \in 1 .. Len(items) : items[i] \in Item
  BY <1>1
<1>3. \A i \in 1 .. Len(items) : items[i].price \in Int /\ items[i].quantity \in Int
  BY <1>2 DEF Item
<1>4. Costs(items) \in [1 .. Len(items) -> Int]
  BY <1>3 DEF Costs
<1>. QED
  BY <1>1, <1>2, <1>3, <1>4

(* The loop of CalucalteTotalAmount computes the sum of the costs.         *)
LEMMA LoopAddsUp ==
    ASSUME NEW items \in Seq(Item)
    PROVE  \E p : PartialSums(Len(items), Costs(items), p) /\ ExactTotal(items) = p[Len(items)]
<1>. DEFINE D == DOMAIN items
            ch == [s \in SUBSET D |-> Max(s)]
            step(g) == [s \in SUBSET D |->
                          IF s = {} THEN 0
                          ELSE LET x == Max(s)
                               IN  g[s \ {x}] + items[x].price * items[x].quantity]
            G == CHOOSE g : g = step(g)
<1>1. ExactTotal(items) = G[D]
  BY DEF ExactTotal, FoldLeft, MapThenFoldSet
<1>2. /\ Len(items) \in Nat /\ D = 1 .. Len(items)
      /\ Costs(items) \in [D -> Int]
      /\ \A x \in D : Costs(items)[x] = items[x].price * items[x].quantity
  BY CostsAreNumbers DEF Costs
<1>3. Picks(ch, D) /\ IsFiniteSet(D)
  <2>1. \A s \in SUBSET D : s # {} => Max(s) \in s
    BY <1>2, LastPlace
  <2>2. IsFiniteSet(1 .. Len(items))
    BY <1>2, FS_Interval
  <2>. QED
    BY <1>2, <2>1, <2>2 DEF Picks
<1>4. PICK h \in [SUBSET D -> Int] : AddsUp(D, Costs(items), ch, h)
  BY <1>2, <1>3, SumExists
<1>5. ASSUME NEW s \in SUBSET D, s # {}
      PROVE  h[s] = h[s \ {Max(s)}] + items[Max(s)].price * items[Max(s)].quantity
  <2>1. ch[s] = Max(s) /\ Max(s) \in D
    BY <1>3, <1>5 DEF Picks
  <2>2. h[s \ {Max(s)}] \in Int /\ Costs(items)[Max(s)] \in Int
    BY <1>2, <2>1
  <2>3. \/ h[s] = Costs(items)[Max(s)] + h[s \ {Max(s)}]
        \/ h[s] = h[s \ {Max(s)}] + Costs(items)[Max(s)]
    BY <1>4, <1>5, <2>1 DEF AddsUp
  <2>4. h[s] = h[s \ {Max(s)}] + Costs(items)[Max(s)]
    BY <2>2, <2>3
  <2>. QED
    BY <1>2, <2>1, <2>4
<1>6. h[{}] = 0
  BY <1>4 DEF AddsUp
<1>7. h = step(h)
  BY <1>5, <1>6
<1>8. G = step(G)
  <2>. HIDE DEF step
  <2>. QED
    BY <1>7
<1>9. AddsUp(D, Costs(items), ch, G)
  <2>. HIDE DEF G
  <2>1. G[{}] = 0
    BY <1>8
  <2>2. ASSUME NEW s \in SUBSET D, s # {}
        PROVE  G[s] = G[s \ {ch[s]}] + Costs(items)[ch[s]]
    <3>1. ch[s] = Max(s) /\ Max(s) \in D
      BY <1>3, <2>2 DEF Picks
    <3>2. G[s] = G[s \ {Max(s)}] + items[Max(s)].price * items[Max(s)].quantity
      BY <1>8, <2>2
    <3>. QED
      BY <1>2, <3>1, <3>2
  <2>. QED
    BY <2>1, <2>2 DEF AddsUp
<1>. HIDE DEF G, ch, D
<1>. QED
  BY <1>1, <1>2, <1>3, <1>9, SumOfSequence

(* So does SumFunction, which adds in an order of its own.                 *)
LEMMA FoldAddsUp ==
    ASSUME NEW n \in Nat, NEW v \in [1 .. n -> Int]
    PROVE  \E p : PartialSums(n, v, p) /\ SumFunction(v) = p[n]
<1>. DEFINE D == DOMAIN v
            ch == [s \in SUBSET D |-> CHOOSE x \in s : TRUE]
            step(g) == [s \in SUBSET D |->
                          IF s = {} THEN 0
                          ELSE LET x == CHOOSE x \in s : TRUE
                               IN  v[x] + g[s \ {x}]]
            G == CHOOSE g : g = step(g)
<1>1. SumFunction(v) = G[D]
  BY DEF SumFunction, SumFunctionOnSet, FoldFunctionOnSet, MapThenFoldSet
<1>2. D = 1 .. n
  OBVIOUS
<1>3. Picks(ch, D) /\ IsFiniteSet(D)
  BY FS_Interval DEF Picks
<1>4. PICK h \in [SUBSET D -> Int] : AddsUp(D, v, ch, h)
  BY <1>2, <1>3, SumExists
<1>5. ASSUME NEW s \in SUBSET D, s # {}
      PROVE  h[s] = v[CHOOSE x \in s : TRUE] + h[s \ {CHOOSE x \in s : TRUE}]
  <2>1. PICK x : x = CHOOSE y \in s : TRUE
    OBVIOUS
  <2>2. ch[s] = x /\ x \in s
    BY <1>5, <2>1
  <2>3. h[s \ {x}] \in Int /\ v[x] \in Int
    BY <2>2
  <2>4. h[s] = v[x] + h[s \ {x}] \/ h[s] = h[s \ {x}] + v[x]
    BY <1>4, <1>5, <2>2 DEF AddsUp
  <2>5. h[s] = v[x] + h[s \ {x}]
    BY <2>3, <2>4
  <2>. QED
    BY <2>1, <2>5
<1>6. h[{}] = 0
  BY <1>4 DEF AddsUp
<1>7. h = step(h)
  BY <1>5, <1>6
<1>8. G = step(G)
  <2>. HIDE DEF step
  <2>. QED
    BY <1>7
<1>9. AddsUp(D, v, ch, G)
  <2>. HIDE DEF G
  <2>1. G[{}] = 0
    BY <1>8
  <2>2. ASSUME NEW s \in SUBSET D, s # {}
        PROVE  G[s] = v[ch[s]] + G[s \ {ch[s]}]
    BY <1>8, <2>2
  <2>. QED
    BY <2>1, <2>2 DEF AddsUp
<1>. HIDE DEF G, ch, D
<1>. QED
  BY <1>1, <1>2, <1>3, <1>9, SumOfSequence

-----------------------------------------------------------------------------
(* Sums term by term.                                                      *)

(* What holds at first and from one place to the next holds at the last.   *)
LEMMA PlaceByPlace ==
    ASSUME NEW n \in Nat, NEW S, 0 \in S, \A k \in 1 .. n : k - 1 \in S => k \in S
    PROVE  n \in S
<1>. DEFINE T == {k \in Nat : k <= n => k \in S}
<1>1. 0 \in T
  OBVIOUS
<1>2. ASSUME NEW k \in Nat, k \in T
      PROVE  k + 1 \in T
  <2>1. k + 1 <= n => k + 1 \in 1 .. n /\ (k + 1) - 1 = k /\ k <= n
    OBVIOUS
  <2>. QED
    BY <1>2, <2>1
<1>3. T = Nat
  BY <1>1, <1>2, Induction
<1>. QED
  BY <1>3

(* One place of a sum.                                                     *)
LEMMA SumAtPlace ==
    ASSUME NEW n \in Nat, NEW v \in [1 .. n -> Int], NEW p, PartialSums(n, v, p), NEW k \in 1 .. n
    PROVE  p[k] = p[k - 1] + v[k] /\ p[k - 1] \in Int /\ v[k] \in Int
  BY DEF PartialSums

(* There is one sum of the same terms.                                     *)
LEMMA SameTermsSameSum ==
    ASSUME NEW n \in Nat, NEW v, NEW p, NEW q, PartialSums(n, v, p), PartialSums(n, v, q)
    PROVE  p[n] = q[n]
<1>. DEFINE S == {k \in 0 .. n : p[k] = q[k]}
<1>1. 0 \in S
  BY DEF PartialSums
<1>2. \A k \in 1 .. n : k - 1 \in S => k \in S
  BY DEF PartialSums
<1>3. n \in S
  BY <1>1, <1>2, PlaceByPlace
<1>. QED
  BY <1>3

(* No term is negative, and nor is the sum.                                *)
LEMMA NonNegativeSum ==
    ASSUME NEW n \in Nat, NEW v \in [1 .. n -> Int], NEW p, PartialSums(n, v, p),
           \A k \in 1 .. n : v[k] >= 0
    PROVE  p[n] >= 0
<1>. DEFINE S == {k \in 0 .. n : p[k] >= 0}
<1>1. 0 \in S
  BY DEF PartialSums
<1>2. ASSUME NEW k \in 1 .. n, k - 1 \in S
      PROVE  k \in S
  <2>1. p[k] = p[k - 1] + v[k] /\ p[k - 1] \in Int /\ v[k] \in Int /\ v[k] >= 0
    BY DEF PartialSums
  <2>. QED
    BY <1>2, <2>1
<1>3. n \in S
  BY <1>1, <1>2, PlaceByPlace
<1>. QED
  BY <1>3

(* Each of the n terms of v is ten times that of w.                        *)
Tenfold(n, v, w) == \A k \in 1 .. n : v[k] = 10 * w[k]

(* Ten times each term, ten times the sum.                                 *)
LEMMA TenfoldSum ==
    ASSUME NEW n \in Nat, NEW v \in [1 .. n -> Int], NEW w \in [1 .. n -> Int],
           NEW p, PartialSums(n, v, p), NEW q, PartialSums(n, w, q),
           Tenfold(n, v, w)
    PROVE  p[n] = 10 * q[n]
<1>. DEFINE S == {k \in 0 .. n : p[k] = 10 * q[k]}
<1>1. 0 \in S
  BY DEF PartialSums
<1>2. ASSUME NEW k \in 1 .. n, k - 1 \in S
      PROVE  k \in S
  <2>1. /\ p[k] = p[k - 1] + v[k] /\ p[k - 1] \in Int
        /\ q[k] = q[k - 1] + w[k] /\ q[k - 1] \in Int /\ w[k] \in Int
        /\ v[k] = 10 * w[k]
    BY SMTT(40) DEF PartialSums, Tenfold
  <2>. QED
    BY <1>2, <2>1
<1>3. n \in S
  BY <1>1, <1>2, PlaceByPlace
<1>. QED
  BY <1>3

(* If ten times w is as near to v as five times u, so are their sums.      *)
LEMMA NearSum ==
    ASSUME NEW n \in Nat, NEW v \in [1 .. n -> Int], NEW w \in [1 .. n -> Int],
           NEW u \in [1 .. n -> Int],
           NEW p, PartialSums(n, v, p), NEW q, PartialSums(n, w, q), NEW r, PartialSums(n, u, r),
           \A k \in 1 .. n : /\ 10 * w[k] - v[k] <= 5 * u[k]
                             /\ v[k] - 10 * w[k] <= 5 * u[k]
    PROVE  10 * q[n] - p[n] <= 5 * r[n] /\ p[n] - 10 * q[n] <= 5 * r[n]
<1>. DEFINE S == {k \in 0 .. n : /\ 10 * q[k] - p[k] <= 5 * r[k]
                                 /\ p[k] - 10 * q[k] <= 5 * r[k]}
<1>1. 0 \in S
  BY DEF PartialSums
<1>2. ASSUME NEW k \in 1 .. n, k - 1 \in S
      PROVE  k \in S
  <2>1. /\ p[k] = p[k - 1] + v[k] /\ p[k - 1] \in Int /\ v[k] \in Int
        /\ q[k] = q[k - 1] + w[k] /\ q[k - 1] \in Int /\ w[k] \in Int
        /\ r[k] = r[k - 1] + u[k] /\ r[k - 1] \in Int /\ u[k] \in Int
    BY SumAtPlace
  <2>2. /\ 10 * w[k] - v[k] <= 5 * u[k] /\ v[k] - 10 * w[k] <= 5 * u[k]
        /\ 10 * q[k - 1] - p[k - 1] <= 5 * r[k - 1]
        /\ p[k - 1] - 10 * q[k - 1] <= 5 * r[k - 1]
    BY <1>2
  <2>3. PICK a, b, c, x, y, z \in Int :
          a = v[k] /\ b = w[k] /\ c = u[k] /\ x = p[k - 1] /\ y = q[k - 1] /\ z = r[k - 1]
    BY <2>1, Zenon
  <2>4. /\ 10 * b - a <= 5 * c /\ a - 10 * b <= 5 * c
        /\ 10 * y - x <= 5 * z /\ x - 10 * y <= 5 * z
    BY <2>2, <2>3, Zenon
  <2>5. /\ 10 * (y + b) - (x + a) <= 5 * (z + c)
        /\ (x + a) - 10 * (y + b) <= 5 * (z + c)
    BY <2>4
  <2>6. p[k] = x + a /\ q[k] = y + b /\ r[k] = z + c
    BY <2>1, <2>3, Zenon
  <2>7. /\ 10 * q[k] - p[k] <= 5 * r[k]
        /\ p[k] - 10 * q[k] <= 5 * r[k]
    BY <2>5, <2>6, Zenon
  <2>. QED
    BY <2>7
<1>3. n \in S
  BY <1>1, <1>2, PlaceByPlace
<1>. QED
  BY <1>3

-----------------------------------------------------------------------------
(* Decimal digits.                                                         *)

(* p holds what the first digits of s read as.                             *)
Reads(s, p) ==
    /\ p \in [0 .. Len(s) -> Nat]
    /\ p[0] = 0
    /\ \A k \in 1 .. Len(s) : p[k] = 10 * p[k - 1] + s[k]

(* ValueOf reads digit by digit.                                           *)
LEMMA ValueIsRead ==
    ASSUME NEW digits \in Seq(Nat)
    PROVE  \E p : Reads(digits, p) /\ ValueOf(digits) = p[Len(digits)]
<1>. DEFINE D == DOMAIN digits
            ch == [s \in SUBSET D |-> Max(s)]
            step(g) == [s \in SUBSET D |->
                          IF s = {} THEN 0
                          ELSE LET x == Max(s) IN 10 * g[s \ {x}] + digits[x]]
            G == CHOOSE g : g = step(g)
            F == [x \in Nat \X D |-> 10 * x[1] + digits[x[2]]]
            p == [k \in 0 .. Len(digits) |-> G[1 .. k]]
<1>1. ValueOf(digits) = G[D]
  BY DEF ValueOf, FoldLeft, MapThenFoldSet
<1>2. Len(digits) \in Nat /\ D = 1 .. Len(digits) /\ \A x \in D : digits[x] \in Nat
  OBVIOUS
<1>3. /\ Picks(ch, D) /\ IsFiniteSet(D)
      /\ \A s \in SUBSET D : s # {} => Max(s) \in s
      /\ \A k \in 1 .. Len(digits) : Max(1 .. k) = k
  <2>1. \A s \in SUBSET D : s # {} => Max(s) \in s
    BY <1>2, LastPlace
  <2>2. \A k \in 1 .. Len(digits) : Max(1 .. k) = k
    BY <1>2, LastPlace
  <2>3. IsFiniteSet(1 .. Len(digits))
    BY <1>2, FS_Interval
  <2>. QED
    BY <1>2, <2>1, <2>2, <2>3 DEF Picks
<1>4. Combines(F, Nat, D) /\ \A a \in Nat : \A x \in D : F[<<a, x>>] = 10 * a + digits[x]
  BY <1>2, SMTT(40) DEF Combines
<1>5. PICK h : IsFold(h, D, ch, Nat, 0, F)
  <2>. HIDE DEF F, D, ch
  <2>1. 0 \in Nat
    OBVIOUS
  <2>. QED
    BY <1>3, <1>4, <2>1, FoldExists, Zenon
<1>6. h = step(h)
  <2>. HIDE DEF F
  <2>1. h \in [SUBSET D -> Nat]
    BY <1>5 DEF IsFold
  <2>2. h[{}] = 0
    BY <1>5 DEF IsFold, FoldStep
  <2>3. ASSUME NEW s \in SUBSET D, s # {}
        PROVE  h[s] = 10 * h[s \ {Max(s)}] + digits[Max(s)]
    <3>1. ch[s] = Max(s) /\ Max(s) \in D /\ h[s \ {Max(s)}] \in Nat
      BY <1>3, <2>1, <2>3
    <3>2. h[s] = F[<<h[s \ {Max(s)}], Max(s)>>]
      BY <1>5, <2>3, <3>1 DEF IsFold, FoldStep
    <3>. QED
      BY <1>4, <3>1, <3>2
  <2>. QED
    BY <2>1, <2>2, <2>3
<1>7. G = step(G)
  <2>. HIDE DEF step
  <2>. QED
    BY <1>6
<1>. HIDE DEF G
<1>8. p[0] = 0
  <2>1. 1 .. 0 = {}
    OBVIOUS
  <2>. QED
    BY <1>2, <1>7, <2>1
<1>9. ASSUME NEW k \in 1 .. Len(digits)
      PROVE  p[k] = 10 * p[k - 1] + digits[k]
  <2>1. /\ 1 .. k \in SUBSET D /\ 1 .. k # {} /\ Max(1 .. k) = k
        /\ (1 .. k) \ {k} = 1 .. (k - 1) /\ k \in 0 .. Len(digits) /\ k - 1 \in 0 .. Len(digits)
    BY <1>2, <1>3
  <2>2. G[1 .. k] = 10 * G[(1 .. k) \ {k}] + digits[k]
    BY <1>7, <2>1
  <2>. QED
    BY <2>1, <2>2
<1>10. p \in [0 .. Len(digits) -> Nat]
  <2>. DEFINE S == {k \in Nat : k <= Len(digits) => p[k] \in Nat}
  <2>. HIDE DEF p
  <2>1. 0 \in S
    BY <1>8
  <2>2. ASSUME NEW k \in Nat, k \in S
        PROVE  k + 1 \in S
    <3>1. SUFFICES ASSUME k + 1 <= Len(digits)
                   PROVE  p[k + 1] \in Nat
      OBVIOUS
    <3>2. k + 1 \in 1 .. Len(digits) /\ (k + 1) - 1 = k /\ p[k] \in Nat
      BY <1>2, <2>2, <3>1
    <3>3. p[k + 1] = 10 * p[k] + digits[k + 1] /\ digits[k + 1] \in Nat
      BY <1>2, <1>9, <3>2
    <3>. QED
      BY <3>2, <3>3
  <2>3. S = Nat
    <3>. HIDE DEF S
    <3>1. S \in SUBSET Nat
      BY DEF S
    <3>. QED
      BY <2>1, <2>2, <3>1, Induction
  <2>4. \A k \in 0 .. Len(digits) : p[k] \in Nat
    BY <1>2, <2>3
  <2>. QED
    BY <2>4 DEF p
<1>11. p[Len(digits)] = G[D]
  BY <1>2
<1>. HIDE DEF p, D
<1>. QED
  BY <1>1, <1>8, <1>9, <1>10, <1>11 DEF Reads

(* A sequence of digits reads in one way.                                  *)
LEMMA ReadsOnce ==
    ASSUME NEW s \in Seq(Nat), NEW p, NEW q, Reads(s, p), Reads(s, q),
           NEW k \in 0 .. Len(s)
    PROVE  p[k] = q[k]
<1>. DEFINE S == {i \in 0 .. Len(s) : p[i] = q[i]}
<1>1. 0 \in S
  BY DEF Reads
<1>2. \A i \in 1 .. k : i - 1 \in S => i \in S
  BY DEF Reads
<1>3. k \in S
  <2>1. k \in Nat
    OBVIOUS
  <2>. QED
    BY <1>1, <1>2, <2>1, PlaceByPlace
<1>. QED
  BY <1>3

(* One more digit.                                                         *)
LEMMA ValueOfAppend ==
    ASSUME NEW s \in Seq(Nat), NEW d \in Nat
    PROVE  ValueOf(Append(s, d)) = 10 * ValueOf(s) + d
<1>. DEFINE t == Append(s, d)
<1>1. /\ t \in Seq(Nat) /\ Len(s) \in Nat /\ Len(t) = Len(s) + 1 /\ t[Len(t)] = d
      /\ \A k \in 1 .. Len(s) : t[k] = s[k]
  OBVIOUS
<1>. HIDE DEF t
<1>2. PICK p : Reads(t, p) /\ ValueOf(t) = p[Len(t)]
  BY <1>1, ValueIsRead
<1>3. PICK q : Reads(s, q) /\ ValueOf(s) = q[Len(s)]
  BY ValueIsRead
<1>. DEFINE f == [k \in 0 .. Len(s) |-> p[k]]
<1>4. Reads(s, f)
  BY <1>1, <1>2 DEF Reads
<1>5. f[Len(s)] = q[Len(s)]
  <2>. HIDE DEF f
  <2>. QED
    BY <1>1, <1>3, <1>4, ReadsOnce
<1>6. p[Len(t)] = 10 * p[Len(s)] + d
  <2>1. Len(t) \in 1 .. Len(t) /\ Len(t) - 1 = Len(s)
    BY <1>1
  <2>. QED
    BY <1>1, <1>2, <2>1 DEF Reads
<1>7. p[Len(s)] = f[Len(s)]
  BY <1>1
<1>. QED
  BY <1>2, <1>3, <1>5, <1>6, <1>7 DEF t

(* Zeros before the digits do not count.                                   *)
LEMMA ValueOfPadded ==
    ASSUME NEW s \in Seq(Nat), NEW n \in Nat
    PROVE  /\ [i \in 1 .. n |-> 0] \o s \in Seq(Nat)
           /\ ValueOf([i \in 1 .. n |-> 0] \o s) = ValueOf(s)
<1>. DEFINE z == [i \in 1 .. n |-> 0]
            t == z \o s
<1>1. z \in Seq(Nat) /\ Len(z) = n
  OBVIOUS
<1>2. /\ t \in Seq(Nat) /\ Len(s) \in Nat /\ Len(t) = n + Len(s)
      /\ \A k \in 1 .. n : t[k] = 0
      /\ \A k \in 1 .. Len(s) : t[n + k] = s[k]
  <2>1. \A k \in 1 .. n : z[k] = 0
    OBVIOUS
  <2>. HIDE DEF z
  <2>2. t \in Seq(Nat) /\ Len(s) \in Nat /\ Len(t) = n + Len(s)
    BY <1>1
  <2>3. \A k \in 1 .. n : t[k] = z[k]
    BY <1>1
  <2>4. \A k \in 1 .. Len(s) : t[n + k] = s[k]
    BY <1>1, <2>2
  <2>. QED
    BY <2>1, <2>2, <2>3, <2>4
<1>. HIDE DEF t
<1>3. PICK p : Reads(t, p) /\ ValueOf(t) = p[Len(t)]
  BY <1>2, ValueIsRead
<1>4. PICK q : Reads(s, q) /\ ValueOf(s) = q[Len(s)]
  BY ValueIsRead
<1>5. p[n] = 0
  <2>. DEFINE S == {k \in 0 .. n : p[k] = 0}
  <2>1. 0 \in S
    BY <1>3 DEF Reads
  <2>2. ASSUME NEW k \in 1 .. n, k - 1 \in S
        PROVE  k \in S
    <3>1. p[k] = 10 * p[k - 1] + t[k]
      BY <1>2, <1>3 DEF Reads
    <3>. QED
      BY <1>2, <2>2, <3>1
  <2>3. n \in S
    BY <2>1, <2>2, PlaceByPlace
  <2>. QED
    BY <2>3
<1>. DEFINE f == [k \in 0 .. Len(s) |-> p[n + k]]
<1>6. Reads(s, f)
  <2>1. f \in [0 .. Len(s) -> Nat] /\ f[0] = 0
    BY <1>2, <1>3, <1>5 DEF Reads
  <2>2. ASSUME NEW k \in 1 .. Len(s)
        PROVE  f[k] = 10 * f[k - 1] + s[k]
    <3>1. n + k \in 1 .. Len(t) /\ (n + k) - 1 = n + (k - 1)
      BY <1>2
    <3>2. p[n + k] = 10 * p[n + (k - 1)] + t[n + k]
      BY <1>3, <3>1 DEF Reads
    <3>. QED
      BY <1>2, <3>2
  <2>. HIDE DEF f
  <2>. QED
    BY <2>1, <2>2 DEF Reads
<1>7. f[Len(s)] = q[Len(s)]
  <2>. HIDE DEF f
  <2>. QED
    BY <1>2, <1>4, <1>6, ReadsOnce
<1>8. p[Len(t)] = f[Len(s)]
  BY <1>2
<1>. QED
  BY <1>2, <1>3, <1>4, <1>7, <1>8 DEF t

(* g has the digits of the numbers up to n.                                *)
DigitsOf(g, m) == IF m < 10 THEN <<m>> ELSE Append(g[m \div 10], m % 10)
HasDigits(g, n) == g \in [Nat -> Seq(Nat)] /\ \A m \in 0 .. n : g[m] = DigitsOf(g, m)

(* The last digit and the others.                                          *)
LEMMA TenthIsLess ==
    ASSUME NEW m \in Nat, m >= 10
    PROVE  m \div 10 \in Nat /\ m \div 10 < m /\ m \div 10 >= 1 /\ m % 10 \in Nat
           /\ m % 10 = m - 10 * (m \div 10)
<1>1. m \div 10 \in Nat /\ m % 10 \in Nat
  OBVIOUS
<1>2. PICK q, d \in Nat : q = m \div 10 /\ d = m % 10
  BY <1>1
<1>3. 10 * q + d = m /\ d < 10
  BY <1>2
<1>4. q < m /\ q >= 1
  BY <1>3
<1>5. m \div 10 < m /\ m \div 10 >= 1
  BY <1>2, <1>4
<1>6. m % 10 = m - 10 * (m \div 10)
  OBVIOUS
<1>. QED
  BY <1>1, <1>5, <1>6

(* The recursion has a solution up to any number.                          *)
LEMMA DigitsUpTo ==
    ASSUME NEW n \in Nat
    PROVE  \E g : HasDigits(g, n)
<1>. DEFINE S == {k \in Nat : \E g : HasDigits(g, k)}
<1>1. ASSUME NEW g \in [Nat -> Seq(Nat)], NEW m \in Nat
      PROVE  DigitsOf(g, m) \in Seq(Nat)
  <2>1. CASE m < 10
    BY <2>1 DEF DigitsOf
  <2>2. CASE m >= 10
    <3>1. g[m \div 10] \in Seq(Nat) /\ m % 10 \in Nat
      BY <2>2, TenthIsLess
    <3>2. DigitsOf(g, m) = Append(g[m \div 10], m % 10)
      <4>1. ~(m < 10)
        BY <2>2
      <4>. QED
        BY <4>1, Zenon DEF DigitsOf
    <3>. QED
      BY <3>1, <3>2
  <2>. QED
    BY <2>1, <2>2
<1>2. 0 \in S
  <2>. DEFINE g == [m \in Nat |-> <<0>>]
  <2>1. g \in [Nat -> Seq(Nat)]
    OBVIOUS
  <2>2. HasDigits(g, 0)
    BY <2>1 DEF HasDigits, DigitsOf
  <2>. QED
    BY <2>2
<1>3. ASSUME NEW k \in Nat, k \in S
      PROVE  k + 1 \in S
  <2>1. PICK g : HasDigits(g, k)
    BY <1>3
  <2>. DEFINE h == [g EXCEPT ![k + 1] = DigitsOf(g, k + 1)]
  <2>2. h \in [Nat -> Seq(Nat)]
    BY <1>1, <2>1 DEF HasDigits
  <2>3. ASSUME NEW m \in 0 .. k + 1
        PROVE  h[m] = DigitsOf(h, m)
    <3>1. h[m] = DigitsOf(g, m)
      BY <2>1 DEF HasDigits
    <3>2. DigitsOf(h, m) = DigitsOf(g, m)
      <4>1. CASE m < 10
        BY <4>1 DEF DigitsOf
      <4>2. CASE m >= 10
        <5>1. m \div 10 \in Nat /\ m \div 10 # k + 1
          BY <4>2, TenthIsLess
        <5>2. h[m \div 10] = g[m \div 10]
          BY <2>1, <5>1 DEF HasDigits
        <5>. QED
          BY <5>2 DEF DigitsOf
      <4>. QED
        BY <4>1, <4>2
    <3>. QED
      BY <3>1, <3>2
  <2>4. HasDigits(h, k + 1)
    <3>. HIDE DEF h
    <3>. QED
      BY <2>2, <2>3 DEF HasDigits
  <2>. QED
    BY <2>4
<1>4. S = Nat
  BY <1>2, <1>3, Induction
<1>. QED
  BY <1>4

(* There is one solution.                                                  *)
LEMMA DigitsOnce ==
    ASSUME NEW n \in Nat, NEW m \in 0 .. n, NEW k \in 0 .. m,
           NEW g, NEW h, HasDigits(g, n), HasDigits(h, m)
    PROVE  g[k] = h[k]
<1>. DEFINE S == {i \in Nat : \A j \in 0 .. i : j <= m => g[j] = h[j]}
<1>1. ASSUME NEW j \in 0 .. m, j < 10 \/ g[j \div 10] = h[j \div 10]
      PROVE  g[j] = h[j]
  <2>1. j \in 0 .. n
    OBVIOUS
  <2>2. g[j] = DigitsOf(g, j) /\ h[j] = DigitsOf(h, j)
    BY <2>1 DEF HasDigits
  <2>. QED
    BY <1>1, <2>2, Zenon DEF DigitsOf
<1>2. 0 \in S
  BY <1>1
<1>3. ASSUME NEW i \in Nat, i \in S
      PROVE  i + 1 \in S
  <2>1. ASSUME NEW j \in 0 .. i + 1, j <= m
        PROVE  g[j] = h[j]
    <3>1. CASE j < 10
      BY <1>1, <2>1, <3>1
    <3>2. CASE j >= 10
      <4>1. j \div 10 \in 0 .. i /\ j \div 10 <= m
        BY <2>1, <3>2, TenthIsLess
      <4>. QED
        BY <1>1, <1>3, <2>1, <4>1
    <3>. QED
      BY <3>1, <3>2
  <2>. QED
    BY <2>1
<1>4. S = Nat
  BY <1>2, <1>3, Induction
<1>. QED
  BY <1>4

(* Digits is what its definition says.                                     *)
LEMMA DigitsEquation ==
    \A n \in Nat : Digits[n] = IF n < 10 THEN <<n>> ELSE Append(Digits[n \div 10], n % 10)
<1>. DEFINE G(n) == CHOOSE g : HasDigits(g, n)
            f == [n \in Nat |-> G(n)[n]]
<1>1. \A n \in Nat : HasDigits(G(n), n)
  BY DigitsUpTo
<1>. HIDE DEF G
<1>2. f \in [Nat -> Seq(Nat)]
  BY <1>1 DEF HasDigits
<1>3. ASSUME NEW n \in Nat
      PROVE  f[n] = DigitsOf(f, n)
  <2>1. f[n] = DigitsOf(G(n), n)
    BY <1>1 DEF HasDigits
  <2>2. CASE n < 10
    BY <2>1, <2>2 DEF DigitsOf
  <2>3. CASE n >= 10
    <3>1. n \div 10 \in 0 .. n /\ n \div 10 \in Nat
      BY <2>3, TenthIsLess
    <3>2. n \div 10 \in 0 .. (n \div 10)
      BY <3>1
    <3>3. G(n)[n \div 10] = G(n \div 10)[n \div 10]
      BY <1>1, <3>1, <3>2, DigitsOnce
    <3>4. f[n \div 10] = G(n)[n \div 10]
      BY <3>1, <3>3
    <3>. HIDE DEF f
    <3>. QED
      BY <2>1, <3>4 DEF DigitsOf
  <2>. QED
    BY <2>2, <2>3
<1>4. f = [n \in Nat |-> IF n < 10 THEN <<n>> ELSE Append(f[n \div 10], n % 10)]
  BY <1>2, <1>3, SMTT(40) DEF DigitsOf
<1>. HIDE DEF f
<1>5. Digits = [n \in Nat |-> IF n < 10 THEN <<n>> ELSE Append(Digits[n \div 10], n % 10)]
  BY <1>4 DEF Digits
<1>. HIDE DEF Digits
<1>. QED
  BY <1>5, Zenon

(* s is a number of at least one digit, reads as n and, from 10 on, does   *)
(* not start with a zero.                                                  *)
Spells(s, n) ==
    s \in Seq(Nat) /\ Len(s) >= 1 /\ ValueOf(s) = n /\ (n >= 1 => s[1] # 0)

(* One digit reads as itself.                                              *)
LEMMA OneDigit ==
    ASSUME NEW d \in Nat
    PROVE  Spells(<<d>>, d)
<1>1. <<d>> \in Seq(Nat) /\ Len(<<d>>) = 1 /\ <<d>>[1] = d
  OBVIOUS
<1>2. PICK p : Reads(<<d>>, p) /\ ValueOf(<<d>>) = p[Len(<<d>>)]
  BY <1>1, ValueIsRead
<1>3. p[0] = 0 /\ p[1] = 10 * p[1 - 1] + d
  BY <1>1, <1>2 DEF Reads
<1>4. p[1] = d
  BY <1>3
<1>. QED
  BY <1>1, <1>2, <1>4 DEF Spells

(* The digits of a number spell it.                                        *)
LEMMA DigitsSpell ==
    ASSUME NEW n \in Nat
    PROVE  Spells(Digits[n], n)
<1>. DEFINE S == {k \in Nat : \A m \in 0 .. k : Spells(Digits[m], m)}
<1>1. ASSUME NEW m \in Nat, m < 10
      PROVE  Spells(Digits[m], m)
  BY <1>1, OneDigit, DigitsEquation
<1>2. ASSUME NEW m \in Nat, m >= 10, Spells(Digits[m \div 10], m \div 10)
      PROVE  Spells(Digits[m], m)
  <2>1. ~(m < 10)
    BY <1>2
  <2>2. Digits[m] = Append(Digits[m \div 10], m % 10)
    BY <2>1, DigitsEquation
  <2>3. /\ m \div 10 \in Nat /\ m \div 10 >= 1 /\ m % 10 \in Nat
        /\ m % 10 = m - 10 * (m \div 10)
    BY <1>2, TenthIsLess
  <2>4. PICK q, d \in Nat : q = m \div 10 /\ d = m % 10
    BY <2>3
  <2>5. PICK s : s = Digits[m \div 10]
    OBVIOUS
  <2>6. s \in Seq(Nat) /\ Len(s) >= 1 /\ ValueOf(s) = q /\ s[1] # 0
    BY <1>2, <2>3, <2>4, <2>5 DEF Spells
  <2>7. Append(s, d) \in Seq(Nat) /\ Len(Append(s, d)) >= 1 /\ Append(s, d)[1] # 0
    BY <2>6
  <2>8. ValueOf(Append(s, d)) = 10 * q + d
    BY <2>6, ValueOfAppend
  <2>9. 10 * q + d = m
    BY <2>3, <2>4
  <2>10. Digits[m] = Append(s, d) /\ ValueOf(Append(s, d)) = m
    BY <2>2, <2>4, <2>5, <2>8, <2>9, Zenon
  <2>. QED
    BY <2>7, <2>10 DEF Spells
<1>3. 0 \in S
  BY <1>1
<1>4. ASSUME NEW k \in Nat, k \in S
      PROVE  k + 1 \in S
  <2>1. ASSUME NEW m \in 0 .. k + 1
        PROVE  Spells(Digits[m], m)
    <3>1. CASE m < 10
      BY <1>1, <3>1
    <3>2. CASE m >= 10
      <4>1. m \div 10 \in 0 .. k
        BY <3>2, TenthIsLess
      <4>. QED
        BY <1>2, <1>4, <3>2, <4>1
    <3>. QED
      BY <3>1, <3>2
  <2>. QED
    BY <2>1
<1>5. S = Nat
  BY <1>3, <1>4, Induction
<1>. QED
  BY <1>5

(* A digit more than a tenth of it has.                                    *)
LEMMA DigitsLength ==
    ASSUME NEW n \in Nat
    PROVE  /\ Len(Digits[n]) \in Nat /\ Len(Digits[n]) >= 1
           /\ n < 10 => Len(Digits[n]) = 1
           /\ n >= 10 => Len(Digits[n]) = Len(Digits[n \div 10]) + 1
<1>1. Digits[n] \in Seq(Nat) /\ Len(Digits[n]) >= 1
  BY DigitsSpell DEF Spells
<1>2. CASE n < 10
  <2>1. Digits[n] = <<n>>
    BY <1>2, DigitsEquation
  <2>. QED
    BY <1>1, <1>2, <2>1
<1>3. CASE n >= 10
  <2>1. ~(n < 10) /\ n \div 10 \in Nat /\ n % 10 \in Nat
    BY <1>3, TenthIsLess
  <2>2. Digits[n] = Append(Digits[n \div 10], n % 10)
    BY <2>1, DigitsEquation
  <2>3. Digits[n \div 10] \in Seq(Nat)
    BY <2>1, DigitsSpell DEF Spells
  <2>. QED
    BY <1>1, <1>3, <2>1, <2>2, <2>3
<1>. QED
  BY <1>2, <1>3

(* How long a number is.                                                   *)
LEMMA LengthByValue ==
    ASSUME NEW n \in Nat
    PROVE  /\ n <= 999 => Len(Digits[n]) <= 3
           /\ n > 999 => Len(Digits[n]) >= 4
           /\ n > 9999 => Len(Digits[n]) >= 5
<1>1. ASSUME NEW m \in Nat
      PROVE  /\ m \div 10 \in Nat
             /\ m <= 99 => m \div 10 <= 9
             /\ m <= 999 => m \div 10 <= 99
             /\ m > 99 => m \div 10 > 9
             /\ m > 999 => m \div 10 > 99
             /\ m > 9999 => m \div 10 > 999
  <2>1. m \div 10 \in Nat
    OBVIOUS
  <2>2. PICK q \in Nat : q = m \div 10
    BY <2>1
  <2>3. 10 * q <= m /\ m < 10 * q + 10
    BY <2>2
  <2>4. /\ m <= 99 => q <= 9
        /\ m <= 999 => q <= 99
        /\ m > 99 => q > 9
        /\ m > 999 => q > 99
        /\ m > 9999 => q > 999
    BY <2>3
  <2>. QED
    BY <2>1, <2>2, <2>4
<1>2. ASSUME NEW m \in Nat
      PROVE  /\ m <= 99 => Len(Digits[m]) <= 2
             /\ m > 9 => Len(Digits[m]) >= 2
  <2>1. m \div 10 \in Nat /\ (m <= 99 => m \div 10 <= 9)
    BY <1>1
  <2>2. PICK k, j \in Nat : k = Len(Digits[m]) /\ j = Len(Digits[m \div 10])
    BY <2>1, DigitsLength
  <2>3. /\ m < 10 => k = 1
        /\ m >= 10 => k = j + 1
        /\ j >= 1 /\ (m \div 10 <= 9 => j = 1)
    BY <2>1, <2>2, DigitsLength
  <2>4. (m <= 99 => k <= 2) /\ (m > 9 => k >= 2)
    BY <2>1, <2>3
  <2>. QED
    BY <2>2, <2>4, Zenon
<1>3. ASSUME NEW m \in Nat
      PROVE  /\ m <= 999 => Len(Digits[m]) <= 3
             /\ m > 99 => Len(Digits[m]) >= 3
  <2>1. m \div 10 \in Nat /\ (m <= 999 => m \div 10 <= 99) /\ (m > 99 => m \div 10 > 9)
    BY <1>1
  <2>2. PICK k, j \in Nat : k = Len(Digits[m]) /\ j = Len(Digits[m \div 10])
    BY <2>1, DigitsLength
  <2>3. (m < 10 => k = 1) /\ (m >= 10 => k = j + 1)
    BY <2>2, DigitsLength
  <2>4. (m \div 10 <= 99 => j <= 2) /\ (m \div 10 > 9 => j >= 2)
    BY <1>2, <2>1, <2>2
  <2>5. (m <= 999 => k <= 3) /\ (m > 99 => k >= 3)
    BY <2>1, <2>3, <2>4
  <2>. QED
    BY <2>2, <2>5, Zenon
<1>4. ASSUME NEW m \in Nat, m > 999
      PROVE  Len(Digits[m]) >= 4
  <2>1. m \div 10 \in Nat /\ m \div 10 > 99 /\ m >= 10
    BY <1>1, <1>4
  <2>. QED
    BY <1>3, <2>1, DigitsLength
<1>5. ASSUME NEW m \in Nat, m > 9999
      PROVE  Len(Digits[m]) >= 5
  <2>1. m \div 10 \in Nat /\ m \div 10 > 999 /\ m >= 10
    BY <1>1, <1>5
  <2>. QED
    BY <1>4, <2>1, DigitsLength
<1>. QED
  BY <1>3, <1>4, <1>5

(* An order number reads as the number it was made of, has three digits at *)
(* least, and starts with a zero only if it has three.                     *)
LEMMA SetNumberReadsBack ==
    ASSUME NEW n \in Nat
    PROVE  /\ ValueOf(SetNumber(n)) = n
           /\ Len(SetNumber(n)) >= 3
           /\ Len(SetNumber(n)) > 3 => SetNumber(n)[1] # 0
<1>1. PICK d : d = Digits[n]
  OBVIOUS
<1>2. d \in Seq(Nat) /\ Len(d) \in Nat /\ Len(d) >= 1 /\ ValueOf(d) = n /\ (n >= 1 => d[1] # 0)
  BY <1>1, DigitsSpell DEF Spells
<1>3. /\ n <= 999 => Len(d) <= 3
      /\ n > 999 => Len(d) >= 4
      /\ n > 9999 => Len(d) >= 5
  BY <1>1, LengthByValue
<1>4. PICK w \in 3 .. 5 : w = IF n > 9999 THEN 5 ELSE IF n > 999 THEN 4 ELSE 3
  OBVIOUS
<1>5. SetNumber(n) = [i \in 1 .. w - Len(d) |-> 0] \o d
  BY <1>1, <1>4 DEF SetNumber, Padded
<1>6. CASE Len(d) >= w
  <2>1. 1 .. w - Len(d) = 1 .. 0
    BY <1>2, <1>6
  <2>2. SetNumber(n) = [i \in 1 .. 0 |-> 0] \o d
    BY <1>5, <2>1
  <2>3. [i \in 1 .. 0 |-> 0] = << >>
    OBVIOUS
  <2>4. << >> \o d = d
    BY <1>2
  <2>5. SetNumber(n) = d
    BY <2>2, <2>3, <2>4
  <2>6. Len(d) >= 3 /\ (Len(d) > 3 => n >= 1)
    BY <1>2, <1>3, <1>6
  <2>. QED
    BY <1>2, <2>5, <2>6
<1>7. CASE Len(d) < w
  <2>1. w = 3
    BY <1>2, <1>3, <1>4, <1>7
  <2>2. PICK k \in Nat : k = w - Len(d)
    BY <1>2, <1>7
  <2>3. PICK z : z = [i \in 1 .. k |-> 0]
    OBVIOUS
  <2>4. SetNumber(n) = z \o d
    BY <1>5, <2>2, <2>3, Zenon
  <2>5. ValueOf(z \o d) = n
    BY <1>2, <2>3, ValueOfPadded, Zenon
  <2>6. Len(z) = k /\ z \in Seq(Nat)
    BY <2>3
  <2>7. Len(z \o d) = k + Len(d)
    BY <1>2, <2>6
  <2>8. Len(SetNumber(n)) = 3
    BY <1>2, <2>1, <2>2, <2>4, <2>7
  <2>. QED
    BY <2>4, <2>5, <2>8
<1>. QED
  BY <1>2, <1>6, <1>7

-----------------------------------------------------------------------------
(* The list of order types.                                                *)

Entry == [word: STRING, blanks: BOOLEAN]
Read == [err: {"", "ErrDuplicateOrderType", "ErrInvalidOrderType"}, types: Seq(STRING)]

(* p holds what the loop of ValidateOrderTypes has read.                   *)
ReadsTypes(entries, p) ==
    /\ p \in [0 .. Len(entries) -> Read]
    /\ p[0] = NothingRead
    /\ \A k \in 1 .. Len(entries) : p[k] = ReadEntry(p[k - 1], entries[k])

(* One round of the loop.                                                  *)
LEMMA ReadEntryType ==
    ASSUME NEW read \in Read, NEW entry \in Entry
    PROVE  ReadEntry(read, entry) \in Read
<1>1. entry.word \in STRING /\ read.types \in Seq(STRING)
  BY DEF Entry, Read
<1>2. Append(read.types, entry.word) \in Seq(STRING)
  BY <1>1
<1>3. /\ [read EXCEPT !.err = "ErrDuplicateOrderType"] \in Read
      /\ [read EXCEPT !.err = "ErrInvalidOrderType"] \in Read
      /\ [read EXCEPT !.types = Append(@, entry.word)] \in Read
  BY <1>2 DEF Read
<1>. QED
  BY <1>3 DEF ReadEntry, TrimSpace

(* The loop reads entry by entry.                                          *)
LEMMA TypesAreRead ==
    ASSUME NEW entries \in Seq(Entry)
    PROVE  \E p : /\ ReadsTypes(entries, p)
                  /\ FoldLeft(ReadEntry, NothingRead, entries) = p[Len(entries)]
<1>. DEFINE D == DOMAIN entries
            ch == [s \in SUBSET D |-> Max(s)]
            step(g) == [s \in SUBSET D |->
                          IF s = {} THEN NothingRead
                          ELSE LET x == Max(s) IN ReadEntry(g[s \ {x}], entries[x])]
            G == CHOOSE g : g = step(g)
            F == [x \in Read \X D |-> ReadEntry(x[1], entries[x[2]])]
            p == [k \in 0 .. Len(entries) |-> G[1 .. k]]
<1>1. FoldLeft(ReadEntry, NothingRead, entries) = G[D]
  BY DEF FoldLeft, MapThenFoldSet
<1>2. Len(entries) \in Nat /\ D = 1 .. Len(entries) /\ \A x \in D : entries[x] \in Entry
  OBVIOUS
<1>3. /\ Picks(ch, D) /\ IsFiniteSet(D)
      /\ \A s \in SUBSET D : s # {} => Max(s) \in s
      /\ \A k \in 1 .. Len(entries) : Max(1 .. k) = k
  <2>1. \A s \in SUBSET D : s # {} => Max(s) \in s
    BY <1>2, LastPlace
  <2>2. \A k \in 1 .. Len(entries) : Max(1 .. k) = k
    BY <1>2, LastPlace
  <2>3. IsFiniteSet(1 .. Len(entries))
    BY <1>2, FS_Interval
  <2>. QED
    BY <1>2, <2>1, <2>2, <2>3 DEF Picks
<1>4. Combines(F, Read, D) /\ \A a \in Read : \A x \in D : F[<<a, x>>] = ReadEntry(a, entries[x])
  <2>. HIDE DEF D
  <2>1. \A y \in Read \X D : F[y] \in Read
    BY <1>2, ReadEntryType
  <2>2. F \in [Read \X D -> Read]
    BY <2>1
  <2>. QED
    BY <2>2 DEF Combines
<1>5. NothingRead \in Read
  <2>1. << >> \in Seq(STRING)
    OBVIOUS
  <2>. QED
    BY <2>1 DEF NothingRead, Read
<1>6. PICK h : IsFold(h, D, ch, Read, NothingRead, F)
  <2>. HIDE DEF F, D, ch
  <2>. QED
    BY <1>3, <1>4, <1>5, FoldExists, Zenon
<1>7. h = step(h)
  <2>. HIDE DEF F
  <2>1. h \in [SUBSET D -> Read]
    BY <1>6 DEF IsFold
  <2>2. h[{}] = NothingRead
    BY <1>6 DEF IsFold, FoldStep
  <2>3. ASSUME NEW s \in SUBSET D, s # {}
        PROVE  h[s] = ReadEntry(h[s \ {Max(s)}], entries[Max(s)])
    <3>1. ch[s] = Max(s) /\ Max(s) \in D /\ h[s \ {Max(s)}] \in Read
      BY <1>3, <2>1, <2>3
    <3>2. h[s] = F[<<h[s \ {Max(s)}], Max(s)>>]
      BY <1>6, <2>3, <3>1 DEF IsFold, FoldStep
    <3>. QED
      BY <1>4, <3>1, <3>2
  <2>. QED
    BY <2>1, <2>2, <2>3
<1>8. G = step(G)
  <2>. HIDE DEF step
  <2>. QED
    BY <1>7
<1>. HIDE DEF G
<1>9. p[0] = NothingRead
  <2>1. 1 .. 0 = {}
    OBVIOUS
  <2>. QED
    BY <1>2, <1>8, <2>1
<1>10. ASSUME NEW k \in 1 .. Len(entries)
       PROVE  p[k] = ReadEntry(p[k - 1], entries[k])
  <2>1. /\ 1 .. k \in SUBSET D /\ 1 .. k # {} /\ Max(1 .. k) = k
        /\ (1 .. k) \ {k} = 1 .. (k - 1) /\ k \in 0 .. Len(entries) /\ k - 1 \in 0 .. Len(entries)
    BY <1>2, <1>3
  <2>2. G[1 .. k] = ReadEntry(G[(1 .. k) \ {k}], entries[k])
    BY <1>8, <2>1
  <2>. QED
    BY <2>1, <2>2
<1>11. p \in [0 .. Len(entries) -> Read]
  <2>. DEFINE S == {k \in Nat : k <= Len(entries) => p[k] \in Read}
  <2>. HIDE DEF p
  <2>1. 0 \in S
    BY <1>5, <1>9
  <2>2. ASSUME NEW k \in Nat, k \in S
        PROVE  k + 1 \in S
    <3>1. SUFFICES ASSUME k + 1 <= Len(entries)
                   PROVE  p[k + 1] \in Read
      OBVIOUS
    <3>2. k + 1 \in 1 .. Len(entries) /\ (k + 1) - 1 = k /\ p[k] \in Read
      BY <1>2, <2>2, <3>1
    <3>3. p[k + 1] = ReadEntry(p[k], entries[k + 1]) /\ entries[k + 1] \in Entry
      BY <1>2, <1>10, <3>2
    <3>. QED
      BY <3>2, <3>3, ReadEntryType
  <2>3. S = Nat
    <3>. HIDE DEF S
    <3>1. S \in SUBSET Nat
      BY DEF S
    <3>. QED
      BY <2>1, <2>2, <3>1, Induction
  <2>4. \A k \in 0 .. Len(entries) : p[k] \in Read
    BY <1>2, <2>3
  <2>. QED
    BY <2>4 DEF p
<1>12. p[Len(entries)] = G[D]
  BY <1>2
<1>. HIDE DEF p, D
<1>. QED
  BY <1>1, <1>9, <1>10, <1>11, <1>12 DEF ReadsTypes

(* A sequence without repetitions is as long as the set of its elements.   *)
LEMMA DistinctLength ==
    ASSUME NEW T, NEW s \in Seq(T), \A i, j \in DOMAIN s : s[i] = s[j] => i = j
    PROVE  Len(s) = Cardinality(ToSet(s))
<1>1. Len(s) \in Nat /\ DOMAIN s = 1 .. Len(s)
  OBVIOUS
<1>2. s \in [1 .. Len(s) -> ToSet(s)]
  BY <1>1 DEF ToSet
<1>3. s \in Bijection(1 .. Len(s), ToSet(s))
  BY <1>1, <1>2 DEF Bijection, Injection, Surjection, IsInjective, ToSet
<1>4. ExistsBijection(1 .. Len(s), ToSet(s))
  BY <1>3 DEF ExistsBijection
<1>. QED
  BY <1>1, <1>4, FS_CountingElements

(* A sequence without elements is empty.                                   *)
LEMMA EmptyByElements ==
    ASSUME NEW T, NEW s \in Seq(T)
    PROVE  s = << >> <=> ToSet(s) = {}
<1>1. DOMAIN s = 1 .. Len(s) /\ Len(s) \in Nat
  OBVIOUS
<1>2. s = << >> <=> DOMAIN s = {}
  <2>1. s = << >> => DOMAIN s = {}
    OBVIOUS
  <2>2. DOMAIN s = {} => Len(s) = 0
    BY <1>1
  <2>3. Len(s) = 0 => s = << >>
    OBVIOUS
  <2>. QED
    BY <2>1, <2>2, <2>3
<1>3. DOMAIN s = {} <=> ToSet(s) = {}
  BY DEF ToSet
<1>. QED
  BY <1>2, <1>3

(* Before the loop of ValidateOrderTypes.                                  *)
LEMMA NothingReadYet == NothingRead.err = "" /\ NothingRead.types = << >>
  BY DEF NothingRead

(* A worker without --order-types consumes all types, each once.           *)
LEMMA AllTypesInSequence ==
    LET s == SetToSeq(AllOrderTypes)
    IN  ToSet(s) = AllOrderTypes /\ Len(s) = Cardinality(ToSet(s))
<1>1. Cardinality(AllOrderTypes) = 3
  <2>1. IsFiniteSet({"dine_in"}) /\ Cardinality({"dine_in"}) = 1
    BY FS_Singleton
  <2>2. /\ IsFiniteSet({"dine_in"} \cup {"takeout"})
        /\ Cardinality({"dine_in"} \cup {"takeout"}) = 2
    BY <2>1, FS_AddElement
  <2>3. Cardinality(({"dine_in"} \cup {"takeout"}) \cup {"delivery"}) = 3
    BY <2>2, FS_AddElement
  <2>4. AllOrderTypes = ({"dine_in"} \cup {"takeout"}) \cup {"delivery"}
    BY DEF AllOrderTypes
  <2>. QED
    BY <2>3, <2>4
<1>2. \E f \in [1 .. 3 -> AllOrderTypes] : IsInjective(f)
  <2>1. PICK f : f = [i \in 1 .. 3 |-> IF i = 1 THEN "dine_in" ELSE IF i = 2 THEN "takeout" ELSE "delivery"]
    OBVIOUS
  <2>2. f \in [1 .. 3 -> AllOrderTypes] /\ IsInjective(f)
    BY <2>1 DEF AllOrderTypes, IsInjective
  <2>. QED
    BY <2>2
<1>3. PICK s : s = SetToSeq(AllOrderTypes)
  OBVIOUS
<1>4. s \in [1 .. 3 -> AllOrderTypes] /\ IsInjective(s)
  BY <1>1, <1>2, <1>3 DEF SetToSeq
<1>5. s[1] # s[2] /\ s[1] # s[3] /\ s[2] # s[3]
  BY <1>4 DEF IsInjective
<1>6. ToSet(s) = AllOrderTypes
  BY <1>4, <1>5 DEF ToSet, AllOrderTypes
<1>7. Len(s) = 3
  <2>1. s = [i \in 1 .. 3 |-> s[i]] /\ \A i \in 1 .. 3 : s[i] \in AllOrderTypes
    BY <1>4
  <2>. QED
    BY <2>1
<1>. QED
  BY <1>1, <1>3, <1>6, <1>7

(* Places up to k whose entry is not blank.                                *)
WordsUpTo(entries, k) == {i \in 1 .. k : entries[i].word # ""}

(* They are order types, and none comes twice.                             *)
ValidUpTo(entries, k) ==
    \A i \in WordsUpTo(entries, k) :
        /\ entries[i].word \in AllOrderTypes
        /\ \A j \in WordsUpTo(entries, k) \ {i} : entries[j].word # entries[i].word

(* What the loop has read of the first k entries.                          *)
ReadSoFar(entries, k, read) ==
    /\ read.types \in Seq(STRING)
    /\ read.err = "" <=> ValidUpTo(entries, k)
    /\ read.err = "" =>
         /\ ToSet(read.types) = {entries[i].word : i \in WordsUpTo(entries, k)}
         /\ \A i, j \in DOMAIN read.types : read.types[i] = read.types[j] => i = j

(* One round of the loop.                                                  *)
LEMMA OneMoreEntry ==
    ASSUME NEW entries \in Seq(Entry), NEW k \in 1 .. Len(entries), NEW read \in Read,
           ReadSoFar(entries, k - 1, read)
    PROVE  ReadSoFar(entries, k, ReadEntry(read, entries[k]))
<1>. DEFINE word == entries[k].word
            next == ReadEntry(read, entries[k])
<1>1. word \in STRING /\ read.types \in Seq(STRING)
  <2>1. entries[k] \in Entry
    OBVIOUS
  <2>. QED
    BY <2>1 DEF Entry, Read
<1>2. WordsUpTo(entries, k) = IF word = "" THEN WordsUpTo(entries, k - 1)
                              ELSE WordsUpTo(entries, k - 1) \cup {k}
  <2>1. 1 .. k = 1 .. (k - 1) \cup {k}
    OBVIOUS
  <2>. QED
    BY <2>1, Zenon DEF WordsUpTo
<1>3. k \notin WordsUpTo(entries, k - 1)
  <2>1. k \notin 1 .. (k - 1)
    OBVIOUS
  <2>. QED
    BY <2>1, Zenon DEF WordsUpTo
<1>4. CASE read.err # ""
  <2>1. next = read
    BY <1>4 DEF ReadEntry
  <2>2. ~ValidUpTo(entries, k - 1)
    BY <1>4 DEF ReadSoFar
  <2>3. WordsUpTo(entries, k - 1) \subseteq WordsUpTo(entries, k)
    BY <1>2
  <2>4. ~ValidUpTo(entries, k)
    BY <2>2, <2>3 DEF ValidUpTo
  <2>. QED
    BY <1>1, <1>4, <2>1, <2>4 DEF ReadSoFar
<1>5. CASE word = ""
  <2>1. next = read
    BY <1>5 DEF ReadEntry, TrimSpace
  <2>. QED
    BY <1>2, <1>5, <2>1 DEF ReadSoFar, ValidUpTo
<1>6. CASE read.err = "" /\ word # ""
  <2>1. /\ ValidUpTo(entries, k - 1)
        /\ ToSet(read.types) = {entries[i].word : i \in WordsUpTo(entries, k - 1)}
        /\ \A i, j \in DOMAIN read.types : read.types[i] = read.types[j] => i = j
    BY <1>6 DEF ReadSoFar
  <2>2. WordsUpTo(entries, k) = WordsUpTo(entries, k - 1) \cup {k}
    BY <1>2, <1>6
  <2>3. CASE word \in ToSet(read.types)
    <3>1. next.err = "ErrDuplicateOrderType" /\ next.types = read.types
      BY <1>6, <2>3 DEF ReadEntry, TrimSpace, Read
    <3>2. PICK i \in WordsUpTo(entries, k - 1) : entries[i].word = word
      BY <2>1, <2>3
    <3>3. ~ValidUpTo(entries, k)
      BY <1>3, <2>2, <3>2 DEF ValidUpTo
    <3>. HIDE DEF next
    <3>. QED
      BY <1>1, <3>1, <3>3 DEF ReadSoFar, next
  <2>4. CASE word \notin ToSet(read.types) /\ word \notin AllOrderTypes
    <3>1. next.err = "ErrInvalidOrderType" /\ next.types = read.types
      BY <1>6, <2>4 DEF ReadEntry, TrimSpace, Read
    <3>2. ~ValidUpTo(entries, k)
      BY <2>2, <2>4 DEF ValidUpTo
    <3>. HIDE DEF next
    <3>. QED
      BY <1>1, <3>1, <3>2 DEF ReadSoFar, next
  <2>5. CASE word \notin ToSet(read.types) /\ word \in AllOrderTypes
    <3>1. next.err = "" /\ next.types = Append(read.types, word)
      BY <1>6, <2>5 DEF ReadEntry, TrimSpace, Read
    <3>2. ValidUpTo(entries, k)
      BY <1>3, <2>1, <2>2, <2>5 DEF ValidUpTo
    <3>3. PICK s : s = read.types
      OBVIOUS
    <3>4. /\ s \in Seq(STRING) /\ Len(s) \in Nat
          /\ Append(s, word) \in Seq(STRING)
          /\ DOMAIN s = 1 .. Len(s) /\ DOMAIN Append(s, word) = 1 .. Len(s) + 1
          /\ Append(s, word)[Len(s) + 1] = word
          /\ \A i \in 1 .. Len(s) : Append(s, word)[i] = s[i]
      BY <1>1, <3>3
    <3>5. ToSet(Append(s, word)) = ToSet(s) \cup {word}
      BY <3>4 DEF ToSet
    <3>6. \A i \in 1 .. Len(s) : s[i] # word
      BY <2>5, <3>3, <3>4 DEF ToSet
    <3>7. \A i, j \in DOMAIN Append(s, word) : Append(s, word)[i] = Append(s, word)[j] => i = j
      <4>1. \A i, j \in 1 .. Len(s) : s[i] = s[j] => i = j
        BY <2>1, <3>3, <3>4
      <4>2. \A i \in 1 .. Len(s) + 1 : i \in 1 .. Len(s) \/ i = Len(s) + 1
        BY <3>4
      <4>. QED
        BY <3>4, <3>6, <4>1, <4>2, Zenon
    <3>8. ToSet(Append(s, word)) = {entries[i].word : i \in WordsUpTo(entries, k)}
      BY <2>1, <2>2, <3>3, <3>5
    <3>. HIDE DEF next, word
    <3>. QED
      BY <3>1, <3>2, <3>3, <3>4, <3>7, <3>8 DEF ReadSoFar, next
  <2>. QED
    BY <2>3, <2>4, <2>5
<1>. QED
  BY <1>4, <1>5, <1>6

(* --order-types is accepted exactly if it is one the documentation allows, *)
(* and read as the words in it, each once.                                 *)
LEMMA TypesReadAsDocumented ==
    ASSUME NEW entries \in Seq(Entry)
    PROVE  LET v == ValidateOrderTypes(entries)
           IN  /\ v.err = "" <=> TypesAreValid(entries)
               /\ v.err = "" =>
                    /\ ToSet(v.types) = IF entries = << >> THEN AllOrderTypes
                                        ELSE {entries[i].word : i \in Words(entries)}
                    /\ Len(v.types) = Cardinality(ToSet(v.types))
<1>1. CASE entries = << >>
  BY <1>1, AllTypesInSequence DEF ValidateOrderTypes, TypesAreValid
<1>2. CASE entries # << >>
  <2>1. PICK n \in Nat : n = Len(entries) /\ DOMAIN entries = 1 .. n
    OBVIOUS
  <2>2. PICK p : /\ ReadsTypes(entries, p)
                 /\ FoldLeft(ReadEntry, NothingRead, entries) = p[n]
    BY <2>1, TypesAreRead
  <2>. DEFINE S == {k \in 0 .. n : ReadSoFar(entries, k, p[k])}
  <2>3. 0 \in S
    <3>1. p[0].err = "" /\ p[0].types = << >>
      <4>1. p[0] = NothingRead
        BY <2>2 DEF ReadsTypes
      <4>2. NothingRead.err = "" /\ NothingRead.types = << >>
        BY NothingReadYet
      <4>. QED
        BY <4>1, <4>2
    <3>2. WordsUpTo(entries, 0) = {}
      BY DEF WordsUpTo
    <3>3. << >> \in Seq(STRING) /\ ToSet(<< >>) = {} /\ DOMAIN << >> = {}
      BY DEF ToSet
    <3>4. ReadSoFar(entries, 0, p[0])
      BY <3>1, <3>2, <3>3 DEF ReadSoFar, ValidUpTo
    <3>. QED
      BY <2>1, <3>4
  <2>4. ASSUME NEW k \in 1 .. n, k - 1 \in S
        PROVE  k \in S
    <3>1. p[k - 1] \in Read /\ p[k] = ReadEntry(p[k - 1], entries[k])
      BY <2>1, <2>2 DEF ReadsTypes
    <3>2. ReadSoFar(entries, k, p[k])
      BY <2>1, <2>4, <3>1, OneMoreEntry
    <3>. QED
      BY <3>2
  <2>5. n \in S
    BY <2>3, <2>4, PlaceByPlace
  <2>6. PICK read \in Read : read = FoldLeft(ReadEntry, NothingRead, entries)
    BY <2>1, <2>2 DEF ReadsTypes
  <2>7. ReadSoFar(entries, n, read)
    BY <2>2, <2>5, <2>6
  <2>8. WordsUpTo(entries, n) = Words(entries)
    BY <2>1 DEF WordsUpTo, Words
  <2>9. TypesAreValid(entries) <=> Words(entries) # {} /\ ValidUpTo(entries, n)
    BY <1>2, <2>8 DEF TypesAreValid, ValidUpTo
  <2>10. read.err = "" =>
           /\ ToSet(read.types) = {entries[i].word : i \in Words(entries)}
           /\ Len(read.types) = Cardinality(ToSet(read.types))
           /\ read.types = << >> <=> Words(entries) = {}
    <3>. SUFFICES ASSUME read.err = ""
                  PROVE  /\ ToSet(read.types) = {entries[i].word : i \in Words(entries)}
                         /\ Len(read.types) = Cardinality(ToSet(read.types))
                         /\ read.types = << >> <=> Words(entries) = {}
      OBVIOUS
    <3>1. /\ read.types \in Seq(STRING)
          /\ ToSet(read.types) = {entries[i].word : i \in Words(entries)}
          /\ \A i, j \in DOMAIN read.types : read.types[i] = read.types[j] => i = j
      BY <2>7, <2>8 DEF ReadSoFar
    <3>2. Len(read.types) = Cardinality(ToSet(read.types))
      BY <3>1, DistinctLength
    <3>3. read.types = << >> <=> ToSet(read.types) = {}
      BY <3>1, EmptyByElements
    <3>4. {entries[i].word : i \in Words(entries)} = {} <=> Words(entries) = {}
      OBVIOUS
    <3>. QED
      BY <3>1, <3>2, <3>3, <3>4
  <2>11. CASE read.err = "" /\ read.types = << >>
    <3>1. ValidateOrderTypes(entries).err = "ErrEmptyOrderTypes"
      BY <1>2, <2>6, <2>11 DEF ValidateOrderTypes, Read
    <3>2. ~TypesAreValid(entries)
      BY <2>9, <2>10, <2>11
    <3>. QED
      BY <3>1, <3>2
  <2>12. CASE ~(read.err = "" /\ read.types = << >>)
    <3>1. ValidateOrderTypes(entries) = read
      BY <1>2, <2>6, <2>12 DEF ValidateOrderTypes
    <3>2. read.err = "" <=> TypesAreValid(entries)
      BY <2>7, <2>9, <2>10, <2>12 DEF ReadSoFar
    <3>. QED
      BY <1>2, <2>10, <3>1, <3>2
  <2>. QED
    BY <2>11, <2>12
<1>. QED
  BY <1>1, <1>2
=============================================================================
