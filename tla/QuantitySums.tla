---------------------------- MODULE QuantitySums ----------------------------
(***************************************************************************)
(* What the total quantity of a price level owes to the orders in it: the  *)
(* sum over a finite set of orders does not depend on the order of its     *)
(* terms, so that an order that joins or leaves adds or takes its own      *)
(* quantity (append, decreaseTotalQuantity and remove in                   *)
(* src/engine/PriceLevel.js).                                              *)
(***************************************************************************)
EXTENDS Integers, FiniteSetsExt, FiniteSetTheorems, TLAPS
LOCAL WellFounded == INSTANCE WellFoundedInduction

\* The sum of the quantities of a set of orders.
Total(quantity, orders) == MapThenSumSet(LAMBDA order : quantity[order], orders)

Quantities(quantity, orders) ==
  IsFiniteSet(orders) /\ \A order \in orders : quantity[order] \in Int

-----------------------------------------------------------------------------
(* The recursion behind the sum *)

FirstOf(orders) == CHOOSE order \in orders : TRUE

\* One step of the fold.
SumStep(quantity, sum, orders) ==
  IF orders = {} THEN 0
  ELSE quantity[FirstOf(orders)] + sum[orders \ {FirstOf(orders)}]

\* `sum' solves the recursive equation over the subsets of `orders'.
Sums(quantity, sum, orders) ==
  sum = [some \in SUBSET orders |-> SumStep(quantity, sum, some)]

\* A set of numbers that has 0 and each successor is all of Nat.
LEMMA NatIsReached ==
  ASSUME NEW T \in SUBSET Nat, 0 \in T, \A n \in T : n + 1 \in T
  PROVE  T = Nat
<1> SUFFICES ASSUME T # Nat PROVE FALSE
  OBVIOUS
<1> DEFINE R == WellFounded!OpToRel(<, Nat)
<1>1. Nat \ T \subseteq Nat /\ Nat \ T # {}
  OBVIOUS
<1>2. WellFounded!IsWellFoundedOn(R, Nat)
  BY WellFounded!NatLessThanWellFounded
<1>3. \A m, n \in Nat : m < n => <<m, n>> \in R
  BY DEF WellFounded!OpToRel
<1> HIDE DEF R
<1>4. PICK n \in Nat \ T : \A m \in Nat \ T : <<m, n>> \notin R
  BY <1>1, <1>2, WellFounded!WFMin
<1>5. n # 0 /\ n - 1 \in Nat /\ n - 1 < n /\ (n - 1) + 1 = n
  OBVIOUS
<1>6. n - 1 \in Nat \ T
  BY <1>5
<1>7. QED
  BY <1>3, <1>4, <1>5, <1>6

LEMMA FirstIsOne ==
  ASSUME NEW orders, orders # {}
  PROVE  FirstOf(orders) \in orders
  BY DEF FirstOf

\* Without its first order, a set is smaller by one.
LEMMA RestIsSmaller ==
  ASSUME NEW orders, IsFiniteSet(orders), NEW order \in orders
  PROVE  /\ IsFiniteSet(orders \ {order})
         /\ Cardinality(orders) \in Nat /\ Cardinality(orders \ {order}) \in Nat
         /\ Cardinality(orders) = Cardinality(orders \ {order}) + 1
<1>1. IsFiniteSet(orders \ {order}) /\ Cardinality(orders \ {order}) = Cardinality(orders) - 1
  BY FS_RemoveElement
<1>2. Cardinality(orders) \in Nat /\ Cardinality(orders \ {order}) \in Nat
  BY <1>1, FS_CardinalityType
<1>3. QED
  BY <1>1, <1>2

\* The recursive equation has a solution.
LEMMA SumsExist ==
  ASSUME NEW quantity, NEW orders, Quantities(quantity, orders)
  PROVE  \E sum : Sums(quantity, sum, orders)
<1> DEFINE Small(n) == {some \in SUBSET orders : Cardinality(some) <= n}
           Solves(g, n) == \A some \in Small(n) : g[some] = SumStep(quantity, g, some)
           T == {n \in Nat : \E g \in [Small(n) -> Int] : Solves(g, n)}
<1>1. \A some \in SUBSET orders : IsFiniteSet(some) /\ Cardinality(some) \in Nat
                                  /\ Cardinality(some) <= Cardinality(orders)
  BY FS_Subset, FS_CardinalityType DEF Quantities
<1>2. \A some \in SUBSET orders : Cardinality(some) = 0 <=> some = {}
  BY <1>1, FS_EmptySet
<1>3. 0 \in T
  <2> DEFINE g == [some \in Small(0) |-> 0]
  <2>1. \A some \in Small(0) : some = {}
    BY <1>1, <1>2
  <2>2. g \in [Small(0) -> Int] /\ Solves(g, 0)
    BY <2>1 DEF SumStep
  <2>3. QED
    BY <2>2
<1>4. ASSUME NEW n \in T PROVE n + 1 \in T
  <2>1. PICK g \in [Small(n) -> Int] : Solves(g, n)
    OBVIOUS
  <2> DEFINE h == [some \in Small(n + 1) |-> SumStep(quantity, g, some)]
  <2>2. ASSUME NEW some \in Small(n + 1), some # {}
        PROVE  some \ {FirstOf(some)} \in Small(n) /\ quantity[FirstOf(some)] \in Int
    <3>1. FirstOf(some) \in some
      BY <2>2, FirstIsOne
    <3>2. Cardinality(some) = Cardinality(some \ {FirstOf(some)}) + 1
          /\ Cardinality(some \ {FirstOf(some)}) \in Nat
      BY <1>1, <3>1, RestIsSmaller
    <3>3. Cardinality(some \ {FirstOf(some)}) <= n
      BY <3>2
    <3>4. QED
      BY <3>1, <3>3 DEF Quantities
  <2>3. h \in [Small(n + 1) -> Int]
    BY <2>2 DEF SumStep
  <2>4. \A some \in Small(n) : some \in Small(n + 1) /\ h[some] = g[some]
    <3>1. \A some \in Small(n) : some \in Small(n + 1)
      BY <1>1
    <3>2. QED
      BY <2>1, <3>1
  <2>5. ASSUME NEW some \in Small(n + 1) PROVE h[some] = SumStep(quantity, h, some)
    BY <2>2, <2>4 DEF SumStep
  <2>6. Solves(h, n + 1)
    BY <2>5
  <2>7. \E f \in [Small(n + 1) -> Int] : Solves(f, n + 1)
    <3> HIDE DEF Small, Solves, h
    <3>1. QED
      BY <2>3, <2>6
  <2>8. n + 1 \in Nat
    OBVIOUS
  <2>9. QED
    <3> HIDE DEF Small, Solves
    <3>1. QED
      BY <2>7, <2>8
<1>5. Cardinality(orders) \in T
  <2> HIDE DEF T
  <2>1. T \in SUBSET Nat
    BY DEF T
  <2>2. T = Nat
    BY <1>3, <1>4, <2>1, NatIsReached
  <2>3. QED
    BY <2>2, FS_CardinalityType DEF Quantities
<1>6. PICK g \in [Small(Cardinality(orders)) -> Int] : Solves(g, Cardinality(orders))
  BY <1>5
<1>7. Small(Cardinality(orders)) = SUBSET orders
  BY <1>1
<1>8. Sums(quantity, g, orders)
  <2>1. g \in [SUBSET orders -> Int] /\ \A some \in SUBSET orders : g[some] = SumStep(quantity, g, some)
    <3> HIDE DEF Small
    <3>1. QED
      BY <1>6, <1>7
  <2>2. QED
    BY <2>1 DEF Sums
<1>9. QED
  BY <1>8

\* Two solutions agree on the sets that they share, on integers.
LEMMA SumsAgree ==
  ASSUME NEW quantity, NEW more, NEW fewer, Quantities(quantity, more), fewer \subseteq more,
         NEW g, Sums(quantity, g, more), NEW h, Sums(quantity, h, fewer)
  PROVE  \A some \in SUBSET fewer : g[some] \in Int /\ g[some] = h[some]
<1> DEFINE T == {n \in Nat : \A some \in SUBSET fewer :
                   Cardinality(some) = n => g[some] \in Int /\ g[some] = h[some]}
<1>1. \A some \in SUBSET fewer : IsFiniteSet(some) /\ Cardinality(some) \in Nat
  BY FS_Subset, FS_CardinalityType DEF Quantities
<1>2. \A some \in SUBSET fewer : g[some] = SumStep(quantity, g, some) /\ h[some] = SumStep(quantity, h, some)
  <2>1. g = [some \in SUBSET more |-> SumStep(quantity, g, some)]
        /\ h = [some \in SUBSET fewer |-> SumStep(quantity, h, some)]
    BY DEF Sums
  <2>2. ASSUME NEW some \in SUBSET fewer
        PROVE  g[some] = SumStep(quantity, g, some) /\ h[some] = SumStep(quantity, h, some)
    <3>1. some \in SUBSET more
      OBVIOUS
    <3>2. [other \in SUBSET more |-> SumStep(quantity, g, other)][some] = SumStep(quantity, g, some)
          /\ [other \in SUBSET fewer |-> SumStep(quantity, h, other)][some] = SumStep(quantity, h, some)
      BY <3>1
    <3>3. QED
      BY <2>1, <3>2
  <2>3. QED
    BY <2>2
<1>3. 0 \in T
  <2>1. \A some \in SUBSET fewer : Cardinality(some) = 0 => some = {}
    BY <1>1, FS_EmptySet
  <2>2. g[{}] = 0 /\ h[{}] = 0
    BY <1>2 DEF SumStep
  <2>3. QED
    BY <2>1, <2>2
<1>4. ASSUME NEW n \in T PROVE n + 1 \in T
  <2>1. ASSUME NEW some \in SUBSET fewer, Cardinality(some) = n + 1
        PROVE  g[some] \in Int /\ g[some] = h[some]
    <3>1. some # {}
      BY <2>1, FS_EmptySet
    <3>2. FirstOf(some) \in some /\ some \ {FirstOf(some)} \in SUBSET fewer
      BY <3>1, FirstIsOne
    <3>3. Cardinality(some) = Cardinality(some \ {FirstOf(some)}) + 1
          /\ Cardinality(some \ {FirstOf(some)}) \in Nat
      BY <1>1, <3>2, RestIsSmaller
    <3>4. Cardinality(some \ {FirstOf(some)}) = n
      BY <2>1, <3>3
    <3>5. g[some \ {FirstOf(some)}] \in Int /\ g[some \ {FirstOf(some)}] = h[some \ {FirstOf(some)}]
      BY <3>2, <3>4
    <3>6. quantity[FirstOf(some)] \in Int
      BY <3>2 DEF Quantities
    <3>7. g[some] = quantity[FirstOf(some)] + g[some \ {FirstOf(some)}]
          /\ h[some] = quantity[FirstOf(some)] + h[some \ {FirstOf(some)}]
      BY <1>2, <3>1 DEF SumStep
    <3>8. QED
      BY <3>5, <3>6, <3>7
  <2>2. QED
    BY <2>1
<1>5. T = Nat
  <2> HIDE DEF T
  <2>1. T \in SUBSET Nat
    BY DEF T
  <2>2. QED
    BY <1>3, <1>4, <2>1, NatIsReached
<1>6. QED
  BY <1>1, <1>5

-----------------------------------------------------------------------------
(* The sum *)

\* The sum of a set is what a solution of the recursive equation over any larger set
\* says of it.
LEMMA TotalIsSum ==
  ASSUME NEW quantity, NEW more, NEW fewer, Quantities(quantity, more), fewer \subseteq more,
         NEW sum, Sums(quantity, sum, more)
  PROVE  Total(quantity, fewer) = sum[fewer]
<1> DEFINE h == CHOOSE h : Sums(quantity, h, fewer)
<1>1. Quantities(quantity, fewer)
  BY FS_Subset DEF Quantities
<1>2. Sums(quantity, h, fewer)
  BY <1>1, SumsExist
<1>3. Total(quantity, fewer) = h[fewer]
  BY DEF Total, MapThenSumSet, MapThenFoldSet, Sums, SumStep, FirstOf
<1>4. ASSUME NEW other, Sums(quantity, other, fewer)
      PROVE  sum[fewer] = other[fewer]
  <2>1. \A some \in SUBSET fewer : sum[some] \in Int /\ sum[some] = other[some]
    BY <1>4, SumsAgree
  <2>2. QED
    BY <2>1
<1>5. QED
  BY <1>2, <1>3, <1>4

\* No orders have no quantity, and the total of any other set is that of one order and
\* of the rest.
LEMMA TotalUnfolds ==
  ASSUME NEW quantity, NEW orders, Quantities(quantity, orders)
  PROVE  /\ Total(quantity, {}) = 0
         /\ Total(quantity, orders) \in Int
         /\ orders # {} => Total(quantity, orders)
                            = quantity[FirstOf(orders)] + Total(quantity, orders \ {FirstOf(orders)})
<1>1. PICK sum : Sums(quantity, sum, orders)
  BY SumsExist
<1>2. \A some \in SUBSET orders : Total(quantity, some) = sum[some]
  BY <1>1, TotalIsSum
<1>3. \A some \in SUBSET orders : sum[some] = SumStep(quantity, sum, some)
  BY <1>1 DEF Sums
<1>4. sum[orders] \in Int
  BY <1>1, SumsAgree
<1>5. sum[{}] = 0
  BY <1>3 DEF SumStep
<1>6. orders # {} => sum[orders] = quantity[FirstOf(orders)] + sum[orders \ {FirstOf(orders)}]
  BY <1>3 DEF SumStep
<1>7. QED
  BY <1>2, <1>4, <1>5, <1>6

\* Whichever order is taken out of a set, the total falls by its quantity.
LEMMA TotalTakes ==
  ASSUME NEW quantity, NEW orders, Quantities(quantity, orders), NEW order \in orders
  PROVE  /\ Total(quantity, orders) = quantity[order] + Total(quantity, orders \ {order})
         /\ Total(quantity, orders) \in Int /\ Total(quantity, orders \ {order}) \in Int
<1> DEFINE T == {n \in Nat : \A some \in SUBSET orders : Cardinality(some) = n =>
                   \A one \in some : Total(quantity, some)
                                     = quantity[one] + Total(quantity, some \ {one})}
<1>1. \A some \in SUBSET orders :
        /\ Quantities(quantity, some) /\ IsFiniteSet(some) /\ Cardinality(some) \in Nat
        /\ Total(quantity, some) \in Int
  BY FS_Subset, FS_CardinalityType, TotalUnfolds DEF Quantities
<1>2. 0 \in T
  BY <1>1, FS_EmptySet
<1>3. ASSUME NEW n \in T PROVE n + 1 \in T
  <2>1. ASSUME NEW some \in SUBSET orders, Cardinality(some) = n + 1, NEW one \in some
        PROVE  Total(quantity, some) = quantity[one] + Total(quantity, some \ {one})
    <3> DEFINE first == FirstOf(some)
    <3>1. first \in some
      BY FirstIsOne
    <3>2. Total(quantity, some) = quantity[first] + Total(quantity, some \ {first})
      BY <1>1, TotalUnfolds
    <3>3. CASE one = first
      BY <3>2, <3>3
    <3>4. CASE one # first
      <4> HIDE DEF first
      <4>1. Cardinality(some \ {one}) = n /\ Cardinality(some \ {first}) = n
        <5>1. Cardinality(some) = Cardinality(some \ {one}) + 1
              /\ Cardinality(some \ {one}) \in Nat
          BY <1>1, RestIsSmaller
        <5>2. Cardinality(some) = Cardinality(some \ {first}) + 1
              /\ Cardinality(some \ {first}) \in Nat
          BY <1>1, <3>1, RestIsSmaller
        <5>3. QED
          BY <2>1, <5>1, <5>2
      <4>2. Total(quantity, some \ {one})
            = quantity[first] + Total(quantity, (some \ {one}) \ {first})
        BY <3>1, <3>4, <4>1
      <4>3. Total(quantity, some \ {first})
            = quantity[one] + Total(quantity, (some \ {first}) \ {one})
        BY <3>1, <3>4, <4>1
      <4>4. (some \ {one}) \ {first} = (some \ {first}) \ {one}
        OBVIOUS
      <4>5. /\ quantity[one] \in Int /\ quantity[first] \in Int
            /\ Total(quantity, (some \ {first}) \ {one}) \in Int
        BY <1>1, <3>1 DEF Quantities
      <4>6. Total(quantity, some \ {one})
            = quantity[first] + Total(quantity, (some \ {first}) \ {one})
        BY <4>2, <4>4, Zenon
      <4>7. QED
        BY <3>2, <4>3, <4>5, <4>6
    <3>5. QED
      BY <3>3, <3>4
  <2>2. QED
    BY <2>1
<1>4. T = Nat
  <2> HIDE DEF T
  <2>1. T \in SUBSET Nat
    BY DEF T
  <2>2. QED
    BY <1>2, <1>3, <2>1, NatIsReached
<1>5. orders \in SUBSET orders /\ Cardinality(orders) \in T
  BY <1>1, <1>4
<1>6. QED
  BY <1>1, <1>5

\* The total depends on the quantities of the set's own orders alone.
LEMMA TotalOfOwn ==
  ASSUME NEW quantity, NEW other, NEW orders, Quantities(quantity, orders),
         \A order \in orders : other[order] = quantity[order]
  PROVE  Total(other, orders) = Total(quantity, orders)
<1> DEFINE T == {n \in Nat : \A some \in SUBSET orders : Cardinality(some) = n =>
                   Total(other, some) = Total(quantity, some)}
<1>1. \A some \in SUBSET orders :
        /\ Quantities(quantity, some) /\ Quantities(other, some)
        /\ IsFiniteSet(some) /\ Cardinality(some) \in Nat
  BY FS_Subset, FS_CardinalityType DEF Quantities
<1>2. 0 \in T
  <2>1. Total(other, {}) = 0 /\ Total(quantity, {}) = 0
    BY <1>1, TotalUnfolds
  <2>2. QED
    BY <1>1, <2>1, FS_EmptySet
<1>3. ASSUME NEW n \in T PROVE n + 1 \in T
  <2>1. ASSUME NEW some \in SUBSET orders, Cardinality(some) = n + 1
        PROVE  Total(other, some) = Total(quantity, some)
    <3> DEFINE first == FirstOf(some)
    <3>1. some # {}
      BY <2>1, FS_EmptySet
    <3>2. first \in some
      BY <3>1, FirstIsOne
    <3>3. Total(quantity, some) = quantity[first] + Total(quantity, some \ {first})
          /\ Total(other, some) = other[first] + Total(other, some \ {first})
      BY <1>1, <3>1, TotalUnfolds
    <3> HIDE DEF first
    <3>4. Cardinality(some) = Cardinality(some \ {first}) + 1
          /\ Cardinality(some \ {first}) \in Nat
      BY <1>1, <3>2, RestIsSmaller
    <3>5. Total(other, some \ {first}) = Total(quantity, some \ {first})
      BY <2>1, <3>2, <3>4
    <3>6. QED
      BY <3>2, <3>3, <3>5
  <2>2. QED
    BY <2>1
<1>4. T = Nat
  <2> HIDE DEF T
  <2>1. T \in SUBSET Nat
    BY DEF T
  <2>2. QED
    BY <1>2, <1>3, <2>1, NatIsReached
<1>5. orders \in SUBSET orders /\ Cardinality(orders) \in T
  BY <1>1, <1>4
<1>6. QED
  BY <1>5

\* An order that was not of the set adds its quantity.
LEMMA TotalAdds ==
  ASSUME NEW quantity, NEW orders, Quantities(quantity, orders), NEW order,
         order \notin orders, quantity[order] \in Int
  PROVE  /\ Total(quantity, orders \cup {order}) = Total(quantity, orders) + quantity[order]
         /\ Total(quantity, orders) \in Int
<1>1. Quantities(quantity, orders \cup {order})
  BY FS_AddElement DEF Quantities
<1>2. (orders \cup {order}) \ {order} = orders
  OBVIOUS
<1>3. QED
  BY <1>1, <1>2, TotalTakes

\* A change of one order's quantity changes the total by as much.
LEMMA TotalFollows ==
  ASSUME NEW quantity, NEW other, NEW orders, Quantities(quantity, orders), NEW order \in orders,
         other[order] \in Int,
         \A one \in orders \ {order} : other[one] = quantity[one]
  PROVE  /\ Total(other, orders) = (Total(quantity, orders) - quantity[order]) + other[order]
         /\ Total(quantity, orders) \in Int
<1>1. Total(quantity, orders) = quantity[order] + Total(quantity, orders \ {order})
      /\ Total(quantity, orders) \in Int /\ Total(quantity, orders \ {order}) \in Int
  BY TotalTakes
<1>2. Quantities(other, orders)
  BY DEF Quantities
<1>3. Total(other, orders) = other[order] + Total(other, orders \ {order})
  BY <1>2, TotalTakes
<1>4. Quantities(quantity, orders \ {order})
  BY FS_RemoveElement DEF Quantities
<1>5. Total(other, orders \ {order}) = Total(quantity, orders \ {order})
  BY <1>4, TotalOfOwn
<1>6. quantity[order] \in Int
  BY DEF Quantities
<1>7. QED
  BY <1>1, <1>3, <1>5, <1>6

\* The total is no less than the quantity of any order of the set, if none is negative.
LEMMA TotalCovers ==
  ASSUME NEW quantity, NEW orders, IsFiniteSet(orders),
         \A order \in orders : quantity[order] \in Nat
  PROVE  /\ Total(quantity, orders) \in Nat
         /\ \A order \in orders : quantity[order] <= Total(quantity, orders)
<1> DEFINE T == {n \in Nat : \A some \in SUBSET orders : Cardinality(some) = n =>
                   Total(quantity, some) \in Nat}
<1>1. \A some \in SUBSET orders :
        Quantities(quantity, some) /\ IsFiniteSet(some) /\ Cardinality(some) \in Nat
  BY FS_Subset, FS_CardinalityType DEF Quantities
<1>2. 0 \in T
  <2>1. Total(quantity, {}) = 0
    BY <1>1, TotalUnfolds
  <2>2. QED
    BY <1>1, <2>1, FS_EmptySet
<1>3. ASSUME NEW n \in T PROVE n + 1 \in T
  <2>1. ASSUME NEW some \in SUBSET orders, Cardinality(some) = n + 1
        PROVE  Total(quantity, some) \in Nat
    <3>1. PICK first \in some : TRUE
      BY <2>1, FS_EmptySet
    <3>2. Cardinality(some) = Cardinality(some \ {first}) + 1
          /\ Cardinality(some \ {first}) \in Nat
      BY <1>1, RestIsSmaller
    <3>3. Total(quantity, some) = quantity[first] + Total(quantity, some \ {first})
      BY <1>1, TotalTakes
    <3>4. Total(quantity, some \ {first}) \in Nat
      BY <2>1, <3>2
    <3>5. QED
      BY <3>3, <3>4
  <2>2. QED
    BY <2>1
<1>4. T = Nat
  <2> HIDE DEF T
  <2>1. T \in SUBSET Nat
    BY DEF T
  <2>2. QED
    BY <1>2, <1>3, <2>1, NatIsReached
<1>5. \A some \in SUBSET orders : Total(quantity, some) \in Nat
  BY <1>1, <1>4
<1>6. ASSUME NEW order \in orders
      PROVE  quantity[order] <= Total(quantity, orders)
  <2>1. Total(quantity, orders) = quantity[order] + Total(quantity, orders \ {order})
    BY <1>1, TotalTakes
  <2>2. Total(quantity, orders \ {order}) \in Nat /\ quantity[order] \in Nat
    BY <1>5
  <2>3. QED
    BY <2>1, <2>2
<1>7. QED
  BY <1>5, <1>6
=============================================================================
