-------------------------- MODULE PriceLevelProofs --------------------------
(***************************************************************************)
(* The lists of the price levels, proved for any number of levels and      *)
(* orders: they stay linked both ways, their counts and totals are those   *)
(* of their orders, and orders are served first in, first out.             *)
(***************************************************************************)
EXTENDS PriceLevel, QuantitySums, SequenceTheorems

-----------------------------------------------------------------------------
(* Lists *)

Elements(list) == {list[i] : i \in 1..Len(list)}

\* A list without its k-th order.
Cut(list, k) == [i \in 1..(Len(list) - 1) |-> IF i < k THEN list[i] ELSE list[i + 1]]

\* The nodes met from the first one on are the list that is linked that way.
LEMMA ListIsMet ==
  ASSUME NEW list \in Seq(Order), NEW first, NEW link,
         list # <<>> => first = list[1],
         \A i \in 1..Len(list) : i > 1 => list[i] = link[list[i - 1]]
  PROVE  ListOf(first, link, Len(list)) = list
<1> DEFINE n == Len(list)
           Met(node) == node = [i \in 1..n |-> IF i = 1 THEN first ELSE link[node[i - 1]]]
           node == CHOOSE node : Met(node)
           T == {m \in Nat : m \in 1..n => node[m] = list[m]}
<1>1. n \in Nat /\ list = [i \in 1..n |-> list[i]] /\ (n > 0 => list # <<>>)
  BY LenProperties
<1>2. \A i \in 1..n : list[i] = IF i = 1 THEN first ELSE link[list[i - 1]]
  BY <1>1
<1>3. Met(list)
  BY <1>1, <1>2, Zenon
<1>4. Met(node)
  BY <1>3, Zenon
<1> HIDE DEF node, n
<1>5. \A i \in 1..n : node[i] = IF i = 1 THEN first ELSE link[node[i - 1]]
  BY <1>4
<1> HIDE DEF Met
<1>6. 0 \in T
  OBVIOUS
<1>7. ASSUME NEW m \in T PROVE m + 1 \in T
  <2>1. CASE m = 0
    BY <1>1, <1>2, <1>5, <2>1
  <2>2. CASE m # 0 /\ m + 1 \in 1..n
    <3>1. m \in 1..n /\ (m + 1) - 1 = m /\ m + 1 # 1
      BY <1>1, <2>2
    <3>2. node[m + 1] = link[node[m]] /\ list[m + 1] = link[list[m]]
      BY <1>2, <1>5, <2>2, <3>1
    <3>3. QED
      BY <3>1, <3>2
  <2>3. QED
    BY <2>1, <2>2
<1>8. T = Nat
  <2> HIDE DEF T
  <2>1. T \in SUBSET Nat
    BY DEF T
  <2>2. QED
    BY <1>6, <1>7, <2>1, NatIsReached
<1>9. \A i \in 1..n : node[i] = list[i]
  BY <1>1, <1>8
<1>10. ListOf(first, link, n) = [i \in 1..n |-> node[i]]
  BY DEF ListOf, node, Met
<1>11. QED
  BY <1>1, <1>9, <1>10 DEF n

\* What is left of a list when one order is cut out of it.
LEMMA CutRest ==
  ASSUME NEW list \in Seq(Order), NEW k \in 1..Len(list),
         \A i, j \in 1..Len(list) : list[i] = list[j] => i = j
  PROVE  /\ Cut(list, k) \in Seq(Order)
         /\ Len(Cut(list, k)) = Len(list) - 1
         /\ \A i \in 1..(Len(list) - 1) : Cut(list, k)[i] = IF i < k THEN list[i] ELSE list[i + 1]
         /\ Elements(Cut(list, k)) = Elements(list) \ {list[k]}
<1>1. Len(list) \in Nat /\ Len(list) - 1 \in Nat
  BY LenProperties
<1>2. \A i \in 1..(Len(list) - 1) : Cut(list, k)[i] = IF i < k THEN list[i] ELSE list[i + 1]
  BY DEF Cut
<1>3. \A i \in 1..(Len(list) - 1) : Cut(list, k)[i] \in Order
  BY <1>2, ElementOfSeq
<1>4. Cut(list, k) \in Seq(Order) /\ Len(Cut(list, k)) = Len(list) - 1
  BY <1>1, <1>3, IsASeq DEF Cut
<1>5. ASSUME NEW order \in Elements(list) \ {list[k]}
      PROVE  order \in Elements(Cut(list, k))
  <2>1. PICK i \in 1..Len(list) : order = list[i] /\ i # k
    BY DEF Elements
  <2>2. CASE i < k
    BY <1>1, <1>2, <1>4, <2>1, <2>2 DEF Elements
  <2>3. CASE i > k
    <3>1. i - 1 \in 1..(Len(list) - 1) /\ ~(i - 1 < k) /\ (i - 1) + 1 = i
      BY <1>1, <2>3
    <3>2. Cut(list, k)[i - 1] = list[i]
      BY <1>2, <3>1
    <3>3. QED
      BY <1>4, <2>1, <3>1, <3>2 DEF Elements
  <2>4. QED
    BY <1>1, <2>1, <2>2, <2>3
<1>6. ASSUME NEW order \in Elements(Cut(list, k))
      PROVE  order \in Elements(list) \ {list[k]}
  <2>1. PICK i \in 1..(Len(list) - 1) : order = Cut(list, k)[i]
    BY <1>4 DEF Elements
  <2>2. CASE i < k
    <3>1. order = list[i] /\ i \in 1..Len(list) /\ i # k
      BY <1>1, <1>2, <2>1, <2>2
    <3>2. QED
      BY <3>1 DEF Elements
  <2>3. CASE ~(i < k)
    <3>1. order = list[i + 1] /\ i + 1 \in 1..Len(list) /\ i + 1 # k
      BY <1>1, <1>2, <2>1, <2>3
    <3>2. QED
      BY <3>1 DEF Elements
  <2>4. QED
    BY <2>2, <2>3
<1>7. QED
  BY <1>2, <1>4, <1>5, <1>6

\* The orders of a list are finitely many.
LEMMA ElementsAreFinite ==
  ASSUME NEW list \in Seq(Order)
  PROVE  IsFiniteSet(Elements(list)) /\ Elements(list) \subseteq Order
<1>1. IsFiniteSet(1..Len(list))
  BY FS_Interval, LenProperties
<1>2. \A i \in 1..Len(list) : list[i] \in Order
  BY ElementOfSeq
<1>3. QED
  <2>1. Elements(list) \subseteq Order
    BY <1>2 DEF Elements
  <2> DEFINE f == [i \in 1..Len(list) |-> list[i]]
  <2>2. f \in Surjection(1..Len(list), Elements(list))
    BY DEF Surjection, Elements
  <2>3. QED
    BY <1>1, <2>1, <2>2, FS_Surjection

-----------------------------------------------------------------------------
(* The invariant *)

\* `list' is what a level's pointers, count and total say it is.
Chain(list, level) ==
  /\ Len(list) = orderCount[level]
  /\ \A order \in Order : priceLevel[order] = level <=> order \in Elements(list)
  /\ \A i, j \in 1..Len(list) : list[i] = list[j] => i = j
  /\ \A i \in 1..Len(list) :
       /\ prev[list[i]] = IF i = 1 THEN Null ELSE list[i - 1]
       /\ next[list[i]] = IF i = Len(list) THEN Null ELSE list[i + 1]
  /\ head[level] = IF Len(list) = 0 THEN Null ELSE list[1]
  /\ tail[level] = IF Len(list) = 0 THEN Null ELSE list[Len(list)]
  /\ totalQuantity[level] = Total(remainingQuantity, Elements(list))

Types ==
  /\ head \in [Level -> Node] /\ tail \in [Level -> Node]
  /\ orderCount \in [Level -> Nat] /\ totalQuantity \in [Level -> Int]
  /\ next \in [Order -> Node] /\ prev \in [Order -> Node]
  /\ priceLevel \in [Order -> Level \cup {Null}]
  /\ remainingQuantity \in [Order -> Nat]

\* An order that has left links to nothing.
Detached == \A order \in Order : priceLevel[order] = Null => next[order] = Null /\ prev[order] = Null

LInv ==
  /\ Types
  /\ Detached
  /\ \A level \in Level : \E list \in Seq(Order) : Chain(list, level)

\* What a step leaves alone keeps a list.
LEMMA OthersKeep ==
  ASSUME Types, Types', NEW list \in Seq(Order), NEW level \in Level, Chain(list, level),
         \A order \in Elements(list) :
           /\ next'[order] = next[order] /\ prev'[order] = prev[order]
           /\ remainingQuantity'[order] = remainingQuantity[order],
         \A order \in Order : priceLevel'[order] = level <=> priceLevel[order] = level,
         /\ head'[level] = head[level] /\ tail'[level] = tail[level]
         /\ orderCount'[level] = orderCount[level] /\ totalQuantity'[level] = totalQuantity[level]
  PROVE  Chain(list, level)'
<1>1. \A i \in 1..Len(list) : list[i] \in Elements(list)
  BY DEF Elements
<1>2. Total(remainingQuantity', Elements(list)) = Total(remainingQuantity, Elements(list))
  <2>1. Quantities(remainingQuantity, Elements(list))
    BY ElementsAreFinite DEF Quantities, Types
  <2>2. QED
    BY <2>1, TotalOfOwn
<1>3. QED
  BY <1>1, <1>2 DEF Chain

\* append puts the order behind the list of its level.
LEMMA AppendChains ==
  ASSUME LInv, Types', NEW level \in Level, NEW order \in Order, NEW quantity \in 1..MaxQuantity,
         AppendOrder(level, order, quantity), NEW list \in Seq(Order), Chain(list, level)
  PROVE  Chain(Append(list, order), level)'
<1> DEFINE n == Len(list)
           more == Append(list, order)
<1>1. /\ n \in Nat /\ more \in Seq(Order) /\ Len(more) = n + 1 /\ more[n + 1] = order
      /\ \A i \in 1..n : more[i] = list[i]
  BY AppendProperties, LenProperties
<1>2. \A i \in 1..n : list[i] \in Elements(list) /\ list[i] \in Order
  BY ElementOfSeq DEF Elements
<1>3. order \notin Elements(list) /\ order # Null
  BY NullAssumption DEF AppendOrder, Chain
<1>4. Elements(more) = Elements(list) \cup {order}
  <2>1. 1..(n + 1) = (1..n) \cup {n + 1}
    BY <1>1
  <2>2. QED
    BY <1>1, <2>1 DEF Elements
<1>5. priceLevel' = [priceLevel EXCEPT ![order] = level]
      /\ remainingQuantity' = [remainingQuantity EXCEPT ![order] = quantity]
      /\ tail' = [tail EXCEPT ![level] = order]
      /\ totalQuantity' = [totalQuantity EXCEPT ![level] = @ + quantity]
      /\ orderCount' = [orderCount EXCEPT ![level] = @ + 1]
  BY DEF AppendOrder
<1>6. Len(more) = orderCount'[level]
  BY <1>1, <1>5 DEF Chain, LInv, Types
<1>7. \A o \in Order : priceLevel'[o] = level <=> o \in Elements(more)
  BY <1>4, <1>5 DEF Chain, LInv, Types
<1>8. \A i, j \in 1..Len(more) : more[i] = more[j] => i = j
  <2>1. \A i \in 1..n : more[i] # order
    BY <1>1, <1>2, <1>3
  <2>2. QED
    BY <1>1, <2>1 DEF Chain
<1>9. totalQuantity'[level] = Total(remainingQuantity', Elements(more))
  <2>1. Total(remainingQuantity', Elements(list)) = Total(remainingQuantity, Elements(list))
    <3>1. Quantities(remainingQuantity, Elements(list)) /\ Elements(list) \subseteq Order
      BY ElementsAreFinite DEF Quantities, LInv, Types
    <3>2. \A o \in Elements(list) : remainingQuantity'[o] = remainingQuantity[o]
      BY <1>3, <1>5, <3>1 DEF LInv, Types
    <3>3. QED
      BY <3>1, <3>2, TotalOfOwn
  <2>2. Quantities(remainingQuantity', Elements(list))
    BY ElementsAreFinite DEF Quantities, Types
  <2>3. remainingQuantity'[order] = quantity /\ quantity \in Int
    BY <1>5 DEF LInv, Types
  <2>4. Total(remainingQuantity', Elements(list) \cup {order})
        = Total(remainingQuantity', Elements(list)) + quantity
    BY <1>3, <2>2, <2>3, TotalAdds
  <2>5. totalQuantity'[level] = totalQuantity[level] + quantity
    BY <1>5 DEF LInv, Types
  <2>6. QED
    BY <1>4, <2>1, <2>4, <2>5 DEF Chain
<1>10. /\ \A i \in 1..Len(more) :
            /\ prev'[more[i]] = IF i = 1 THEN Null ELSE more[i - 1]
            /\ next'[more[i]] = IF i = Len(more) THEN Null ELSE more[i + 1]
       /\ head'[level] = more[1]
       /\ tail'[level] = more[Len(more)]
  <2>1. tail'[level] = more[Len(more)]
    BY <1>1, <1>5 DEF LInv, Types
  <2>2. next[order] = Null /\ prev[order] = Null
    BY DEF AppendOrder, LInv, Detached
  <2>3. CASE n = 0
    <3>1. head'[level] = order /\ next' = next /\ prev' = prev
      BY <2>3 DEF AppendOrder, IsEmpty, Chain, LInv, Types
    <3>2. QED
      BY <1>1, <2>1, <2>2, <2>3, <3>1
  <2>4. CASE n # 0
    <3>1. /\ next' = [next EXCEPT ![list[n]] = order] /\ prev' = [prev EXCEPT ![order] = list[n]]
          /\ head' = head
      BY <2>4 DEF AppendOrder, IsEmpty, Chain
    <3>2. head'[level] = more[1]
      BY <1>1, <2>4, <3>1 DEF Chain
    <3>3. next'[order] = Null /\ prev'[order] = list[n]
      BY <1>1, <1>2, <1>3, <2>2, <2>4, <3>1 DEF LInv, Types
    <3>4. ASSUME NEW i \in 1..n
          PROVE  /\ prev'[list[i]] = IF i = 1 THEN Null ELSE list[i - 1]
                 /\ next'[list[i]] = IF i = n THEN order ELSE list[i + 1]
      <4>1. prev'[list[i]] = prev[list[i]]
        BY <1>2, <1>3, <3>1 DEF LInv, Types
      <4>2. i # n => list[i] # list[n]
        BY <1>1, <2>4 DEF Chain
      <4>3. next'[list[i]] = IF i = n THEN order ELSE next[list[i]]
        BY <1>2, <3>1, <4>2 DEF LInv, Types
      <4>4. QED
        BY <4>1, <4>3 DEF Chain
    <3>5. ASSUME NEW i \in 1..(n + 1)
          PROVE  /\ prev'[more[i]] = IF i = 1 THEN Null ELSE more[i - 1]
                 /\ next'[more[i]] = IF i = n + 1 THEN Null ELSE more[i + 1]
      <4>1. CASE i = n + 1
        BY <1>1, <2>4, <3>3, <4>1
      <4>2. CASE i \in 1..n
        <5>1. i # 1 => i - 1 \in 1..n
          BY <1>1, <4>2
        <5>2. i # n => i + 1 \in 1..n
          BY <1>1, <4>2
        <5>3. i # n + 1
          BY <1>1, <4>2
        <5>4. QED
          BY <1>1, <3>4, <4>2, <5>1, <5>2, <5>3
      <4>3. QED
        BY <1>1, <4>1, <4>2
    <3>6. QED
      BY <1>1, <2>1, <3>2, <3>5
  <2>5. QED
    BY <2>3, <2>4
<1>11. QED
  <2>1. Len(more) # 0
    BY <1>1
  <2> HIDE DEF more
  <2>2. Chain(more, level)'
    BY <1>6, <1>7, <1>8, <1>9, <1>10, <2>1 DEF Chain
  <2>3. QED
    BY <2>2 DEF more

\* remove cuts an order out of the list of its level, from wherever it is.
LEMMA DetachChains ==
  ASSUME LInv, Types', NEW level \in Level, NEW list \in Seq(Order), Chain(list, level),
         NEW k \in 1..Len(list), Detach(level, list[k]),
         totalQuantity' = [totalQuantity EXCEPT ![level] = @ - remainingQuantity[list[k]]],
         \A o \in Order \ {list[k]} : remainingQuantity'[o] = remainingQuantity[o]
  PROVE  Chain(Cut(list, k), level)'
<1> DEFINE n == Len(list)
           order == list[k]
           fewer == Cut(list, k)
           previous == IF k = 1 THEN Null ELSE list[k - 1]
           following == IF k = n THEN Null ELSE list[k + 1]
<1>1. /\ n \in Nat /\ n - 1 \in Nat /\ fewer \in Seq(Order) /\ Len(fewer) = n - 1
      /\ \A i \in 1..(n - 1) : fewer[i] = IF i < k THEN list[i] ELSE list[i + 1]
      /\ Elements(fewer) = Elements(list) \ {order}
  <2>1. \A i, j \in 1..Len(list) : list[i] = list[j] => i = j
    BY DEF Chain
  <2>2. n \in Nat /\ n - 1 \in Nat
    BY LenProperties
  <2>3. QED
    BY <2>1, <2>2, CutRest
<1>2. \A i \in 1..n : list[i] \in Elements(list) /\ list[i] \in Order /\ list[i] # Null
  BY ElementOfSeq, NullAssumption DEF Elements
<1>3. prev[order] = previous /\ next[order] = following
  BY DEF Chain
<1>4. /\ orderCount' = [orderCount EXCEPT ![level] = @ - 1]
      /\ priceLevel' = [priceLevel EXCEPT ![order] = Null]
      /\ head' = IF previous = Null THEN [head EXCEPT ![level] = following] ELSE head
      /\ tail' = IF following = Null THEN [tail EXCEPT ![level] = previous] ELSE tail
      /\ next' = [o \in Order |-> IF o = order THEN Null
                                  ELSE IF o = previous THEN following ELSE next[o]]
      /\ prev' = [o \in Order |-> IF o = order THEN Null
                                  ELSE IF o = following THEN previous ELSE prev[o]]
  BY <1>3 DEF Detach, Unlink
<1>5. ASSUME NEW i \in 1..n, i # k
      PROVE  /\ next'[list[i]] = IF i = k - 1 THEN following
                                 ELSE IF i = n THEN Null ELSE list[i + 1]
             /\ prev'[list[i]] = IF i = k + 1 THEN previous
                                 ELSE IF i = 1 THEN Null ELSE list[i - 1]
  <2>1. list[i] # order /\ list[i] \in Order /\ list[i] # Null
    BY <1>2, <1>5 DEF Chain
  <2>2. list[i] = previous <=> i = k - 1
    BY <1>1, <1>2, <2>1 DEF Chain
  <2>3. list[i] = following <=> i = k + 1
    BY <1>1, <1>2, <2>1 DEF Chain
  <2>4. /\ next'[list[i]] = IF list[i] = previous THEN following ELSE next[list[i]]
        /\ prev'[list[i]] = IF list[i] = following THEN previous ELSE prev[list[i]]
    BY <1>4, <2>1
  <2>5. /\ next[list[i]] = IF i = n THEN Null ELSE list[i + 1]
        /\ prev[list[i]] = IF i = 1 THEN Null ELSE list[i - 1]
    BY DEF Chain
  <2>6. QED
    BY <2>2, <2>3, <2>4, <2>5
<1>6. Len(fewer) = orderCount'[level]
  BY <1>1, <1>4 DEF Chain, LInv, Types
<1>7. \A o \in Order : priceLevel'[o] = level <=> o \in Elements(fewer)
  <2>1. level # Null /\ order \in Order
    BY <1>2, NullAssumption
  <2>2. \A o \in Order : priceLevel'[o] = IF o = order THEN Null ELSE priceLevel[o]
    BY <1>4, <2>1 DEF LInv, Types
  <2>3. \A o \in Order : priceLevel[o] = level <=> o \in Elements(list)
    BY DEF Chain
  <2>4. QED
    BY <1>1, <2>1, <2>2, <2>3
<1>8. \A i, j \in 1..Len(fewer) : fewer[i] = fewer[j] => i = j
  <2>1. ASSUME NEW i \in 1..(n - 1), NEW j \in 1..(n - 1), fewer[i] = fewer[j]
        PROVE  i = j
    <3>1. PICK p \in 1..n : fewer[i] = list[p] /\ p = IF i < k THEN i ELSE i + 1
      BY <1>1
    <3>2. PICK q \in 1..n : fewer[j] = list[q] /\ q = IF j < k THEN j ELSE j + 1
      BY <1>1
    <3>3. list[p] = list[q]
      BY <2>1, <3>1, <3>2
    <3>4. p = q
      BY <3>3 DEF Chain
    <3>5. QED
      BY <3>1, <3>2, <3>4
  <2>2. QED
    BY <1>1, <2>1
<1>9. ASSUME NEW i \in 1..(n - 1)
      PROVE  /\ prev'[fewer[i]] = IF i = 1 THEN Null ELSE fewer[i - 1]
             /\ next'[fewer[i]] = IF i = n - 1 THEN Null ELSE fewer[i + 1]
  <2>1. i # 1 => i - 1 \in 1..(n - 1)
    BY <1>1
  <2>2. i # n - 1 => i + 1 \in 1..(n - 1)
    BY <1>1
  <2>3. CASE i < k
    <3>1. i \in 1..n /\ i # k /\ i # k + 1 /\ i # n /\ fewer[i] = list[i]
      BY <1>1, <2>3
    <3>2. /\ next'[list[i]] = IF i = k - 1 THEN following ELSE list[i + 1]
          /\ prev'[list[i]] = IF i = 1 THEN Null ELSE list[i - 1]
      BY <1>5, <3>1
    <3>3. i # 1 => fewer[i - 1] = list[i - 1]
      BY <1>1, <2>1, <2>3
    <3>4. i = k - 1 /\ i # n - 1 => fewer[i + 1] = list[k + 1] /\ k # n
      BY <1>1, <2>2
    <3>5. i = k - 1 /\ i = n - 1 => following = Null
      BY <1>1
    <3>6. i # k - 1 => i # n - 1 /\ fewer[i + 1] = list[i + 1]
      BY <1>1, <2>2, <2>3
    <3>7. QED
      BY <3>1, <3>2, <3>3, <3>4, <3>5, <3>6
  <2>4. CASE ~(i < k)
    <3>1. i + 1 \in 1..n /\ i + 1 # k /\ i + 1 # k - 1 /\ i + 1 # 1 /\ fewer[i] = list[i + 1]
          /\ (i + 1) - 1 = i /\ (i + 1) + 1 = i + 2
      BY <1>1, <2>4
    <3>2. /\ next'[list[i + 1]] = IF i + 1 = n THEN Null ELSE list[i + 2]
          /\ prev'[list[i + 1]] = IF i + 1 = k + 1 THEN previous ELSE list[i]
      BY <1>5, <3>1
    <3>3. i # n - 1 => fewer[i + 1] = list[i + 2] /\ i + 1 # n
      BY <1>1, <2>2, <2>4
    <3>4. i = k /\ i # 1 => fewer[i - 1] = list[k - 1]
      BY <1>1, <2>1
    <3>5. i # k => i # 1 /\ i + 1 # k + 1 /\ fewer[i - 1] = list[i]
      BY <1>1, <2>1, <2>4
    <3>6. QED
      BY <1>1, <3>1, <3>2, <3>3, <3>4, <3>5
  <2>5. QED
    BY <2>3, <2>4
<1>10. head'[level] = IF Len(fewer) = 0 THEN Null ELSE fewer[1]
  <2>1. head[level] = list[1]
    BY <1>1 DEF Chain
  <2>2. CASE k = 1
    <3>1. head'[level] = following
      BY <1>4, <2>2 DEF LInv, Types
    <3>2. QED
      BY <1>1, <2>2, <3>1
  <2>3. CASE k # 1
    <3>1. previous # Null /\ n - 1 # 0 /\ 1 \in 1..(n - 1)
      BY <1>1, <1>2, <2>3
    <3>2. QED
      BY <1>1, <1>4, <2>1, <2>3, <3>1
  <2>4. QED
    BY <2>2, <2>3
<1>11. tail'[level] = IF Len(fewer) = 0 THEN Null ELSE fewer[Len(fewer)]
  <2>1. tail[level] = list[n]
    BY <1>1 DEF Chain
  <2>2. CASE k = n
    <3>1. tail'[level] = previous
      BY <1>4, <2>2 DEF LInv, Types
    <3>2. n - 1 # 0 => fewer[n - 1] = list[n - 1]
      BY <1>1, <2>2
    <3>3. QED
      BY <1>1, <2>2, <3>1, <3>2
  <2>3. CASE k # n
    <3>1. following # Null /\ n - 1 # 0 /\ n - 1 \in 1..(n - 1) /\ ~(n - 1 < k) /\ (n - 1) + 1 = n
      BY <1>1, <1>2, <2>3
    <3>2. fewer[n - 1] = list[n]
      BY <1>1, <3>1
    <3>3. QED
      BY <1>1, <1>4, <2>1, <3>1, <3>2
  <2>4. QED
    BY <2>2, <2>3
<1>12. totalQuantity'[level] = Total(remainingQuantity', Elements(fewer))
  <2>1. Quantities(remainingQuantity, Elements(list)) /\ Elements(list) \subseteq Order
        /\ order \in Elements(list)
    BY <1>2, ElementsAreFinite DEF Quantities, LInv, Types
  <2>2. Total(remainingQuantity, Elements(list))
        = remainingQuantity[order] + Total(remainingQuantity, Elements(list) \ {order})
        /\ Total(remainingQuantity, Elements(list) \ {order}) \in Int
    BY <2>1, TotalTakes
  <2>3. Quantities(remainingQuantity, Elements(fewer))
    <3>1. IsFiniteSet(Elements(fewer))
      BY <1>1, ElementsAreFinite
    <3>2. QED
      BY <1>1, <2>1, <3>1 DEF Quantities
  <2>4. \A o \in Elements(fewer) : remainingQuantity'[o] = remainingQuantity[o]
    BY <1>1, <2>1
  <2>5. Total(remainingQuantity', Elements(fewer)) = Total(remainingQuantity, Elements(fewer))
    BY <2>3, <2>4, TotalOfOwn
  <2>6. totalQuantity'[level] = totalQuantity[level] - remainingQuantity[order]
    BY DEF LInv, Types
  <2>7. remainingQuantity[order] \in Int
    BY <2>1 DEF LInv, Types
  <2>8. QED
    BY <1>1, <2>2, <2>5, <2>6, <2>7 DEF Chain
<1>13. QED
  <2> HIDE DEF fewer, order, previous, following
  <2>1. Chain(fewer, level)'
    BY <1>1, <1>6, <1>7, <1>8, <1>9, <1>10, <1>11, <1>12 DEF Chain
  <2>2. QED
    BY <2>1 DEF fewer

\* A fill that leaves something takes it off the total and moves nothing.
LEMMA FillChains ==
  ASSUME LInv, Types', NEW level \in Level, NEW list \in Seq(Order), Chain(list, level),
         NEW order \in Elements(list), NEW quantity \in Nat,
         UNCHANGED <<links, orderCount, priceLevel>>,
         remainingQuantity' = [remainingQuantity EXCEPT ![order] = @ - quantity],
         totalQuantity' = [totalQuantity EXCEPT ![level] = @ - quantity]
  PROVE  Chain(list, level)'
<1>1. Elements(list) \subseteq Order /\ order \in Elements(list)
      /\ Quantities(remainingQuantity, Elements(list))
  BY ElementsAreFinite DEF Quantities, LInv, Types
<1>2. /\ remainingQuantity'[order] = remainingQuantity[order] - quantity
      /\ remainingQuantity[order] \in Nat /\ remainingQuantity'[order] \in Nat
      /\ totalQuantity'[level] = totalQuantity[level] - quantity
      /\ \A o \in Elements(list) \ {order} : remainingQuantity'[o] = remainingQuantity[o]
  BY <1>1 DEF LInv, Types
<1>3. Total(remainingQuantity', Elements(list))
        = (Total(remainingQuantity, Elements(list)) - remainingQuantity[order]) + remainingQuantity'[order]
      /\ Total(remainingQuantity, Elements(list)) \in Int
  BY ONLY <1>1, <1>2, TotalFollows
<1>4. totalQuantity'[level] = Total(remainingQuantity', Elements(list))
  BY <1>2, <1>3 DEF Chain
<1>5. QED
  BY <1>4 DEF Chain, links

-----------------------------------------------------------------------------
(* Steps *)

\* An order is in the list of one level only.
LEMMA ListsApart ==
  ASSUME NEW list \in Seq(Order), NEW level, Chain(list, level),
         NEW rest \in Seq(Order), NEW other, Chain(rest, other), other # level
  PROVE  \A order \in Elements(rest) : order \in Order /\ order \notin Elements(list)
  BY ElementsAreFinite DEF Chain

\* The first order of a list that is not empty.
LEMMA HeadIsFirst ==
  ASSUME NEW level \in Level, NEW list \in Seq(Order), Chain(list, level), head[level] # Null
  PROVE  1 \in 1..Len(list) /\ head[level] = list[1] /\ list[1] \in Elements(list)
  BY LenProperties DEF Chain, Elements

\* An order that belongs to a level has a place in its list.
LEMMA PlaceOf ==
  ASSUME NEW level \in Level, NEW list \in Seq(Order), Chain(list, level),
         NEW order \in Order, priceLevel[order] = level
  PROVE  \E k \in 1..Len(list) : list[k] = order
  BY DEF Chain, Elements

\* append touches its own level's list only.
LEMMA AppendSpares ==
  ASSUME LInv, Types', NEW level \in Level, NEW order \in Order, NEW quantity \in 1..MaxQuantity,
         AppendOrder(level, order, quantity), NEW list \in Seq(Order), Chain(list, level),
         NEW other \in Level \ {level}, NEW rest \in Seq(Order), Chain(rest, other)
  PROVE  Chain(rest, other)'
<1>1. \A o \in Elements(rest) : o \in Order /\ o \notin Elements(list)
  BY ListsApart
<1>2. order \notin Elements(rest)
  BY NullAssumption DEF AppendOrder, Chain
<1>3. ~IsEmpty(level) => tail[level] \in Elements(list)
  BY LenProperties DEF IsEmpty, Chain, Elements
<1>4. \A o \in Elements(rest) :
        /\ next'[o] = next[o] /\ prev'[o] = prev[o]
        /\ remainingQuantity'[o] = remainingQuantity[o]
  BY <1>1, <1>2, <1>3 DEF AppendOrder, LInv, Types
<1>5. \A o \in Order : priceLevel'[o] = other <=> priceLevel[o] = other
  BY NullAssumption DEF AppendOrder, LInv, Types
<1>6. /\ head'[other] = head[other] /\ tail'[other] = tail[other]
      /\ orderCount'[other] = orderCount[other] /\ totalQuantity'[other] = totalQuantity[other]
  BY DEF AppendOrder, LInv, Types
<1>7. QED
  BY <1>4, <1>5, <1>6, OthersKeep DEF LInv

\* remove touches its own level's list only.
LEMMA DetachSpares ==
  ASSUME LInv, Types', NEW level \in Level, NEW list \in Seq(Order), Chain(list, level),
         NEW k \in 1..Len(list), Detach(level, list[k]),
         totalQuantity' = [totalQuantity EXCEPT ![level] = @ - remainingQuantity[list[k]]],
         \A o \in Order \ {list[k]} : remainingQuantity'[o] = remainingQuantity[o],
         NEW other \in Level \ {level}, NEW rest \in Seq(Order), Chain(rest, other)
  PROVE  Chain(rest, other)'
<1>1. \A o \in Elements(rest) : o \in Order /\ o \notin Elements(list)
  BY ListsApart
<1>2. \A i \in 1..Len(list) : list[i] \in Elements(list) /\ list[i] \in Order
  BY ElementOfSeq DEF Elements
<1>3. /\ prev[list[k]] \in Elements(list) \cup {Null}
      /\ next[list[k]] \in Elements(list) \cup {Null}
  <2>1. k # 1 => k - 1 \in 1..Len(list)
    BY LenProperties
  <2>2. k # Len(list) => k + 1 \in 1..Len(list)
    BY LenProperties
  <2>3. QED
    BY <1>2, <2>1, <2>2 DEF Chain
<1>4. \A o \in Elements(rest) :
        /\ o # Null /\ o # list[k] /\ o # prev[list[k]] /\ o # next[list[k]]
  BY <1>1, <1>2, <1>3, NullAssumption
<1>5. \A o \in Elements(rest) :
        /\ next'[o] = next[o] /\ prev'[o] = prev[o]
        /\ remainingQuantity'[o] = remainingQuantity[o]
  BY <1>1, <1>4 DEF Detach, Unlink, LInv, Types
<1>6. \A o \in Order : priceLevel'[o] = other <=> priceLevel[o] = other
  <2>1. priceLevel[list[k]] = level
    BY <1>2 DEF Chain
  <2>2. priceLevel' = [priceLevel EXCEPT ![list[k]] = Null]
    BY DEF Detach
  <2>3. QED
    BY <2>1, <2>2, NullAssumption DEF LInv, Types
<1>7. /\ head'[other] = head[other] /\ tail'[other] = tail[other]
      /\ orderCount'[other] = orderCount[other] /\ totalQuantity'[other] = totalQuantity[other]
  BY DEF Detach, Unlink, LInv, Types
<1>8. QED
  BY <1>5, <1>6, <1>7, OthersKeep DEF LInv

\* A fill that leaves something touches its own level's list only.
LEMMA FillSpares ==
  ASSUME LInv, Types', NEW level \in Level, NEW list \in Seq(Order), Chain(list, level),
         NEW order \in Elements(list), NEW quantity \in Nat,
         UNCHANGED <<links, orderCount, priceLevel>>,
         remainingQuantity' = [remainingQuantity EXCEPT ![order] = @ - quantity],
         totalQuantity' = [totalQuantity EXCEPT ![level] = @ - quantity],
         NEW other \in Level \ {level}, NEW rest \in Seq(Order), Chain(rest, other)
  PROVE  Chain(rest, other)'
<1>1. \A o \in Elements(rest) : o \in Order /\ o \notin Elements(list)
  BY ListsApart
<1>2. \A o \in Elements(rest) : remainingQuantity'[o] = remainingQuantity[o]
  BY <1>1 DEF LInv, Types
<1>3. totalQuantity'[other] = totalQuantity[other]
  BY DEF LInv, Types
<1>4. QED
  BY <1>2, <1>3, OthersKeep DEF LInv, links

\* What a step makes of the list of a level: an order joins at the end, an order leaves, or
\* nothing moves.
LEMMA LevelStep ==
  ASSUME LInv, NEW level \in Level, NEW list \in Seq(Order), Chain(list, level),
         Types',
         \/ \E order \in Order, quantity \in 1..MaxQuantity : AppendOrder(level, order, quantity)
         \/ \E order \in Order : CancelOrder(level, order)
         \/ \E quantity \in 1..MaxQuantity : FillHead(level, quantity)
  PROVE  /\ \E after \in Seq(Order) : Chain(after, level)'
         /\ \A other \in Level \ {level} : \A rest \in Seq(Order) :
              Chain(rest, other) => Chain(rest, other)'
         /\ Detached'
<1>1. CASE \E order \in Order, quantity \in 1..MaxQuantity : AppendOrder(level, order, quantity)
  <2>1. PICK order \in Order, quantity \in 1..MaxQuantity : AppendOrder(level, order, quantity)
    BY <1>1
  <2>2. Append(list, order) \in Seq(Order)
    BY AppendProperties
  <2>3. Chain(Append(list, order), level)'
    BY <2>1, AppendChains
  <2>4. \A other \in Level \ {level} : \A rest \in Seq(Order) :
          Chain(rest, other) => Chain(rest, other)'
    BY <2>1, AppendSpares
  <2>5. Detached'
    <3>1. ASSUME NEW o \in Order, priceLevel'[o] = Null
          PROVE  o # order /\ priceLevel[o] = Null
      BY <2>1, <3>1, NullAssumption DEF AppendOrder, LInv, Types
    <3>2. ~IsEmpty(level) => tail[level] \in Elements(list)
      BY LenProperties DEF IsEmpty, Chain, Elements
    <3>3. ~IsEmpty(level) => tail[level] \in Order /\ priceLevel[tail[level]] = level
      BY <3>2, ElementsAreFinite DEF Chain
    <3>4. ASSUME NEW o \in Order, priceLevel'[o] = Null
          PROVE  next'[o] = Null /\ prev'[o] = Null
      BY <2>1, <3>1, <3>3, <3>4, NullAssumption DEF AppendOrder, Detached, LInv, Types
    <3>5. QED
      BY <3>4 DEF Detached
  <2>6. QED
    BY <2>2, <2>3, <2>4, <2>5
<1>2. ASSUME NEW k \in 1..Len(list), Detach(level, list[k]),
             totalQuantity' = [totalQuantity EXCEPT ![level] = @ - remainingQuantity[list[k]]],
             \A o \in Order \ {list[k]} : remainingQuantity'[o] = remainingQuantity[o]
      PROVE  /\ \E after \in Seq(Order) : Chain(after, level)'
             /\ \A other \in Level \ {level} : \A rest \in Seq(Order) :
                  Chain(rest, other) => Chain(rest, other)'
             /\ Detached'
  <2>1. Chain(Cut(list, k), level)'
    BY <1>2, DetachChains
  <2>2. Cut(list, k) \in Seq(Order)
    <3>1. \A i, j \in 1..Len(list) : list[i] = list[j] => i = j
      BY DEF Chain
    <3>2. QED
      BY <3>1, CutRest
  <2>3. \A other \in Level \ {level} : \A rest \in Seq(Order) :
          Chain(rest, other) => Chain(rest, other)'
    BY <1>2, DetachSpares
  <2>4. Detached'
    <3>1. \A i \in 1..Len(list) : list[i] \in Order /\ priceLevel[list[i]] = level
      BY ElementOfSeq DEF Chain, Elements
    <3>2. /\ prev[list[k]] = Null \/ (prev[list[k]] \in Order /\ priceLevel[prev[list[k]]] = level)
          /\ next[list[k]] = Null \/ (next[list[k]] \in Order /\ priceLevel[next[list[k]]] = level)
      <4>1. k # 1 => k - 1 \in 1..Len(list)
        BY LenProperties
      <4>2. k # Len(list) => k + 1 \in 1..Len(list)
        BY LenProperties
      <4>3. QED
        BY <3>1, <4>1, <4>2 DEF Chain
    <3>3. /\ priceLevel' = [priceLevel EXCEPT ![list[k]] = Null]
          /\ next' = [o \in Order |-> IF o = list[k] THEN Null
                                      ELSE IF o = prev[list[k]] THEN next[list[k]] ELSE next[o]]
          /\ prev' = [o \in Order |-> IF o = list[k] THEN Null
                                      ELSE IF o = next[list[k]] THEN prev[list[k]] ELSE prev[o]]
      BY <1>2 DEF Detach, Unlink
    <3>4. ASSUME NEW o \in Order, priceLevel'[o] = Null, o # list[k]
          PROVE  next'[o] = Null /\ prev'[o] = Null
      <4>1. priceLevel[o] = Null /\ next[o] = Null /\ prev[o] = Null
        BY <3>3, <3>4 DEF Detached, LInv, Types
      <4>2. o # prev[list[k]] /\ o # next[list[k]]
        BY <3>2, <4>1, NullAssumption
      <4>3. QED
        BY <3>3, <3>4, <4>1, <4>2
    <3>5. next'[list[k]] = Null /\ prev'[list[k]] = Null
      BY <3>1, <3>3
    <3>6. QED
      BY <3>4, <3>5 DEF Detached
  <2>5. QED
    BY <2>1, <2>2, <2>3, <2>4
<1>3. CASE \E order \in Order : CancelOrder(level, order)
  <2>1. PICK order \in Order : CancelOrder(level, order)
    BY <1>3
  <2>2. PICK k \in 1..Len(list) : list[k] = order
    BY <2>1, PlaceOf DEF CancelOrder
  <2>3. \A o \in Order \ {list[k]} : remainingQuantity'[o] = remainingQuantity[o]
    BY <2>1, <2>2 DEF CancelOrder, LInv, Types
  <2>4. QED
    BY <1>2, <2>1, <2>2, <2>3 DEF CancelOrder
<1>4. CASE \E quantity \in 1..MaxQuantity : FillHead(level, quantity)
  <2>1. PICK quantity \in 1..MaxQuantity : FillHead(level, quantity)
    BY <1>4
  <2>2. 1 \in 1..Len(list) /\ head[level] = list[1] /\ list[1] \in Elements(list)
        /\ list[1] \in Order /\ quantity \in Nat
    BY <2>1, HeadIsFirst, ElementOfSeq, QuantityAssumption DEF FillHead
  <2>3. /\ remainingQuantity' = [remainingQuantity EXCEPT ![list[1]] = @ - quantity]
        /\ totalQuantity' = [totalQuantity EXCEPT ![level] = @ - quantity]
        /\ IF quantity = remainingQuantity[list[1]]
           THEN Detach(level, list[1])
           ELSE UNCHANGED <<links, orderCount, priceLevel>>
    BY <2>1, <2>2 DEF FillHead
  <2>4. CASE quantity = remainingQuantity[list[1]]
    <3>1. \A o \in Order \ {list[1]} : remainingQuantity'[o] = remainingQuantity[o]
      BY <2>3 DEF LInv, Types
    <3>2. QED
      BY <1>2, <2>2, <2>3, <2>4, <3>1
  <2>5. CASE quantity # remainingQuantity[list[1]]
    <3>1. Chain(list, level)'
      BY <2>2, <2>3, <2>5, FillChains
    <3>2. \A other \in Level \ {level} : \A rest \in Seq(Order) :
            Chain(rest, other) => Chain(rest, other)'
      BY <2>2, <2>3, <2>5, FillSpares
    <3>3. Detached'
      BY <2>3, <2>5 DEF Detached, LInv, links
    <3>4. QED
      BY <3>1, <3>2, <3>3
  <2>6. QED
    BY <2>4, <2>5
<1>5. QED
  BY <1>1, <1>3, <1>4

\* Counts, totals and quantities stay numbers: remove takes nothing from an empty level.
LEMMA TypesKept ==
  ASSUME LInv, Next
  PROVE  Types'
<1>1. Types /\ \A level \in Level : level # Null
  BY NullAssumption DEF LInv, Types
<1>2. ASSUME NEW level \in Level, NEW order \in Order, priceLevel[order] = level,
             Detach(level, order)
      PROVE  /\ head' \in [Level -> Node] /\ tail' \in [Level -> Node]
             /\ orderCount' \in [Level -> Nat]
             /\ next' \in [Order -> Node] /\ prev' \in [Order -> Node]
             /\ priceLevel' \in [Order -> Level \cup {Null}]
  <2>1. PICK list \in Seq(Order) : Chain(list, level)
    BY DEF LInv
  <2>2. PICK k \in 1..Len(list) : list[k] = order
    BY <1>2, <2>1, PlaceOf
  <2>3. orderCount[level] \in Nat /\ orderCount[level] # 0
    BY <1>1, <2>1, <2>2 DEF Chain, Types
  <2>4. orderCount' \in [Level -> Nat]
    BY <1>1, <1>2, <2>3 DEF Detach, Types
  <2>5. prev[order] \in Node /\ next[order] \in Node
    BY <1>1 DEF Types
  <2>6. QED
    BY <1>1, <1>2, <2>4, <2>5 DEF Detach, Unlink, Types, Node
<1>3. ASSUME NEW level \in Level, NEW order \in Order, NEW quantity \in 1..MaxQuantity,
             AppendOrder(level, order, quantity)
      PROVE  Types'
  <2>1. quantity \in Nat
    BY QuantityAssumption
  <2>2. /\ tail' \in [Level -> Node] /\ head' \in [Level -> Node]
        /\ next' \in [Order -> Node] /\ prev' \in [Order -> Node]
    BY <1>1, <1>3 DEF AppendOrder, Types, Node
  <2>3. /\ orderCount' \in [Level -> Nat] /\ totalQuantity' \in [Level -> Int]
        /\ priceLevel' \in [Order -> Level \cup {Null}]
        /\ remainingQuantity' \in [Order -> Nat]
    BY <1>1, <1>3, <2>1 DEF AppendOrder, Types
  <2>4. QED
    BY <2>2, <2>3 DEF Types
<1>4. ASSUME NEW level \in Level, NEW order \in Order, CancelOrder(level, order)
      PROVE  Types'
  <2>1. /\ totalQuantity' \in [Level -> Int] /\ remainingQuantity' \in [Order -> Nat]
    BY <1>1, <1>4 DEF CancelOrder, Types
  <2>2. QED
    BY <1>2, <1>4, <2>1 DEF CancelOrder, Types
<1>5. ASSUME NEW level \in Level, NEW quantity \in 1..MaxQuantity, FillHead(level, quantity)
      PROVE  Types'
  <2>1. PICK list \in Seq(Order) : Chain(list, level)
    BY DEF LInv
  <2>2. head[level] \in Order /\ priceLevel[head[level]] = level /\ quantity \in Nat
    BY <1>5, <2>1, HeadIsFirst, ElementsAreFinite, QuantityAssumption DEF FillHead, Chain
  <2>3. totalQuantity' \in [Level -> Int] /\ remainingQuantity' \in [Order -> Nat]
    BY <1>1, <1>5, <2>2 DEF FillHead, Types
  <2>4. CASE quantity = remainingQuantity[head[level]]
    BY <1>2, <1>5, <2>2, <2>3, <2>4 DEF FillHead, Types
  <2>5. CASE quantity # remainingQuantity[head[level]]
    BY <1>1, <1>5, <2>3, <2>5 DEF FillHead, Types, links
  <2>6. QED
    BY <2>4, <2>5
<1>6. QED
  BY <1>3, <1>4, <1>5 DEF Next

LEMMA LevelsBegin == Init => LInv
<1> SUFFICES ASSUME Init PROVE LInv
  OBVIOUS
<1>1. Types /\ Detached
  BY DEF Init, Types, Detached, Node
<1>2. ASSUME NEW level \in Level PROVE Chain(<<>>, level)
  <2>1. Len(<<>>) = 0 /\ Elements(<<>>) = {}
    BY EmptySeq DEF Elements
  <2>2. Total(remainingQuantity, {}) = 0
    BY FS_EmptySet, TotalUnfolds DEF Quantities
  <2>3. \A order \in Order : priceLevel[order] # level
    BY NullAssumption DEF Init
  <2>4. 1..Len(<<>>) = {}
    BY <2>1
  <2>5. head[level] = Null /\ tail[level] = Null /\ orderCount[level] = 0 /\ totalQuantity[level] = 0
    BY DEF Init
  <2>6. QED
    BY <2>1, <2>2, <2>3, <2>4, <2>5 DEF Chain
<1>3. <<>> \in Seq(Order)
  BY EmptySeq
<1>4. QED
  BY <1>1, <1>2, <1>3 DEF LInv

LEMMA LevelsKeep ==
  ASSUME LInv, [Next]_vars
  PROVE  LInv'
<1>1. CASE Next
  <2>1. Types'
    BY <1>1, TypesKept
  <2>2. PICK level \in Level :
          \/ \E order \in Order, quantity \in 1..MaxQuantity : AppendOrder(level, order, quantity)
          \/ \E order \in Order : CancelOrder(level, order)
          \/ \E quantity \in 1..MaxQuantity : FillHead(level, quantity)
    BY <1>1 DEF Next
  <2>3. PICK list \in Seq(Order) : Chain(list, level)
    BY DEF LInv
  <2>4. /\ \E after \in Seq(Order) : Chain(after, level)'
        /\ \A other \in Level \ {level} : \A rest \in Seq(Order) :
             Chain(rest, other) => Chain(rest, other)'
        /\ Detached'
    BY <2>1, <2>2, <2>3, LevelStep
  <2>5. ASSUME NEW other \in Level PROVE \E after \in Seq(Order) : Chain(after, other)'
    <3>1. CASE other = level
      BY <2>4, <3>1
    <3>2. CASE other # level
      <4>1. PICK rest \in Seq(Order) : Chain(rest, other)
        BY DEF LInv
      <4>2. QED
        BY <2>4, <3>2, <4>1
    <3>3. QED
      BY <3>1, <3>2
  <2>6. QED
    BY <2>1, <2>4, <2>5 DEF LInv
<1>2. CASE UNCHANGED vars
  BY <1>2 DEF vars, LInv, Types, Detached, Chain
<1>3. QED
  BY <1>1, <1>2

LEMMA LevelsInvariance == Spec => []LInv
  BY LevelsBegin, LevelsKeep, PTL DEF Spec

\* toArray reads the list.
LEMMA ForwardsIsList ==
  ASSUME NEW level \in Level, NEW list \in Seq(Order), Chain(list, level)
  PROVE  Forwards(level) = list
<1>1. list # <<>> => head[level] = list[1]
  BY EmptySeq, LenProperties DEF Chain
<1>2. ASSUME NEW i \in 1..Len(list), i > 1
      PROVE  list[i] = next[list[i - 1]]
  <2>1. i - 1 \in 1..Len(list) /\ (i - 1) + 1 = i /\ i - 1 # Len(list)
    BY <1>2, LenProperties
  <2>2. QED
    BY <2>1 DEF Chain
<1>3. ListOf(head[level], next, Len(list)) = list
  BY <1>1, <1>2, ListIsMet
<1>4. QED
  BY <1>3 DEF Chain, Forwards

\* However orders join, trade and leave, from the front, the middle or the back, the lists
\* of all levels stay linked both ways, hold the orders of their levels, each once, and
\* have their counts and totals; an order that has left links to nothing.
THEOREM AlwaysWellLinked == Spec => []WellLinked
<1>1. ASSUME LInv PROVE WellLinked
  <2>1. ASSUME NEW level \in Level
        PROVE  LET list == Forwards(level)
                   count == orderCount[level]
               IN  /\ {list[i] : i \in 1..count} = {order \in Order : priceLevel[order] = level}
                   /\ \A i, j \in 1..count : list[i] = list[j] => i = j
                   /\ \A i \in 1..count :
                        /\ prev[list[i]] = IF i = 1 THEN Null ELSE list[i - 1]
                        /\ next[list[i]] = IF i = count THEN Null ELSE list[i + 1]
                   /\ head[level] = IF count = 0 THEN Null ELSE list[1]
                   /\ tail[level] = IF count = 0 THEN Null ELSE list[count]
                   /\ totalQuantity[level] =
                        MapThenSumSet(LAMBDA order : remainingQuantity[order],
                                      {list[i] : i \in 1..count})
    <3>1. PICK list \in Seq(Order) : Chain(list, level)
      BY <1>1 DEF LInv
    <3>2. Forwards(level) = list /\ orderCount[level] = Len(list)
      BY <3>1, ForwardsIsList DEF Chain
    <3>3. {list[i] : i \in 1..Len(list)} = {order \in Order : priceLevel[order] = level}
      BY <3>1, ElementsAreFinite DEF Chain, Elements
    <3>4. Total(remainingQuantity, {list[i] : i \in 1..Len(list)})
          = MapThenSumSet(LAMBDA order : remainingQuantity[order], {list[i] : i \in 1..Len(list)})
      BY DEF Total, MapThenSumSet, MapThenFoldSet
    <3>5. totalQuantity[level]
          = MapThenSumSet(LAMBDA order : remainingQuantity[order], {list[i] : i \in 1..Len(list)})
      BY <3>1, <3>4 DEF Chain, Elements, MapThenSumSet, MapThenFoldSet
    <3>6. QED
      BY <3>1, <3>2, <3>3, <3>5 DEF Chain, MapThenSumSet, MapThenFoldSet
  <2>2. \A order \in Order :
          priceLevel[order] = Null => next[order] = Null /\ prev[order] = Null
    BY <1>1 DEF LInv, Detached
  <2>3. QED
    BY <2>1, <2>2 DEF WellLinked
<1>2. QED
  BY <1>1, LevelsInvariance, PTL

\* The total of a level covers what its first order has left, so that
\* decreaseTotalQuantity never throws in the middle of a trade.
HeadIsCovered ==
  \A level \in Level :
    head[level] # Null => remainingQuantity[head[level]] <= totalQuantity[level]

\* A fill of the first order never takes more off the total than there is
\* (decreaseTotalQuantity's guard, PriceLevel.js).
THEOREM HeadAlwaysCovered == Spec => []HeadIsCovered
<1>1. ASSUME LInv, NEW level \in Level, head[level] # Null
      PROVE  remainingQuantity[head[level]] <= totalQuantity[level]
  <2>1. PICK list \in Seq(Order) : Chain(list, level)
    BY <1>1 DEF LInv
  <2>2. head[level] \in Elements(list)
    BY <1>1, <2>1, HeadIsFirst
  <2>3. IsFiniteSet(Elements(list)) /\ \A order \in Elements(list) : remainingQuantity[order] \in Nat
    BY <1>1, ElementsAreFinite DEF LInv, Types
  <2>4. QED
    BY <2>1, <2>2, <2>3, TotalCovers DEF Chain
<1>2. LInv => HeadIsCovered
  BY <1>1 DEF HeadIsCovered
<1>3. QED
  BY <1>2, LevelsInvariance, PTL

-----------------------------------------------------------------------------
(* First in, first out *)

Waiting == [level \in Level |-> Forwards(level)]

\* toArray reads the list after a step, too.
LEMMA ForwardsWillBe ==
  ASSUME NEW level \in Level, NEW list \in Seq(Order), Chain(list, level)'
  PROVE  Forwards(level)' = list
<1>1. list # <<>> => head'[level] = list[1]
  BY EmptySeq, LenProperties DEF Chain
<1>2. ASSUME NEW i \in 1..Len(list), i > 1
      PROVE  list[i] = next'[list[i - 1]]
  <2>1. i - 1 \in 1..Len(list) /\ (i - 1) + 1 = i /\ i - 1 # Len(list)
    BY <1>2, LenProperties
  <2>2. QED
    BY <2>1 DEF Chain
<1>3. ListOf(head'[level], next', Len(list)) = list
  BY <1>1, <1>2, ListIsMet
<1>4. QED
  BY <1>3 DEF Chain, Forwards

\* A step that makes `after' of one list and spares the others changes one queue.
LEMMA QueueBecomes ==
  ASSUME LInv, NEW level \in Level, NEW after \in Seq(Order), Chain(after, level)',
         \A other \in Level \ {level} : \A rest \in Seq(Order) :
           Chain(rest, other) => Chain(rest, other)'
  PROVE  Waiting' = [Waiting EXCEPT ![level] = after]
<1>1. Forwards(level)' = after
  BY ForwardsWillBe
<1>2. ASSUME NEW other \in Level \ {level} PROVE Forwards(other)' = Forwards(other)
  <2>1. PICK rest \in Seq(Order) : Chain(rest, other)
    BY DEF LInv
  <2>2. Chain(rest, other)'
    BY <2>1
  <2>3. QED
    BY <2>1, <2>2, ForwardsIsList, ForwardsWillBe
<1>3. QED
  BY <1>1, <1>2 DEF Waiting

\* The place of an order in a queue is cut out as RemoveAt does it.
LEMMA CutIsRemoveAt ==
  ASSUME NEW list \in Seq(Order), NEW k \in 1..Len(list)
  PROVE  /\ Fifo!RemoveAt(list, k) = Cut(list, k)
         /\ k = 1 => Cut(list, k) = Tail(list)
<1>1. Len(list) \in Nat /\ k \in Int /\ \A i \in 1..Len(list) : list[i] \in Order
  BY LenProperties, ElementOfSeq
<1> DEFINE front == SubSeq(list, 1, k - 1)
           back == SubSeq(list, k + 1, Len(list))
<1>2. Fifo!RemoveAt(list, k) = front \o back
  BY DEF Fifo!RemoveAt
<1>3. /\ front \in Seq(Order) /\ Len(front) = k - 1
      /\ \A i \in 1..(k - 1) : front[i] = list[i]
  <2>1. \A i \in 1..(k - 1) : list[i] \in Order
    BY <1>1
  <2>2. /\ front \in Seq(Order)
        /\ Len(front) = IF 1 <= k - 1 THEN ((k - 1) - 1) + 1 ELSE 0
        /\ \A i \in 1..(((k - 1) - 1) + 1) : front[i] = list[(1 + i) - 1]
    BY <1>1, <2>1, SubSeqProperties
  <2>3. QED
    BY <1>1, <2>2
<1>4. /\ back \in Seq(Order) /\ Len(back) = Len(list) - k
      /\ \A i \in 1..(Len(list) - k) : back[i] = list[k + i]
  <2>1. \A i \in (k + 1)..Len(list) : list[i] \in Order
    BY <1>1
  <2>2. /\ back \in Seq(Order)
        /\ Len(back) = IF k + 1 <= Len(list) THEN (Len(list) - (k + 1)) + 1 ELSE 0
        /\ \A i \in 1..((Len(list) - (k + 1)) + 1) : back[i] = list[((k + 1) + i) - 1]
    BY <1>1, <2>1, SubSeqProperties
  <2>3. QED
    BY <1>1, <2>2
<1> HIDE DEF front, back
<1>5. /\ front \o back \in Seq(Order) /\ Len(front \o back) = Len(list) - 1
      /\ \A i \in 1..(Len(list) - 1) : (front \o back)[i] = IF i < k THEN list[i] ELSE list[i + 1]
  <2>1. /\ front \o back \in Seq(Order)
        /\ Len(front \o back) = Len(front) + Len(back)
        /\ \A i \in 1..(Len(front) + Len(back)) :
             (front \o back)[i] = IF i <= Len(front) THEN front[i] ELSE back[i - Len(front)]
    BY <1>3, <1>4, ConcatProperties
  <2>2. Len(front) + Len(back) = Len(list) - 1
    BY <1>1, <1>3, <1>4
  <2>3. ASSUME NEW i \in 1..(Len(list) - 1)
        PROVE  (front \o back)[i] = IF i < k THEN list[i] ELSE list[i + 1]
    <3>1. (front \o back)[i] = IF i <= k - 1 THEN front[i] ELSE back[i - (k - 1)]
      BY <1>3, <2>1, <2>2
    <3>2. CASE i < k
      BY <1>1, <1>3, <3>1, <3>2
    <3>3. CASE ~(i < k)
      <4>1. i - (k - 1) \in 1..(Len(list) - k) /\ k + (i - (k - 1)) = i + 1 /\ ~(i <= k - 1)
        BY <1>1, <3>3
      <4>2. back[i - (k - 1)] = list[k + (i - (k - 1))]
        BY <1>4, <4>1
      <4>3. QED
        BY <3>1, <3>3, <4>1, <4>2
    <3>4. QED
      BY <3>2, <3>3
  <2>4. QED
    BY <2>1, <2>2, <2>3
<1>6. front \o back = Cut(list, k)
  <2>1. front \o back = [i \in 1..(Len(list) - 1) |-> (front \o back)[i]]
    BY <1>5, LenProperties
  <2>2. QED
    BY <1>5, <2>1 DEF Cut
<1>7. ASSUME k = 1 PROVE Cut(list, k) = Tail(list)
  <2>1. list # <<>>
    BY <1>1, EmptySeq
  <2>2. /\ Tail(list) \in Seq(Order) /\ Len(Tail(list)) = Len(list) - 1
        /\ \A i \in 1..Len(Tail(list)) : Tail(list)[i] = list[i + 1]
    BY <2>1, HeadTailProperties
  <2>3. \A i \in 1..(Len(list) - 1) : (front \o back)[i] = Tail(list)[i]
    BY <1>1, <1>5, <1>7, <2>2
  <2>4. front \o back = Tail(list)
    BY <1>5, <2>2, <2>3, SeqEqual
  <2>5. QED
    BY <1>6, <2>4
<1>8. QED
  BY <1>2, <1>6, <1>7

\* Nobody waits whose node belongs to no level.
LEMMA WaitsInItsLevel ==
  ASSUME LInv, NEW order \in Order
  PROVE  \A level \in Level : \A i \in DOMAIN Waiting[level] :
           Waiting[level][i] = order => priceLevel[order] = level
<1>1. ASSUME NEW level \in Level, NEW i \in DOMAIN Waiting[level], Waiting[level][i] = order
      PROVE  priceLevel[order] = level
  <2>1. PICK list \in Seq(Order) : Chain(list, level)
    BY DEF LInv
  <2>2. Waiting[level] = list /\ DOMAIN list = 1..Len(list)
    BY <2>1, ForwardsIsList, LenProperties DEF Waiting
  <2>3. QED
    BY <1>1, <2>1, <2>2 DEF Chain, Elements
<1>2. QED
  BY <1>1

\* append is the arrival of an order.
LEMMA AppendJoins ==
  ASSUME LInv, Types', NEW level \in Level, NEW order \in Order, NEW quantity \in 1..MaxQuantity,
         AppendOrder(level, order, quantity)
  PROVE  Fifo!Join(level, order)
<1>1. PICK list \in Seq(Order) : Chain(list, level)
  BY DEF LInv
<1>2. Append(list, order) \in Seq(Order) /\ Chain(Append(list, order), level)'
  BY <1>1, AppendChains, AppendProperties
<1>3. \A other \in Level \ {level} : \A rest \in Seq(Order) :
        Chain(rest, other) => Chain(rest, other)'
  BY <1>1, AppendSpares
<1>4. Waiting[level] = list
  BY <1>1, ForwardsIsList DEF Waiting
<1>5. Waiting' = [Waiting EXCEPT ![level] = Append(@, order)]
  BY <1>2, <1>3, <1>4, QueueBecomes
<1>6. ~Fifo!Waiting(order)
  <2>1. priceLevel[order] = Null
    BY DEF AppendOrder
  <2>2. \A l \in Level : \A i \in DOMAIN Waiting[l] : Waiting[l][i] # order
    BY <2>1, NullAssumption, WaitsInItsLevel
  <2>3. QED
    BY <2>2 DEF Fifo!Waiting, Fifo!ToSet, Waiting
<1>7. remainingQuantity' = [remainingQuantity EXCEPT ![order] = quantity]
      /\ remainingQuantity'[order] = quantity /\ quantity # 0
  BY QuantityAssumption DEF AppendOrder, LInv, Types
<1>8. QED
  BY <1>5, <1>6, <1>7 DEF Fifo!Join, Waiting

\* cancelOrder is an order that leaves.
LEMMA CancelLeaves ==
  ASSUME LInv, Types', NEW level \in Level, NEW order \in Order, CancelOrder(level, order)
  PROVE  Fifo!Leave(level, order)
<1>1. PICK list \in Seq(Order) : Chain(list, level)
  BY DEF LInv
<1>2. PICK k \in 1..Len(list) : list[k] = order
  BY <1>1, PlaceOf DEF CancelOrder
<1>3. /\ Detach(level, list[k])
      /\ totalQuantity' = [totalQuantity EXCEPT ![level] = @ - remainingQuantity[list[k]]]
      /\ \A o \in Order \ {list[k]} : remainingQuantity'[o] = remainingQuantity[o]
      /\ remainingQuantity' = [remainingQuantity EXCEPT ![order] = 0]
  BY <1>2 DEF CancelOrder, LInv, Types
<1>4. \A i, j \in 1..Len(list) : list[i] = list[j] => i = j
  BY <1>1 DEF Chain
<1>5. Cut(list, k) \in Seq(Order) /\ Chain(Cut(list, k), level)'
  BY <1>1, <1>3, <1>4, CutRest, DetachChains
<1>6. \A other \in Level \ {level} : \A rest \in Seq(Order) :
        Chain(rest, other) => Chain(rest, other)'
  BY <1>1, <1>3, DetachSpares
<1>7. Waiting[level] = list /\ DOMAIN list = 1..Len(list)
  BY <1>1, ForwardsIsList, LenProperties DEF Waiting
<1>8. Waiting' = [Waiting EXCEPT ![level] = Fifo!RemoveAt(@, k)]
  BY <1>5, <1>6, <1>7, QueueBecomes, CutIsRemoveAt
<1>9. QED
  BY <1>2, <1>3, <1>7, <1>8 DEF Fifo!Leave, Waiting

\* A trade with the first order is a service.
LEMMA FillServes ==
  ASSUME LInv, Types', NEW level \in Level, NEW quantity \in 1..MaxQuantity, FillHead(level, quantity)
  PROVE  Fifo!Serve(level)
<1>1. PICK list \in Seq(Order) : Chain(list, level)
  BY DEF LInv
<1>2. /\ 1 \in 1..Len(list) /\ head[level] = list[1] /\ list[1] \in Elements(list)
      /\ list[1] \in Order /\ quantity \in Nat /\ quantity # 0
  BY <1>1, HeadIsFirst, ElementOfSeq, QuantityAssumption DEF FillHead
<1>3. /\ remainingQuantity' = [remainingQuantity EXCEPT ![list[1]] = @ - quantity]
      /\ totalQuantity' = [totalQuantity EXCEPT ![level] = @ - quantity]
      /\ IF quantity = remainingQuantity[list[1]]
         THEN Detach(level, list[1])
         ELSE UNCHANGED <<links, orderCount, priceLevel>>
  BY <1>2 DEF FillHead
<1>4. /\ remainingQuantity[list[1]] \in Nat
      /\ remainingQuantity'[list[1]] = remainingQuantity[list[1]] - quantity
      /\ remainingQuantity' = [remainingQuantity EXCEPT ![list[1]] = remainingQuantity'[list[1]]]
  BY <1>2, <1>3 DEF LInv, Types
<1>5. Waiting[level] = list /\ list # <<>> /\ Head(list) = list[1]
  BY <1>1, <1>2, ForwardsIsList, EmptySeq DEF Waiting
<1>6. Waiting' = IF remainingQuantity'[list[1]] = 0
                 THEN [Waiting EXCEPT ![level] = Tail(@)] ELSE Waiting
  <2>1. CASE quantity = remainingQuantity[list[1]]
    <3>1. remainingQuantity'[list[1]] = 0
      BY <1>2, <1>4, <2>1
    <3>2. \A o \in Order \ {list[1]} : remainingQuantity'[o] = remainingQuantity[o]
      BY <1>3 DEF LInv, Types
    <3>3. \A i, j \in 1..Len(list) : list[i] = list[j] => i = j
      BY <1>1 DEF Chain
    <3>4. Cut(list, 1) \in Seq(Order) /\ Chain(Cut(list, 1), level)'
      BY <1>1, <1>2, <1>3, <2>1, <3>2, <3>3, CutRest, DetachChains
    <3>5. \A other \in Level \ {level} : \A rest \in Seq(Order) :
            Chain(rest, other) => Chain(rest, other)'
      BY <1>1, <1>2, <1>3, <2>1, <3>2, DetachSpares
    <3>6. Waiting' = [Waiting EXCEPT ![level] = Tail(@)]
      BY <1>2, <1>5, <3>4, <3>5, QueueBecomes, CutIsRemoveAt
    <3>7. QED
      BY <3>1, <3>6
  <2>2. CASE quantity # remainingQuantity[list[1]]
    <3>1. remainingQuantity'[list[1]] # 0
      BY <1>2, <1>4, <2>2
    <3>2. Waiting' = Waiting
      BY <1>3, <2>2 DEF Waiting, Forwards, links
    <3>3. QED
      BY <3>1, <3>2
  <2>3. QED
    BY <2>1, <2>2
<1>7. remainingQuantity'[list[1]] < remainingQuantity[list[1]]
  BY <1>2, <1>4
<1>8. QED
  BY <1>4, <1>5, <1>6, <1>7 DEF Fifo!Serve, Waiting

\* However its links are changed, a level serves its orders first in, first out, and an
\* order that leaves from the middle disturbs no other: the list and its quantities are an
\* implementation of FifoQueue.
THEOREM FifoIsImplemented == Spec => ImplementsFifo
<1>1. ASSUME Init PROVE Fifo!Init
  <2>1. LInv
    BY <1>1, LevelsBegin
  <2>2. ASSUME NEW level \in Level PROVE Forwards(level) = <<>>
    <3>1. PICK list \in Seq(Order) : Chain(list, level)
      BY <2>1 DEF LInv
    <3>2. Len(list) = 0
      BY <1>1, <3>1 DEF Init, Chain
    <3>3. QED
      BY <3>1, <3>2, ForwardsIsList, EmptySeq
  <2>3. QED
    BY <1>1, <2>2 DEF Init, Fifo!Init
<1>2. ASSUME LInv, [Next]_vars PROVE [Fifo!Next]_(Fifo!vars)
  <2>1. CASE Next
    <3>1. Types'
      BY <1>2, <2>1, TypesKept
    <3>2. QED
      BY <1>2, <2>1, <3>1, AppendJoins, CancelLeaves, FillServes DEF Next, Fifo!Next
  <2>2. CASE UNCHANGED vars
    BY <2>2 DEF vars, Fifo!vars, Forwards
  <2>3. QED
    BY <1>2, <2>1, <2>2
<1>3. QED
  BY <1>1, <1>2, LevelsInvariance, PTL DEF Spec, Fifo!Spec, ImplementsFifo
=============================================================================
