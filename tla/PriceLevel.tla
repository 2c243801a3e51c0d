----------------------------- MODULE PriceLevel -----------------------------
(***************************************************************************)
(* The queues of the price levels (src/engine/PriceLevel.js): doubly       *)
(* linked lists through the order nodes (src/engine/OrderNode.js), with a  *)
(* count and a total beside them.  All operations are those the order book *)
(* performs: append a resting order, fill the order at the head and remove *)
(* it when nothing is left, remove a cancelled order from anywhere.        *)
(***************************************************************************)
EXTENDS Integers, Sequences, FiniteSetsExt

CONSTANTS
  Level,        \* price levels
  Order,        \* order nodes
  Null,
  MaxQuantity   \* bound: the largest quantity an order has

ASSUME NullAssumption == Null \notin Level \cup Order
ASSUME QuantityAssumption == MaxQuantity \in Nat \ {0}

VARIABLES
  head, tail, orderCount, totalQuantity,     \* of a level
  next, prev, priceLevel, remainingQuantity  \* of an order node

links == <<head, tail, next, prev>>
vars == <<head, tail, orderCount, totalQuantity, next, prev, priceLevel,
          remainingQuantity>>

Node == Order \cup {Null}

-----------------------------------------------------------------------------
\* Slip: a level of one order counts as empty.
IsNearlyEmpty(level) == orderCount[level] <= 1

IsEmpty(level) == orderCount[level] = 0

\* append, of a node that belongs to no level and has something left.
AppendOrder(level, order, quantity) ==
  /\ priceLevel[order] = Null
  /\ priceLevel' = [priceLevel EXCEPT ![order] = level]
  /\ remainingQuantity' = [remainingQuantity EXCEPT ![order] = quantity]
  /\ tail' = [tail EXCEPT ![level] = order]
  /\ IF IsEmpty(level)
     THEN /\ head' = [head EXCEPT ![level] = order]
          /\ UNCHANGED <<next, prev>>
     ELSE /\ next' = [next EXCEPT ![tail[level]] = order]
          /\ prev' = [prev EXCEPT ![order] = tail[level]]
          /\ UNCHANGED head
  /\ totalQuantity' = [totalQuantity EXCEPT ![level] = @ + quantity]
  /\ orderCount' = [orderCount EXCEPT ![level] = @ + 1]

\* Slip: the order behind keeps pointing at the one that has left.
UnlinkForwardOnly(level, order) ==
  LET previous == prev[order]
      following == next[order]
  IN  /\ head' = IF previous = Null THEN [head EXCEPT ![level] = following] ELSE head
      /\ tail' = IF following = Null THEN [tail EXCEPT ![level] = previous] ELSE tail
      /\ next' = [n \in Order |-> IF n = order THEN Null
                                  ELSE IF n = previous THEN following ELSE next[n]]
      /\ prev' = [prev EXCEPT ![order] = Null]

\* The pointers of remove, detachLinks included.
Unlink(level, order) ==
  LET previous == prev[order]
      following == next[order]
  IN  /\ head' = IF previous = Null THEN [head EXCEPT ![level] = following] ELSE head
      /\ tail' = IF following = Null THEN [tail EXCEPT ![level] = previous] ELSE tail
      /\ next' = [n \in Order |-> IF n = order THEN Null
                                  ELSE IF n = previous THEN following ELSE next[n]]
      /\ prev' = [n \in Order |-> IF n = order THEN Null
                                  ELSE IF n = following THEN previous ELSE prev[n]]

\* remove, but for the total: an order takes off it what it has left.
Detach(level, order) ==
  /\ Unlink(level, order)
  /\ orderCount' = [orderCount EXCEPT ![level] = @ - 1]
  /\ priceLevel' = [priceLevel EXCEPT ![order] = Null]

\* cancelOrder removes an order from wherever it is in its level.
CancelOrder(level, order) ==
  /\ priceLevel[order] = level
  /\ Detach(level, order)
  /\ totalQuantity' = [totalQuantity EXCEPT ![level] = @ - remainingQuantity[order]]
  /\ remainingQuantity' = [remainingQuantity EXCEPT ![order] = 0]

\* A trade with the head: fill, decreaseTotalQuantity (which throws rather than let
\* the total go below zero), and remove when filled.
FillHead(level, quantity) ==
  LET order == head[level] IN
  /\ order # Null
  /\ quantity <= remainingQuantity[order]
  /\ quantity <= totalQuantity[level]
  /\ remainingQuantity' = [remainingQuantity EXCEPT ![order] = @ - quantity]
  /\ totalQuantity' = [totalQuantity EXCEPT ![level] = @ - quantity]
  /\ IF quantity = remainingQuantity[order]
     THEN Detach(level, order)
     ELSE UNCHANGED <<links, orderCount, priceLevel>>

-----------------------------------------------------------------------------
Init ==
  /\ head = [level \in Level |-> Null]
  /\ tail = [level \in Level |-> Null]
  /\ orderCount = [level \in Level |-> 0]
  /\ totalQuantity = [level \in Level |-> 0]
  /\ next = [order \in Order |-> Null]
  /\ prev = [order \in Order |-> Null]
  /\ priceLevel = [order \in Order |-> Null]
  /\ remainingQuantity = [order \in Order |-> 0]

Next ==
  \E level \in Level :
    \/ \E order \in Order, quantity \in 1..MaxQuantity : AppendOrder(level, order, quantity)
    \/ \E order \in Order : CancelOrder(level, order)
    \/ \E quantity \in 1..MaxQuantity : FillHead(level, quantity)

Spec == Init /\ [][Next]_vars

-----------------------------------------------------------------------------
(* Properties *)

\* The nodes met in following `link' from `first' on.
ListOf(first, link, count) ==
  LET node[i \in 1..count] == IF i = 1 THEN first ELSE link[node[i - 1]]
  IN  [i \in 1..count |-> node[i]]

\* The list of a level read forwards: orderCount links from the head.
Forwards(level) == ListOf(head[level], next, orderCount[level])

\* The two directions of each list agree and end where they should: reading
\* backwards from the tail meets the same orders as reading forwards from the
\* head, these are the orders that belong to the level, each once, and the last
\* one links to nothing, so that toArray stops there.  The total is what these
\* orders have left, whichever of fill, decreaseTotalQuantity and remove has
\* brought it there; and an order that has left links to nothing, so that what it
\* leaves behind never shows up in the level it joins next (detachLinks).
WellLinked ==
  /\ \A level \in Level :
       LET list == Forwards(level)
           count == orderCount[level]
       IN  /\ {list[i] : i \in 1..count} = {order \in Order : priceLevel[order] = level}
           /\ \A i, j \in 1..count : list[i] = list[j] => i = j
           /\ \A i \in 1..count :
                /\ prev[list[i]] = IF i = 1 THEN Null ELSE list[i - 1]
                /\ next[list[i]] = IF i = count THEN Null ELSE list[i + 1]
           /\ head[level] = IF count = 0 THEN Null ELSE list[1]
           /\ tail[level] = IF count = 0 THEN Null ELSE list[count]
           /\ totalQuantity[level] =
                MapThenSumSet(LAMBDA order : remainingQuantity[order],
                              {list[i] : i \in 1..count})
  /\ \A order \in Order :
       priceLevel[order] = Null => next[order] = Null /\ prev[order] = Null

Fifo == INSTANCE FifoQueue
          WITH queue <- [level \in Level |-> Forwards(level)],
               quantity <- remainingQuantity

\* However its links are changed, a level serves its orders first in, first out,
\* and an order that leaves from the middle disturbs no other.
ImplementsFifo == Fifo!Spec
=============================================================================
