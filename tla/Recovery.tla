------------------------------ MODULE Recovery ------------------------------
(***************************************************************************)
(* The recovery snapshot of a book (toRecoverySnapshot) and the book that  *)
(* a restarted process builds from it (fromRecoverySnapshot).  Nothing but *)
(* the snapshot survives: totals, counts, indexes and links are rebuilt    *)
(* from the orders it lists.                                               *)
(*                                                                         *)
(* The worker takes a snapshot between two calls, so the model recovers    *)
(* between two calls, at any of them.                                      *)
(***************************************************************************)
EXTENDS OrderBook, SequencesExt
LOCAL INSTANCE TLC

\* Array.sort: the members of a finite set, in the order of their keys.
SortedBy(S, key) ==
  CHOOSE list \in SetToSeqs(S) :
    \A i, j \in 1..Cardinality(S) : i < j => key[list[i]] < key[list[j]]

-----------------------------------------------------------------------------
(* toRecoverySnapshot *)

\* OrderNode.snapshot, as far as a book is made of it.
OrderSnapshot(id) ==
  LET order == ordersById[id] IN
  [orderId |-> id, side |-> order.side, priceTicks |-> order.priceTicks,
   initialQuantity |-> order.initialQuantity,
   remainingQuantity |-> order.remainingQuantity, status |-> order.status]

\* PriceLevel.toArray
LevelSnapshot(side, price) ==
  LET queue == levels[side][price].orders IN
  [priceTicks |-> price, orders |-> [k \in 1..Len(queue) |-> OrderSnapshot(queue[k])]]

\* getBookSideRecoverySnapshot: the levels, best price first.
BookSideSnapshot(side) ==
  LET best == [price \in DOMAIN levels[side] |-> IF side = "BUY" THEN -price ELSE price]
      prices == SortedBy(DOMAIN levels[side], best)
  IN  [i \in 1..Len(prices) |-> LevelSnapshot(side, prices[i])]

\* The stop orders in the order of their Map.
StopOrderSnapshots ==
  LET ranks == [id \in DOMAIN stopOrdersById |-> stopOrdersById[id].rank]
      ids == SortedBy(DOMAIN stopOrdersById, ranks)
  IN  [i \in 1..Len(ids) |-> [orderId |-> ids[i], stop |-> stopOrdersById[ids[i]]]]

RecoverySnapshot ==
  [sequence |-> sequence, lastTradePriceTicks |-> lastTradePriceTicks,
   bids |-> BookSideSnapshot("BUY"), asks |-> BookSideSnapshot("SELL"),
   stopOrders |-> StopOrderSnapshots]

-----------------------------------------------------------------------------
(* fromRecoverySnapshot *)

\* The OrderNode is made anew from the initial quantity; what was left of the
\* order and its status are then set.
RestoreOrder(order) ==
  [NewNode(order.orderId, order.side, "LIMIT", order.priceTicks, order.initialQuantity)
     EXCEPT !.remainingQuantity = order.remainingQuantity, !.status = order.status]

\* An order with nothing left is skipped.
RestoredOrders(level) ==
  FlattenSeq([k \in 1..Len(level.orders) |->
    IF level.orders[k].remainingQuantity > 0 THEN <<RestoreOrder(level.orders[k])>> ELSE <<>>])

\* The new level: its orders appended one by one.
RestoredLevel(level) ==
  LET orders == RestoredOrders(level)
      left == [k \in 1..Len(orders) |-> orders[k].remainingQuantity]
  IN  [orders |-> [k \in 1..Len(orders) |-> orders[k].orderId],
       totalQuantity |-> MapThenSumSet(LAMBDA k : left[k], 1..Len(orders))]

\* restoreBookSideFromRecoverySnapshot, without levels that stay empty.
RestoredSide(side) ==
  LET kept == {i \in 1..Len(side) : RestoredOrders(side[i]) # <<>>} IN
  [price \in {side[i].priceTicks : i \in kept} |->
     RestoredLevel(side[CHOOSE i \in kept : side[i].priceTicks = price])]

\* All orders of the snapshot in the order in which they enter ordersById.
AllOrders(snapshot) ==
  LET all == snapshot.bids \o snapshot.asks
  IN  FlattenSeq([i \in 1..Len(all) |-> RestoredOrders(all[i])])

RestoredOrdersById(snapshot) ==
  LET orders == AllOrders(snapshot) IN
  [id \in {orders[i].orderId : i \in 1..Len(orders)} |->
     LET i == CHOOSE k \in 1..Len(orders) : orders[k].orderId = id IN
     [side |-> orders[i].side, priceTicks |-> orders[i].priceTicks,
      initialQuantity |-> orders[i].initialQuantity,
      remainingQuantity |-> orders[i].remainingQuantity,
      status |-> orders[i].status, rank |-> i]]

\* Slip: stop orders come back in the order of their triggers, not of their Map.
StopsByTrigger(stops) ==
  LET sorted == SortSeq(stops, LAMBDA a, b : a.stop.triggerPriceTicks < b.stop.triggerPriceTicks)
  IN  [id \in {stops[i].orderId : i \in DOMAIN stops} |->
         LET i == CHOOSE k \in DOMAIN sorted : sorted[k].orderId = id
         IN  [sorted[i].stop EXCEPT !.rank = i]]

RestoredStops(stops) ==
  [id \in {stops[i].orderId : i \in 1..Len(stops)} |->
     LET i == CHOOSE k \in 1..Len(stops) : stops[k].orderId = id
     IN  [stops[i].stop EXCEPT !.rank = i]]

\* A process restarts: its book is what the snapshot says, and no call has ended
\* yet.  Bound: some call ends between two restarts.
Recover ==
  /\ CanCall
  /\ outcome # "none"
  /\ outcome' = "none"
  /\ LET snapshot == RecoverySnapshot IN
     /\ levels' = [side \in Side |->
          RestoredSide(IF side = "BUY" THEN snapshot.bids ELSE snapshot.asks)]
     /\ ordersById' = RestoredOrdersById(snapshot)
     /\ stopOrdersById' = RestoredStops(snapshot.stopOrders)
     /\ sequence' = snapshot.sequence
     /\ lastTradePriceTicks' = snapshot.lastTradePriceTicks
     /\ clock' = 1 + Len(AllOrders(snapshot)) + Len(snapshot.stopOrders)
  /\ events' = <<>>
  /\ UNCHANGED <<phase, command, taker, trades, batch, eligible, cycles,
                 triggeredEvents>>

RecoveryNext == Next \/ Recover

RecoverySpec == Init /\ [][RecoveryNext]_vars

-----------------------------------------------------------------------------
(* Properties *)

SameButRank(a, b) == [a EXCEPT !.rank = 0] = [b EXCEPT !.rank = 0]

\* Two Maps hold the same entries in the same order.
SameMap(old, new) ==
  /\ DOMAIN old = DOMAIN new
  /\ \A id \in DOMAIN old : SameButRank(old[id], new[id])
  /\ \A a, b \in DOMAIN old : old[a].rank < old[b].rank <=> new[a].rank < new[b].rank

\* Recovery loses nothing: the levels with their queues and totals, every order
\* with what it has left, the stop orders in the order in which they will be
\* triggered, the sequence and the last trade price are those of the book that
\* was lost, so that both go on alike (fromRecoverySnapshot).
RecoveryIsFaithful ==
  [][outcome' = "none" /\ outcome # "none" =>
       /\ levels' = levels
       /\ DOMAIN ordersById' = DOMAIN ordersById
       /\ \A id \in DOMAIN ordersById : SameButRank(ordersById[id], ordersById'[id])
       /\ SameMap(stopOrdersById, stopOrdersById')
       /\ UNCHANGED <<sequence, lastTradePriceTicks>>]_vars

\* Time priority survives recoveries: the queue of a level is in the order in
\* which its orders entered ordersById, or entered it again, whatever has come,
\* traded and gone since (restoreBookSideFromRecoverySnapshot, PriceLevel.append).
QueuesAreInOrder ==
  \A side \in Side : \A price \in DOMAIN levels[side] :
    LET queue == levels[side][price].orders IN
    \A i, j \in 1..Len(queue) :
      i < j => ordersById[queue[i]].rank < ordersById[queue[j]].rank
=============================================================================
