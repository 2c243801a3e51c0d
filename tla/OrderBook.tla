----------------------------- MODULE OrderBook -----------------------------
(***************************************************************************)
(* The in-memory order book of one symbol (src/engine/OrderBook.js with    *)
(* PriceLevel.js and OrderNode.js).                                        *)
(*                                                                         *)
(* A call of the book runs to completion on Node's single thread.  The     *)
(* model exposes the iterations of its loops as steps: one trade of        *)
(* matchBuyOrder/matchSellOrder, one cycle of processStopOrdersAfterTrades *)
(* and one triggered stop order.  `phase' says where the running call is:  *)
(*                                                                         *)
(*   idle    no call is running                                            *)
(*   match   in matchBuyOrder / matchSellOrder, executing `taker'          *)
(*   stops   at the head of the while loop over stop cycles                *)
(*   trigger at the head of the for loop over the eligible stop orders     *)
(*   finish  about to stamp the events and return                          *)
(*                                                                         *)
(* Maps are functions whose domain is the set of keys.  Map insertion      *)
(* order, where the code iterates a Map, is kept as a `rank' in the value. *)
(***************************************************************************)
EXTENDS Integers, Sequences, FiniteSetsExt

CONSTANTS
  OrderId,      \* order ids
  Orders,       \* the orders that clients may submit
  MaxCycles,    \* limit of the stop trigger loop (1000 in the code)
  MaxSequence,  \* bound: no call starts once the sequence has reached it
  NoOrder       \* null

Side == {"BUY", "SELL"}
LimitTypes == {"LIMIT", "STOP_LIMIT"}
MarketTypes == {"MARKET", "STOP_MARKET", "TRAILING_STOP_MARKET"}
NoPrice == 0    \* null priceTicks

(***************************************************************************)
(* An order as a command carries it.  Quantity 0 stands for any field that *)
(* the OrderNode constructor refuses.                                      *)
(***************************************************************************)
OrderInput ==
  [orderId : OrderId, side : Side, type : LimitTypes \cup MarketTypes,
   priceTicks : Nat, triggerPriceTicks : Int, trailingAmountTicks : Int,
   quantity : Nat]

ASSUME OrdersAssumption == Orders \subseteq OrderInput
ASSUME CyclesAssumption == MaxCycles \in Nat \ {0}

VARIABLES
  levels,              \* bids and asks: side -> (price -> price level)
  ordersById,          \* resting orders by id
  stopOrdersById,      \* pending stop orders by id
  lastTradePriceTicks,
  sequence,            \* per-symbol event sequence number
  clock,               \* Map insertions so far: rank of the next entry
  phase,
  command,             \* the public method that is running
  taker,               \* the OrderNode being executed, or NoOrder
  trades,              \* trades of the running call
  batch,               \* length of `trades' when the current batch began
  eligible,            \* stop orders the current cycle has still to trigger
  cycles,
  events,              \* events of the placed order, then the returned events
  triggeredEvents,     \* events of the triggered stop orders
  outcome              \* how the last call ended

bookVars == <<levels, ordersById, clock>>
stopVars == <<stopOrdersById, lastTradePriceTicks>>
callVars == <<command, trades, batch, eligible, cycles, events, triggeredEvents>>
vars == <<levels, ordersById, stopOrdersById, lastTradePriceTicks, sequence,
          clock, phase, command, taker, trades, batch, eligible, cycles,
          events, triggeredEvents, outcome>>

-----------------------------------------------------------------------------
(* Types *)

Status == {"OPEN", "PARTIALLY_FILLED", "FILLED", "CANCELLED"}

Node ==       \* OrderNode
  [orderId : OrderId, side : Side, type : {"LIMIT", "MARKET"}, priceTicks : Nat,
   initialQuantity : Nat \ {0}, remainingQuantity : Nat, status : Status]

\* An order being executed as PriceTimePriority has it.
IncomingOrder == [id : OrderId, side : Side, quantity : Nat, price : Nat]

ASSUME NoOrderAssumption == NoOrder \notin OrderId \cup Node \cup IncomingOrder

RestingOrder ==
  [side : Side, priceTicks : Nat \ {0}, initialQuantity : Nat \ {0},
   remainingQuantity : Nat, status : Status, rank : Nat]

PriceLevel == [orders : Seq(OrderId), totalQuantity : Int]

StopOrder ==  \* watermark: peakPriceTicks of a SELL, valleyPriceTicks of a BUY
  [side : Side, type : {"STOP_MARKET", "STOP_LIMIT", "TRAILING_STOP_MARKET"},
   priceTicks : Nat, triggerPriceTicks : Int, trailingAmountTicks : Int,
   watermark : Nat, quantity : Nat, rank : Nat]

EventType == {"ORDER_ACCEPTED", "TRADE_CREATED", "ORDER_FILLED",
              "ORDER_PARTIALLY_FILLED", "ORDER_RESTED", "ORDER_CANCELLED",
              "STOP_ORDER_ACCEPTED", "STOP_ORDER_TRIGGERED", "BOOK_UPDATED"}

Event == [type : EventType, orderId : OrderId \cup {NoOrder}, sequence : Nat]

Trade == [priceTicks : Nat, quantity : Nat, maker : OrderId, taker : OrderId]

-----------------------------------------------------------------------------
(* Best prices and the head of the queue *)

Opposite(side) == IF side = "BUY" THEN "SELL" ELSE "BUY"

\* p ranks strictly before q for orders resting on `side'.
Better(side, p, q) == IF side = "BUY" THEN p > q ELSE p < q

\* Slip: the book serves the worst price first.
IsWorstPrice(side, price) ==
  /\ price \in DOMAIN levels[side]
  /\ \A other \in DOMAIN levels[side] \ {price} : Better(side, other, price)

\* getBestBidPriceTicks / getBestAskPriceTicks
IsBestPrice(side, price) ==
  /\ price \in DOMAIN levels[side]
  /\ \A other \in DOMAIN levels[side] \ {price} : Better(side, price, other)

\* Slip: an order does not trade at exactly its own limit.
AcceptsStrictly(order, price) ==
  \/ order.type = "MARKET"
  \/ order.side = "BUY" /\ price < order.priceTicks
  \/ order.side = "SELL" /\ price > order.priceTicks

\* An incoming order accepts the price of a resting order.
Accepts(order, price) ==
  \/ order.type = "MARKET"
  \/ order.side = "BUY" /\ price <= order.priceTicks
  \/ order.side = "SELL" /\ price >= order.priceTicks

\* Slip: the loop has no break, it ends with the taker only.
TakerIsFilled == taker.remainingQuantity = 0

\* The loop ends: the taker is filled, or no price on the other side will do
\* (none is left, or the best of them is too bad).
MatchingIsOver ==
  \/ taker.remainingQuantity = 0
  \/ \A price \in DOMAIN levels[Opposite(taker.side)] : ~Accepts(taker, price)

\* Slip: a trade takes the larger of the two quantities.
Larger(a, b) == IF a < b THEN b ELSE a

Min2(a, b) == IF a < b THEN a ELSE b

-----------------------------------------------------------------------------
(* Updates of maps, levels and events *)

Put(map, key, value) ==
  [k \in DOMAIN map \cup {key} |-> IF k = key THEN value ELSE map[k]]

Without(map, key) == [k \in DOMAIN map \ {key} |-> map[k]]

\* OrderNode.fill
Fill(order, quantity) ==
  [order EXCEPT
     !.remainingQuantity = @ - quantity,
     !.status = IF order.remainingQuantity = quantity
                THEN "FILLED" ELSE "PARTIALLY_FILLED"]

\* Slip: an empty level stays in its Map.
KeepLevel(bookSide, price, level) == Put(bookSide, price, level)

\* A side of the book with `level' at `price', or nothing when it is empty.
SetLevel(bookSide, price, level) ==
  IF level.orders = <<>> THEN Without(bookSide, price)
                         ELSE Put(bookSide, price, level)

\* Slip: a new order goes to the head of the queue.
PrependToLevel(bookSide, price, id, quantity) ==
  LET old == IF price \in DOMAIN bookSide THEN bookSide[price]
             ELSE [orders |-> <<>>, totalQuantity |-> 0]
  IN  Put(bookSide, price, [orders |-> <<id>> \o old.orders,
                            totalQuantity |-> old.totalQuantity + quantity])

\* Slip: the total of an existing level starts again with each order.
AppendResettingTotal(bookSide, price, id, quantity) ==
  LET queue == IF price \in DOMAIN bookSide THEN bookSide[price].orders ELSE <<>>
  IN  Put(bookSide, price, [orders |-> Append(queue, id), totalQuantity |-> quantity])

\* PriceLevel.append, on a new level when the price has none.
AppendToLevel(bookSide, price, id, quantity) ==
  LET old == IF price \in DOMAIN bookSide THEN bookSide[price]
             ELSE [orders |-> <<>>, totalQuantity |-> 0]
  IN  Put(bookSide, price, [orders |-> Append(old.orders, id),
                            totalQuantity |-> old.totalQuantity + quantity])

NewEvent(type, id) == [type |-> type, orderId |-> id, sequence |-> 0]

BookUpdated == NewEvent("BOOK_UPDATED", NoOrder)

\* stampEvents: the i-th event gets the i-th next sequence number.
StampEvents(list) ==
  [i \in 1..Len(list) |-> [list[i] EXCEPT !.sequence = sequence + i]]

FillEvent(order) ==
  NewEvent(IF order.remainingQuantity = 0
           THEN "ORDER_FILLED" ELSE "ORDER_PARTIALLY_FILLED", order.orderId)

-----------------------------------------------------------------------------
(* The public methods, up to their first loop *)

\* Slip: the ids of pending stop orders are not looked up.
IsNotResting(id) == id \notin DOMAIN ordersById

\* assertOrderIdAvailable
IsAvailable(id) == id \notin DOMAIN ordersById \cup DOMAIN stopOrdersById

\* The OrderNode constructor accepts these fields (validateOrderInput).
IsValidNode(type, price, quantity) == quantity > 0 /\ (type = "LIMIT" => price > 0)

NewNode(id, side, type, price, quantity) ==
  [orderId |-> id, side |-> side, type |-> type, priceTicks |-> price,
   initialQuantity |-> quantity, remainingQuantity |-> quantity, status |-> "OPEN"]

CanCall == phase = "idle" /\ sequence < MaxSequence

\* The body of placeLimitOrder and placeMarketOrder up to matching.
StartMatching(order, method) ==
  /\ CanCall
  /\ IsAvailable(order.orderId)
  /\ IsValidNode(order.type, order.priceTicks, order.quantity)
  /\ taker' = NewNode(order.orderId, order.side, order.type, order.priceTicks,
                      order.quantity)
  /\ command' = method
  /\ phase' = "match"
  /\ events' = <<NewEvent("ORDER_ACCEPTED", order.orderId)>>
  /\ outcome' = "running"
  /\ UNCHANGED <<bookVars, stopVars, sequence, trades, batch, eligible, cycles,
                 triggeredEvents>>

PlaceLimitOrder(order) ==
  order.type = "LIMIT" /\ StartMatching(order, "placeLimitOrder")

PlaceMarketOrder(order) ==
  order.type = "MARKET" /\ StartMatching(order, "placeMarketOrder")

\* Stores a stop order and returns.
AddStopOrder(order, trigger, watermark) ==
  /\ stopOrdersById' = Put(stopOrdersById, order.orderId,
       [side |-> order.side, type |-> order.type, priceTicks |-> order.priceTicks,
        triggerPriceTicks |-> trigger,
        trailingAmountTicks |-> order.trailingAmountTicks,
        watermark |-> watermark, quantity |-> order.quantity, rank |-> clock])
  /\ clock' = clock + 1
  /\ events' = StampEvents(<<NewEvent("STOP_ORDER_ACCEPTED", order.orderId),
                             BookUpdated>>)
  /\ sequence' = sequence + 2
  /\ outcome' = "ok"
  /\ UNCHANGED <<levels, ordersById, lastTradePriceTicks, phase, command, taker,
                 trades, batch, eligible, cycles, triggeredEvents>>

\* placeStopMarketOrder and placeStopLimitOrder: only the id is checked.
PlaceStopOrder(order) ==
  /\ order.type \in {"STOP_MARKET", "STOP_LIMIT"}
  /\ CanCall
  /\ IsAvailable(order.orderId)
  /\ AddStopOrder(order, order.triggerPriceTicks, NoPrice)

\* The trigger price trails the last trade by trailingAmountTicks.
TrailingTrigger(side, watermark, amount) ==
  IF side = "SELL" THEN watermark - amount ELSE watermark + amount

PlaceTrailingStopMarketOrder(order) ==
  /\ order.type = "TRAILING_STOP_MARKET"
  /\ CanCall
  /\ IsAvailable(order.orderId)
  /\ lastTradePriceTicks # NoPrice
  /\ order.trailingAmountTicks > 0
  /\ AddStopOrder(order,
                  TrailingTrigger(order.side, lastTradePriceTicks,
                                  order.trailingAmountTicks),
                  lastTradePriceTicks)

\* A call that throws before it has changed anything.
Refuse ==
  /\ outcome' = "error"
  /\ events' = <<>>
  /\ UNCHANGED <<bookVars, stopVars, sequence, phase, command, taker, trades,
                 batch, eligible, cycles, triggeredEvents>>

RefuseOrder(order) ==
  /\ CanCall
  /\ \/ ~IsAvailable(order.orderId)
     \/ /\ order.type \in {"LIMIT", "MARKET"}
        /\ ~IsValidNode(order.type, order.priceTicks, order.quantity)
     \/ /\ order.type = "TRAILING_STOP_MARKET"
        /\ lastTradePriceTicks = NoPrice \/ order.trailingAmountTicks <= 0
  /\ Refuse

\* cancelOrder of a pending stop order.  The code returns these two events as
\* they are, without stampEvents.
CancelStopOrder(id) ==
  /\ CanCall
  /\ id \in DOMAIN stopOrdersById
  /\ stopOrdersById' = Without(stopOrdersById, id)
  /\ events' = <<NewEvent("ORDER_CANCELLED", id), BookUpdated>>
  /\ outcome' = "ok"
  /\ UNCHANGED <<bookVars, lastTradePriceTicks, sequence, phase, command, taker,
                 trades, batch, eligible, cycles, triggeredEvents>>

\* PriceLevel.remove takes the order at position i out of the queue.
RemoveFromQueue(queue, i) == SubSeq(queue, 1, i - 1) \o SubSeq(queue, i + 1, Len(queue))

\* cancelOrder of a resting order.
CancelRestingOrder(id) ==
  /\ CanCall
  /\ id \in DOMAIN ordersById \ DOMAIN stopOrdersById
  /\ ordersById[id].status \in {"OPEN", "PARTIALLY_FILLED"}
  /\ LET order == ordersById[id]
         level == levels[order.side][order.priceTicks]
     IN  \E i \in 1..Len(level.orders) :
           /\ level.orders[i] = id
           /\ levels' = [levels EXCEPT ![order.side] =
                SetLevel(@, order.priceTicks,
                  [orders |-> RemoveFromQueue(level.orders, i),
                   totalQuantity |-> level.totalQuantity - order.remainingQuantity])]
  /\ ordersById' = Without(ordersById, id)
  /\ events' = StampEvents(<<NewEvent("ORDER_CANCELLED", id), BookUpdated>>)
  /\ sequence' = sequence + 2
  /\ outcome' = "ok"
  /\ UNCHANGED <<stopVars, clock, phase, command, taker, trades, batch, eligible,
                 cycles, triggeredEvents>>

RefuseCancel(id) ==
  /\ CanCall
  /\ IsAvailable(id)
  /\ Refuse

-----------------------------------------------------------------------------
(* matchBuyOrder and matchSellOrder *)

\* Events go to the list of the call or to the list of the triggered orders.
Emit(list) ==
  IF cycles = 0
  THEN events' = events \o list /\ UNCHANGED triggeredEvents
  ELSE triggeredEvents' = triggeredEvents \o list /\ UNCHANGED events

\* One iteration: the taker trades with the head of the best opposite level.
MatchOne ==
  /\ phase = "match"
  /\ taker.remainingQuantity > 0
  /\ \E price \in DOMAIN levels[Opposite(taker.side)] :
       LET side == Opposite(taker.side)
           level == levels[side][price]
           maker == Head(level.orders)
           quantity == Min2(taker.remainingQuantity, ordersById[maker].remainingQuantity)
           resting == Fill(ordersById[maker], quantity)
       IN  /\ IsBestPrice(side, price)
           /\ Accepts(taker, price)
           /\ taker' = Fill(taker, quantity)
           /\ ordersById' = IF resting.status = "FILLED"
                            THEN Without(ordersById, maker)
                            ELSE Put(ordersById, maker, resting)
           /\ levels' = [levels EXCEPT ![side] = SetLevel(@, price,
                [orders |-> IF resting.status = "FILLED" THEN Tail(level.orders)
                                                         ELSE level.orders,
                 totalQuantity |-> level.totalQuantity - quantity])]
           /\ trades' = Append(trades, [priceTicks |-> resting.priceTicks,
                quantity |-> quantity, maker |-> maker, taker |-> taker.orderId])
  /\ Emit(<<NewEvent("TRADE_CREATED", taker.orderId)>>)
  /\ UNCHANGED <<stopVars, sequence, clock, phase, command, batch, eligible,
                 cycles, outcome>>

\* addRestingOrder, and the entry in ordersById.
RestTaker ==
  /\ levels' = [levels EXCEPT ![taker.side] =
       AppendToLevel(@, taker.priceTicks, taker.orderId, taker.remainingQuantity)]
  /\ ordersById' = Put(ordersById, taker.orderId,
       [side |-> taker.side, priceTicks |-> taker.priceTicks,
        initialQuantity |-> taker.initialQuantity,
        remainingQuantity |-> taker.remainingQuantity,
        status |-> taker.status, rank |-> clock])
  /\ clock' = clock + 1

\* placeLimitOrder reports every order that rests; after a trigger only an
\* order nothing of which has been filled is reported.
RestedEvents(rests) ==
  IF rests /\ (cycles = 0 \/ taker.status = "OPEN")
  THEN <<NewEvent("ORDER_RESTED", taker.orderId)>> ELSE <<>>

\* The matching loop is over: a limit order rests, the rest of a market order
\* is cancelled.
EndMatching ==
  LET rests == taker.remainingQuantity > 0 /\ taker.type = "LIMIT" IN
  /\ phase = "match"
  /\ MatchingIsOver
  /\ IF rests THEN RestTaker ELSE UNCHANGED bookVars
  /\ Emit(<<FillEvent(taker)>> \o RestedEvents(rests))
  /\ phase' = IF cycles = 0 THEN "stops" ELSE "trigger"
  /\ taker' = NoOrder
  /\ UNCHANGED <<stopVars, sequence, command, trades, batch, eligible, cycles,
                 outcome>>

-----------------------------------------------------------------------------
(* processStopOrdersAfterTrades *)

\* A call's own state is dropped when it returns or throws.
EndCall(result, returned) ==
  /\ outcome' = result
  /\ events' = returned
  /\ phase' = "idle"
  /\ command' = "none"
  /\ taker' = NoOrder
  /\ trades' = <<>>
  /\ batch' = 0
  /\ eligible' = {}
  /\ cycles' = 0
  /\ triggeredEvents' = <<>>

\* A throw in mid-call: what the call has done to the book so far stays.
Throw == EndCall("error", <<>>) /\ UNCHANGED sequence

\* The last batch brought no trade (or the order itself traded with nobody).
NoNewTrades ==
  /\ phase = "stops"
  /\ batch = Len(trades)
  /\ phase' = "finish"
  /\ UNCHANGED <<bookVars, stopVars, sequence, command, taker, trades, batch,
                 eligible, cycles, events, triggeredEvents, outcome>>

\* Slip: the watermark is set to every last trade, whichever way it went.
FollowBothWays(stop, last) ==
  IF stop.type = "TRAILING_STOP_MARKET"
  THEN [stop EXCEPT !.watermark = last,
                    !.triggerPriceTicks =
                      TrailingTrigger(stop.side, last, stop.trailingAmountTicks)]
  ELSE stop

\* Slip: the watermark moves and the trigger is left behind.
MoveWatermarkOnly(stop, last) ==
  IF stop.type = "TRAILING_STOP_MARKET" /\ Better(stop.side, stop.watermark, last)
  THEN [stop EXCEPT !.watermark = last] ELSE stop

\* updateTrailingStopOrders, for a last trade at price `last'.
UpdateTrailing(stop, last) ==
  IF stop.type = "TRAILING_STOP_MARKET" /\ Better(stop.side, stop.watermark, last)
  THEN [stop EXCEPT !.watermark = last,
                    !.triggerPriceTicks =
                      TrailingTrigger(stop.side, last, stop.trailingAmountTicks)]
  ELSE stop

\* The market has reached the trigger price.
IsEligible(stop, last) ==
  IF stop.side = "BUY" THEN last >= stop.triggerPriceTicks
                       ELSE last <= stop.triggerPriceTicks

\* Slip: one stop order a cycle.
EarliestEligible(stops, last) ==
  {id \in DOMAIN stops :
     /\ IsEligible(stops[id], last)
     /\ \A other \in DOMAIN stops :
          IsEligible(stops[other], last) => stops[id].rank <= stops[other].rank}

\* getEligibleStopOrders
EligibleStopOrders(stops, last) ==
  {id \in DOMAIN stops : IsEligible(stops[id], last)}

\* One cycle up to its for loop, `last' being the last trade of the batch.
StopCycle ==
  /\ phase = "stops"
  /\ batch < Len(trades)
  /\ cycles < MaxCycles
  /\ LET last == trades[Len(trades)].priceTicks
         updated == [id \in DOMAIN stopOrdersById |->
                       UpdateTrailing(stopOrdersById[id], last)]
         due == EligibleStopOrders(updated, last)
     IN  /\ lastTradePriceTicks' = last
         /\ stopOrdersById' = updated
         /\ eligible' = due
         /\ phase' = IF due = {} THEN "finish" ELSE "trigger"
  /\ cycles' = cycles + 1
  /\ batch' = Len(trades)
  /\ UNCHANGED <<bookVars, sequence, command, taker, trades, events,
                 triggeredEvents, outcome>>

CycleLimitExceeded ==
  /\ phase = "stops"
  /\ batch < Len(trades)
  /\ cycles = MaxCycles
  /\ Throw
  /\ UNCHANGED <<bookVars, stopVars>>

\* The for loop goes through the eligible orders in Map insertion order.
NextEligible(id) ==
  /\ id \in eligible
  /\ \A other \in eligible : stopOrdersById[id].rank <= stopOrdersById[other].rank

\* The order a triggered stop order turns into (executeTriggeredStopOrder).
TriggeredType(stop) == IF stop.type = "STOP_LIMIT" THEN "LIMIT" ELSE "MARKET"

TriggerStopOrder(id) ==
  LET stop == stopOrdersById[id] IN
  /\ phase = "trigger"
  /\ NextEligible(id)
  /\ IsValidNode(TriggeredType(stop), stop.priceTicks, stop.quantity)
  /\ stopOrdersById' = Without(stopOrdersById, id)
  /\ eligible' = eligible \ {id}
  /\ taker' = NewNode(id, stop.side, TriggeredType(stop), stop.priceTicks,
                      stop.quantity)
  /\ phase' = "match"
  /\ Emit(<<NewEvent("STOP_ORDER_TRIGGERED", id)>>)
  /\ UNCHANGED <<bookVars, lastTradePriceTicks, sequence, command, trades, batch,
                 cycles, outcome>>

\* The constructor refuses the fields the stop order was stored with; by now
\* the stop order is gone and every earlier trade of the call has happened.
TriggerThrows(id) ==
  LET stop == stopOrdersById[id] IN
  /\ phase = "trigger"
  /\ NextEligible(id)
  /\ ~IsValidNode(TriggeredType(stop), stop.priceTicks, stop.quantity)
  /\ stopOrdersById' = Without(stopOrdersById, id)
  /\ Throw
  /\ UNCHANGED <<bookVars, lastTradePriceTicks>>

\* Slip: one cycle only, a triggered order sets no other off.
EndOnlyCycle ==
  /\ phase = "trigger"
  /\ eligible = {}
  /\ phase' = "finish"
  /\ UNCHANGED <<bookVars, stopVars, sequence, command, taker, trades, batch,
                 eligible, cycles, events, triggeredEvents, outcome>>

EndCycle ==
  /\ phase = "trigger"
  /\ eligible = {}
  /\ phase' = "stops"
  /\ UNCHANGED <<bookVars, stopVars, sequence, command, taker, trades, batch,
                 eligible, cycles, events, triggeredEvents, outcome>>

\* The events a call returns: placeLimitOrder puts its BOOK_UPDATED before the
\* events of the triggered orders, placeMarketOrder after them.
ReturnedEvents ==
  StampEvents(IF command = "placeLimitOrder"
              THEN events \o <<BookUpdated>> \o triggeredEvents
              ELSE events \o triggeredEvents \o <<BookUpdated>>)

Finish ==
  /\ phase = "finish"
  /\ sequence' = sequence + Len(ReturnedEvents)
  /\ EndCall("ok", ReturnedEvents)
  /\ UNCHANGED <<bookVars, stopVars>>

-----------------------------------------------------------------------------
Init ==
  /\ levels = [side \in Side |-> [price \in {} |-> 0]]
  /\ ordersById = [id \in {} |-> 0]
  /\ stopOrdersById = [id \in {} |-> 0]
  /\ lastTradePriceTicks = NoPrice
  /\ sequence = 0
  /\ clock = 0
  /\ phase = "idle"
  /\ command = "none"
  /\ taker = NoOrder
  /\ trades = <<>>
  /\ batch = 0
  /\ eligible = {}
  /\ cycles = 0
  /\ events = <<>>
  /\ triggeredEvents = <<>>
  /\ outcome = "none"

\* A client's call.
Call ==
  \/ \E order \in Orders :
       \/ PlaceLimitOrder(order)
       \/ PlaceMarketOrder(order)
       \/ PlaceStopOrder(order)
       \/ PlaceTrailingStopMarketOrder(order)
       \/ RefuseOrder(order)
  \/ \E id \in OrderId :
       \/ CancelStopOrder(id)
       \/ CancelRestingOrder(id)
       \/ RefuseCancel(id)

\* A step of the call that is running.
Step ==
  \/ MatchOne
  \/ EndMatching
  \/ NoNewTrades
  \/ StopCycle
  \/ CycleLimitExceeded
  \/ \E id \in OrderId : TriggerStopOrder(id) \/ TriggerThrows(id)
  \/ EndCycle
  \/ Finish

Next == Call \/ Step

Spec == Init /\ [][Next]_vars

\* A call that has started runs on: nothing else is scheduled meanwhile.
FairSpec == Spec /\ WF_vars(Step)

-----------------------------------------------------------------------------
(* Properties *)

IsMap(map, Keys, Values) ==
  /\ map = [key \in DOMAIN map |-> map[key]]
  /\ DOMAIN map \subseteq Keys
  /\ \A key \in DOMAIN map : map[key] \in Values

\* Every variable has its type: the shape of the Maps, nodes and lists.
TypeOK ==
  /\ levels = [side \in Side |-> levels[side]]
  /\ \A side \in Side : IsMap(levels[side], Nat \ {0}, PriceLevel)
  /\ IsMap(ordersById, OrderId, RestingOrder)
  /\ IsMap(stopOrdersById, OrderId, StopOrder)
  /\ lastTradePriceTicks \in Nat
  /\ sequence \in Nat /\ clock \in Nat
  /\ phase \in {"idle", "match", "stops", "trigger", "finish"}
  /\ command \in {"none", "placeLimitOrder", "placeMarketOrder"}
  /\ taker \in Node \cup {NoOrder}
  /\ trades \in Seq(Trade)
  /\ batch \in 0..Len(trades)
  /\ eligible \in SUBSET OrderId
  /\ cycles \in 0..MaxCycles
  /\ events \in Seq(Event) /\ triggeredEvents \in Seq(Event)
  /\ outcome \in {"none", "running", "ok", "error"}

\* The book is never crossed or locked: at every moment, between the trades of
\* a call and in the middle of a stop cascade included, every bid is below
\* every ask (the loop conditions of matchBuyOrder and matchSellOrder, then
\* addRestingOrder).
Uncrossed ==
  \A bid \in DOMAIN levels["BUY"], ask \in DOMAIN levels["SELL"] : bid < ask

Queued(queue) == {queue[i] : i \in 1..Len(queue)}

NoDuplicates(queue) ==
  \A i, j \in 1..Len(queue) : queue[i] = queue[j] => i = j

\* The two indexes of the book agree: the queue of a price level holds exactly
\* the orders of ordersById with that side and price, each once; every order
\* has its level, and no level is empty.
IndexesAgree ==
  /\ \A side \in Side : \A price \in DOMAIN levels[side] :
       LET queue == levels[side][price].orders IN
       /\ queue # <<>>
       /\ NoDuplicates(queue)
       /\ Queued(queue) = {id \in DOMAIN ordersById : /\ ordersById[id].side = side
                                                      /\ ordersById[id].priceTicks = price}
  /\ \A id \in DOMAIN ordersById :
       ordersById[id].priceTicks \in DOMAIN levels[ordersById[id].side]

\* What each resting order has left.
Remaining == [id \in DOMAIN ordersById |-> ordersById[id].remainingQuantity]

\* The running total that a level keeps through append, decreaseTotalQuantity
\* and remove is the sum of what its orders have left, so that no decrease is
\* ever refused.
TotalsMatch ==
  \A side \in Side : \A price \in DOMAIN levels[side] :
    levels[side][price].totalQuantity =
      MapThenSumSet(LAMBDA id : Remaining[id], Queued(levels[side][price].orders))

\* A resting order has something left and its status says whether it has been
\* filled in part (OrderNode.fill), so that fill and cancel never find it
\* inactive.
RestingIsActive ==
  \A id \in DOMAIN ordersById :
    LET order == ordersById[id] IN
    /\ order.remainingQuantity \in 1..order.initialQuantity
    /\ order.status = IF order.remainingQuantity = order.initialQuantity
                      THEN "OPEN" ELSE "PARTIALLY_FILLED"

\* An id names one order: a resting order, a pending stop order or the order
\* being executed, although a triggered stop order hands its id on from one
\* Map to the other (assertOrderIdAvailable, processStopOrdersAfterTrades).
IdsAreUnique ==
  /\ DOMAIN ordersById \cap DOMAIN stopOrdersById = {}
  /\ taker # NoOrder => taker.orderId \notin DOMAIN ordersById \cup DOMAIN stopOrdersById
  /\ eligible \subseteq DOMAIN stopOrdersById

\* When a call that traded is about to return, no pending stop order is due at
\* the price of the last trade of the whole cascade: the cascade has settled.
CascadeSettled ==
  phase = "finish" /\ trades # <<>> =>
    \A id \in DOMAIN stopOrdersById :
      ~IsEligible(stopOrdersById[id], trades[Len(trades)].priceTicks)

\* The list of eligible stop orders is taken before the first of them executes
\* and used while they trade: all along it stays exactly the set of pending
\* stop orders that are due, so that none is triggered without being due and
\* none that is due is passed over.
EligibleIsCurrent ==
  phase = "trigger" \/ (phase = "match" /\ cycles > 0) =>
    eligible = {id \in DOMAIN stopOrdersById :
                  IsEligible(stopOrdersById[id], lastTradePriceTicks)}

\* The last trade price a call leaves behind is that of the last trade of the
\* whole cascade, which the next trailing stop order starts from.
LastPriceIsLastTrade ==
  phase = "finish" /\ trades # <<>> =>
    lastTradePriceTicks = trades[Len(trades)].priceTicks

\* A trailing stop order's trigger only ever moves with the market: up for a
\* SELL, down for a BUY (updateTrailingStopOrders).
TriggerRatchets ==
  [][\A id \in DOMAIN stopOrdersById \cap DOMAIN stopOrdersById' :
       LET old == stopOrdersById[id].triggerPriceTicks
           new == stopOrdersById'[id].triggerPriceTicks
       IN  IF stopOrdersById[id].side = "SELL" THEN new >= old ELSE new <= old]_vars

\* A pending trailing stop order has followed the market to the last trade
\* price: no last trade of a batch has been beyond its watermark, and its trigger is
\* at its trailing amount from there, whatever calls and cascades it has lived
\* through (placeTrailingStopMarketOrder, updateTrailingStopOrders).  Of the other
\* trades of a batch the code takes no notice (processStopOrdersAfterTrades): see
\* PeakIsHighest.
TrailsTheMarket ==
  \A id \in DOMAIN stopOrdersById :
    LET stop == stopOrdersById[id] IN
    stop.type = "TRAILING_STOP_MARKET" =>
      /\ ~Better(stop.side, stop.watermark, lastTradePriceTicks)
      /\ stop.triggerPriceTicks =
           TrailingTrigger(stop.side, stop.watermark, stop.trailingAmountTicks)

\* The watermark of a pending trailing stop order is the "highest traded price seen
\* after order placement" (OrderBook.js:132) for a SELL, the lowest for a BUY: no
\* trade of a call that comes to its end has been beyond it.
PeakIsHighest ==
  phase = "finish" =>
    \A id \in DOMAIN stopOrdersById : \A k \in 1..Len(trades) :
      LET stop == stopOrdersById[id] IN
      stop.type = "TRAILING_STOP_MARKET" =>
        ~Better(stop.side, stop.watermark, trades[k].priceTicks)

\* Every call ends, however long the cascade of stop orders it sets off.
CallsEnd == phase # "idle" ~> phase = "idle"

-----------------------------------------------------------------------------
(* The book implements price-time priority *)

\* A market order is one whose price does not matter.
Incoming ==
  IF taker = NoOrder THEN NoOrder
  ELSE [id |-> taker.orderId, side |-> taker.side, quantity |-> taker.remainingQuantity,
        price |-> IF taker.type = "MARKET" THEN 0 ELSE taker.priceTicks]

Resting ==
  [id \in DOMAIN ordersById |->
     [side |-> ordersById[id].side, price |-> ordersById[id].priceTicks,
      quantity |-> ordersById[id].remainingQuantity, arrival |-> ordersById[id].rank]]

Priority == INSTANCE PriceTimePriority
              WITH Nobody <- NoOrder, resting <- Resting, incoming <- Incoming

\* Whatever its levels and queues look like, the book trades in price-time
\* priority: the best price first, the earliest order first within a price, a
\* partly filled order keeping its place; an order rests only when it can trade
\* with nothing; stop orders enter the market like any other order.
ImplementsPriority == Priority!Spec
=============================================================================
