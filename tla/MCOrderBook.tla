---------------------------- MODULE MCOrderBook ----------------------------
(***************************************************************************)
(* Sets of submitted orders that OrderBook is instantiated with.           *)
(***************************************************************************)
EXTENDS OrderBook

CONSTANTS o1, o2, o3, o4, o5

Limit(id, side, price, quantity) ==
  [orderId |-> id, side |-> side, type |-> "LIMIT", priceTicks |-> price,
   triggerPriceTicks |-> 0, trailingAmountTicks |-> 0, quantity |-> quantity]

Market(id, side, quantity) ==
  [Limit(id, side, NoPrice, quantity) EXCEPT !.type = "MARKET"]

Stop(id, side, trigger, price, quantity) ==
  [Limit(id, side, price, quantity) EXCEPT
     !.type = IF price = NoPrice THEN "STOP_MARKET" ELSE "STOP_LIMIT",
     !.triggerPriceTicks = trigger]

\* Matching: limit orders on both sides that rest, three in a level and filled in
\* part, market orders that find more or less than they want, and a malformed one.
MatchingOrders ==
  {Limit(o1, "BUY", 1, 1), Limit(o1, "BUY", 2, 2), Limit(o2, "BUY", 1, 2),
   Limit(o2, "BUY", 2, 1), Limit(o2, "BUY", 3, 1), Limit(o4, "BUY", 1, 1)}
  \cup {Limit(o1, "SELL", 3, 2), Limit(o2, "SELL", 2, 1), Limit(o2, "SELL", 3, 1),
        Limit(o3, "SELL", 2, 2)}
  \cup {Market(o3, "SELL", 1), Market(o4, "BUY", 2), Limit(o1, "BUY", 1, 0)}

\* Cascades: stop orders that each new low of a seller who walks down the bids sets
\* off, one that buys back, ids that are reused, and stop orders that no OrderNode
\* can be made of.
StopOrders ==
  {Stop(id, "SELL", trigger, NoPrice, 1) : id \in {o4, o5}, trigger \in 1..3}
  \cup {Stop(o4, "SELL", 2, 2, quantity) : quantity \in 1..2}
  \cup {Stop(o5, "BUY", 2, 3, 1), Stop(o5, "SELL", 3, NoPrice, 0)}

EngineOrders == MatchingOrders \cup StopOrders

\* A trailing stop order and a seller who walks down two bids in one call.
TrailingOrders ==
  {Limit(o1, "BUY", 3, 1), Limit(o2, "BUY", 2, 1), Limit(o3, "SELL", 2, 1),
   Limit(o3, "SELL", 2, 2)}
  \cup {[Market(o4, "SELL", 1) EXCEPT !.type = "TRAILING_STOP_MARKET",
                                     !.trailingAmountTicks = 1]}
=============================================================================
