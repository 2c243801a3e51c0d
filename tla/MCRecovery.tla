----------------------------- MODULE MCRecovery -----------------------------
(***************************************************************************)
(* Orders for books that are lost and recovered: queues of several orders  *)
(* on both sides, one of them filled in part, stop orders whose triggers   *)
(* are not in the order in which they came, and trailing stop orders on    *)
(* both sides in a market that moves both ways.                            *)
(***************************************************************************)
EXTENDS Recovery, TLC

CONSTANTS o1, o2, o3, o4

Limit(id, side, price, quantity) ==
  [orderId |-> id, side |-> side, type |-> "LIMIT", priceTicks |-> price,
   triggerPriceTicks |-> 0, trailingAmountTicks |-> 0, quantity |-> quantity]

RecoveredOrders ==
  {Limit(id, side, price, 1) : id \in {o1, o2}, side \in Side, price \in 1..3}
  \cup {Limit(o1, side, 2, 2) : side \in Side}
  \cup {[Limit(id, "SELL", NoPrice, 1) EXCEPT !.type = "STOP_MARKET",
                                              !.triggerPriceTicks = trigger] :
          id \in {o3, o4}, trigger \in 1..2}
  \cup {[Limit(o3, side, NoPrice, 1) EXCEPT !.type = "TRAILING_STOP_MARKET",
                                            !.trailingAmountTicks = amount] :
          side \in Side, amount \in 0..1}
=============================================================================
