------------------------- MODULE PriceTimePriority -------------------------
(***************************************************************************)
(* What a matching engine promises: a set of resting orders, and at most   *)
(* one incoming order at a time that trades with the best of them, the     *)
(* earliest first among those of one price, as long as its limit allows.   *)
(*                                                                         *)
(* There are no price levels, queues, totals, stop orders or calls here;   *)
(* the order book of OrderBook.tla is shown to implement this.             *)
(***************************************************************************)
EXTENDS Integers

CONSTANTS OrderId, Nobody

Side == {"BUY", "SELL"}

VARIABLES
  resting,  \* id -> [side, price, quantity, arrival]
  incoming  \* [id, side, price, quantity], price 0 for a market order, or Nobody

vars == <<resting, incoming>>

Incoming == [id : OrderId, side : Side, price : Nat, quantity : Nat \ {0}]

Init ==
  /\ resting = [id \in {} |-> 0]
  /\ incoming = Nobody

\* The resting order meets the limit of the incoming one, on the other side.
Matches(id) ==
  LET order == resting[id] IN
  /\ order.side # incoming.side
  /\ \/ incoming.price = 0
     \/ incoming.side = "BUY" /\ order.price <= incoming.price
     \/ incoming.side = "SELL" /\ order.price >= incoming.price

\* a is served before b: by price, then by time of arrival.
Precedes(a, b) ==
  \/ IF resting[a].side = "BUY" THEN resting[a].price > resting[b].price
                                ELSE resting[a].price < resting[b].price
  \/ resting[a].price = resting[b].price /\ resting[a].arrival < resting[b].arrival

Arrive ==
  /\ incoming = Nobody
  /\ incoming' \in Incoming
  /\ incoming'.id \notin DOMAIN resting
  /\ UNCHANGED resting

\* The incoming order trades with `maker' all that the two have in common.
Trade(maker) ==
  /\ incoming # Nobody
  /\ incoming.quantity > 0
  /\ maker \in DOMAIN resting
  /\ Matches(maker)
  /\ \A other \in DOMAIN resting \ {maker} :
       resting[other].side = resting[maker].side => Precedes(maker, other)
  /\ IF incoming.quantity < resting[maker].quantity
     THEN /\ resting' = [resting EXCEPT ![maker].quantity = @ - incoming.quantity]
          /\ incoming' = [incoming EXCEPT !.quantity = 0]
     ELSE /\ resting' = [id \in DOMAIN resting \ {maker} |-> resting[id]]
          /\ incoming' = [incoming EXCEPT !.quantity = @ - resting[maker].quantity]

\* Nothing is left to trade with: a limit order rests behind all others.
Rest ==
  /\ incoming # Nobody
  /\ incoming.quantity > 0
  /\ incoming.price # 0
  /\ \A id \in DOMAIN resting : ~Matches(id)
  /\ LET arrival == resting'[incoming.id].arrival IN
     /\ \A id \in DOMAIN resting : resting[id].arrival < arrival
     /\ resting' = [id \in DOMAIN resting \cup {incoming.id} |->
          IF id = incoming.id
          THEN [side |-> incoming.side, price |-> incoming.price,
                quantity |-> incoming.quantity, arrival |-> arrival]
          ELSE resting[id]]
  /\ incoming' = Nobody

\* A filled order leaves, and so does what a market order could not trade.
Leave ==
  /\ incoming # Nobody
  /\ incoming.quantity > 0 =>
       incoming.price = 0 /\ \A id \in DOMAIN resting : ~Matches(id)
  /\ incoming' = Nobody
  /\ UNCHANGED resting

Cancel(id) ==
  /\ incoming = Nobody
  /\ id \in DOMAIN resting
  /\ resting' = [other \in DOMAIN resting \ {id} |-> resting[other]]
  /\ UNCHANGED incoming

Next ==
  \/ Arrive
  \/ \E maker \in OrderId : Trade(maker)
  \/ Rest
  \/ Leave
  \/ \E id \in OrderId : Cancel(id)

Spec == Init /\ [][Next]_vars
=============================================================================
