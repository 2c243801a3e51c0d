-------------------------- MODULE OrderBookProofs --------------------------
(***************************************************************************)
(* The order book, for any ids, any submitted orders and any limit on the  *)
(* stop cycles: its invariants, the totals of its price levels, the        *)
(* cascade of its stop orders, price-time priority, and the book that is   *)
(* built again from a recovery snapshot.                                   *)
(***************************************************************************)
EXTENDS Recovery, SequenceTheorems, QuantitySums, TLAPS

-----------------------------------------------------------------------------
(* Maps *)

\* Map.set keeps the type of a Map and changes one key.
LEMMA PutIsMap ==
  ASSUME NEW map, NEW Keys, NEW Values, IsMap(map, Keys, Values),
         NEW key \in Keys, NEW value \in Values
  PROVE  /\ IsMap(Put(map, key, value), Keys, Values)
         /\ DOMAIN Put(map, key, value) = DOMAIN map \cup {key}
         /\ Put(map, key, value)[key] = value
         /\ \A k \in DOMAIN map \ {key} : Put(map, key, value)[k] = map[k]
  BY DEF IsMap, Put

\* Map.delete keeps the type of a Map and all its other keys.
LEMMA WithoutIsMap ==
  ASSUME NEW map, NEW Keys, NEW Values, IsMap(map, Keys, Values), NEW key
  PROVE  /\ IsMap(Without(map, key), Keys, Values)
         /\ DOMAIN Without(map, key) = DOMAIN map \ {key}
         /\ \A k \in DOMAIN map \ {key} : Without(map, key)[k] = map[k]
  BY DEF IsMap, Without

\* SetLevel keeps the type of a side of the book.
LEMMA SetLevelIsMap ==
  ASSUME NEW map, NEW Keys, IsMap(map, Keys, PriceLevel),
         NEW price \in Keys, NEW level \in PriceLevel
  PROVE  IsMap(SetLevel(map, price, level), Keys, PriceLevel)
  BY PutIsMap, WithoutIsMap DEF SetLevel

\* AppendToLevel keeps the type of a side of the book.
LEMMA AppendIsMap ==
  ASSUME NEW map, NEW Keys, IsMap(map, Keys, PriceLevel), NEW price \in Keys,
         NEW id \in OrderId, NEW quantity \in Int
  PROVE  IsMap(AppendToLevel(map, price, id, quantity), Keys, PriceLevel)
<1> DEFINE old == IF price \in DOMAIN map THEN map[price]
                  ELSE [orders |-> <<>>, totalQuantity |-> 0]
           new == [orders |-> Append(old.orders, id),
                   totalQuantity |-> old.totalQuantity + quantity]
<1>1. old \in PriceLevel
  BY DEF IsMap, PriceLevel
<1>2. new \in PriceLevel
  BY <1>1 DEF PriceLevel
<1>3. QED
  BY <1>2, PutIsMap DEF AppendToLevel

-----------------------------------------------------------------------------
(* Lists of events and queues *)

LEMMA NewEventType ==
  ASSUME NEW type \in EventType, NEW id \in OrderId \cup {NoOrder}
  PROVE  NewEvent(type, id) \in Event
  BY DEF NewEvent, Event

\* stampEvents returns as many events as it is given.
LEMMA StampEventsType ==
  ASSUME NEW list \in Seq(Event), sequence \in Nat
  PROVE  StampEvents(list) \in Seq(Event) /\ Len(StampEvents(list)) = Len(list)
<1>1. \A i \in 1..Len(list) : [list[i] EXCEPT !.sequence = sequence + i] \in Event
  <2> SUFFICES ASSUME NEW i \in 1..Len(list)
               PROVE  [list[i] EXCEPT !.sequence = sequence + i] \in Event
    OBVIOUS
  <2>1. list[i] \in Event /\ sequence + i \in Nat
    BY ElementOfSeq
  <2>2. QED
    BY <2>1 DEF Event
<1>2. QED
  BY <1>1 DEF StampEvents

\* Taking position i out of a queue takes its order out and no other.
LEMMA RemoveAtProperties ==
  ASSUME NEW queue \in Seq(OrderId), NoDuplicates(queue), NEW i \in 1..Len(queue)
  PROVE  /\ RemoveFromQueue(queue, i) \in Seq(OrderId)
         /\ NoDuplicates(RemoveFromQueue(queue, i))
         /\ Queued(RemoveFromQueue(queue, i)) = Queued(queue) \ {queue[i]}
<1> DEFINE new == RemoveFromQueue(queue, i)
           left == SubSeq(queue, 1, i - 1)
           right == SubSeq(queue, i + 1, Len(queue))
<1>1. left \in Seq(OrderId) /\ Len(left) = i - 1 /\ \A k \in 1..(i-1) : left[k] = queue[k]
  OBVIOUS
<1>2. /\ right \in Seq(OrderId) /\ Len(right) = Len(queue) - i
      /\ \A k \in 1..(Len(queue) - i) : right[k] = queue[i + k]
  OBVIOUS
<1>3. new = left \o right
  BY DEF RemoveFromQueue
<1> HIDE DEF new, left, right
<1>4. /\ new \in Seq(OrderId) /\ Len(new) = Len(queue) - 1
      /\ \A k \in 1..Len(new) : new[k] = IF k < i THEN queue[k] ELSE queue[k + 1]
  <2>1. new \in Seq(OrderId) /\ Len(new) = Len(queue) - 1
    BY <1>1, <1>2, <1>3, ConcatProperties
  <2> SUFFICES ASSUME NEW k \in 1..Len(new)
               PROVE  new[k] = IF k < i THEN queue[k] ELSE queue[k + 1]
    BY <2>1
  <2>2. k \in 1..(Len(left) + Len(right)) /\ Len(queue) \in Nat
    BY <1>1, <1>2, <2>1
  <2>3. new[k] = IF k <= Len(left) THEN left[k] ELSE right[k - Len(left)]
    BY <1>1, <1>2, <1>3, <2>2, ConcatProperties
  <2>4. CASE k < i
    BY <1>1, <2>2, <2>3, <2>4
  <2>5. CASE k >= i
    <3>1. k - (i - 1) \in 1..(Len(queue) - i)
      BY <1>1, <1>2, <2>2, <2>5
    <3>2. right[k - (i - 1)] = queue[k + 1]
      BY <1>2, <3>1
    <3>3. QED
      BY <1>1, <2>2, <2>3, <2>5, <3>2
  <2>6. QED
    BY <2>2, <2>4, <2>5
<1>5. NoDuplicates(new)
  BY <1>4 DEF NoDuplicates
<1>6. Queued(new) \subseteq Queued(queue) \ {queue[i]}
  BY <1>4 DEF NoDuplicates, Queued
<1>7. Queued(queue) \ {queue[i]} \subseteq Queued(new)
  <2> SUFFICES ASSUME NEW k \in 1..Len(queue), k # i
               PROVE  \E j \in 1..Len(new) : new[j] = queue[k]
    BY DEF Queued
  <2>1. CASE k < i
    BY <2>1, <1>4
  <2>2. CASE k > i
    <3>1. k - 1 \in 1..Len(new) /\ new[k - 1] = queue[k]
      BY <2>2, <1>4
    <3>2. QED
      BY <3>1
  <2>3. QED
    BY <2>1, <2>2
<1>8. QED
  BY <1>4, <1>5, <1>6, <1>7 DEF new

-----------------------------------------------------------------------------
(* The inductive invariant *)

\* Where the running call is, and what it holds there.
Control ==
  /\ phase = "match" <=> taker # NoOrder
  /\ phase \notin {"match", "trigger"} \/ cycles = 0 => eligible = {}

\* The order being executed is well formed: a limit order has a price to rest
\* at, and its status says how much of it has been filled.
TakerIsSound ==
  taker # NoOrder =>
    /\ taker.type = "LIMIT" => taker.priceTicks > 0
    /\ taker.remainingQuantity <= taker.initialQuantity
    /\ taker.status = IF taker.remainingQuantity = 0 THEN "FILLED"
                      ELSE IF taker.remainingQuantity = taker.initialQuantity
                           THEN "OPEN" ELSE "PARTIALLY_FILLED"

BookInv == Uncrossed /\ IndexesAgree /\ RestingIsActive

CallInv == Control /\ TakerIsSound /\ IdsAreUnique

IInv == TypeOK /\ BookInv /\ CallInv

\* A step that leaves the book alone keeps what is said of it.
LEMMA BookUnchanged ==
  ASSUME BookInv, UNCHANGED <<levels, ordersById>>
  PROVE  BookInv'
  BY DEF BookInv, Uncrossed, IndexesAgree, RestingIsActive

-----------------------------------------------------------------------------
(* Steps that take an order out of the book *)

\* The level of a resting order, by the agreement of the two indexes.
LEMMA LevelOfOrder ==
  ASSUME TypeOK, IndexesAgree, NEW id \in DOMAIN ordersById
  PROVE  LET order == ordersById[id] IN
         /\ order \in RestingOrder
         /\ order.side \in Side
         /\ order.priceTicks \in Nat \ {0}
         /\ order.priceTicks \in DOMAIN levels[order.side]
         /\ levels[order.side][order.priceTicks] \in PriceLevel
<1>1. ordersById[id] \in RestingOrder
  BY DEF TypeOK, IsMap
<1>2. ordersById[id].side \in Side /\ ordersById[id].priceTicks \in Nat \ {0}
  BY <1>1 DEF RestingOrder
<1>3. ordersById[id].priceTicks \in DOMAIN levels[ordersById[id].side]
  BY DEF IndexesAgree
<1>4. QED
  BY <1>1, <1>2, <1>3 DEF TypeOK, IsMap

\* A queue has orders exactly when it is not empty.
LEMMA QueuedEmpty ==
  ASSUME NEW queue \in Seq(OrderId)
  PROVE  queue = <<>> <=> Queued(queue) = {}
<1>1. queue = <<>> <=> Len(queue) = 0
  BY EmptySeq
<1>2. Len(queue) \in Nat
  OBVIOUS
<1>3. QED
  BY <1>1, <1>2 DEF Queued

\* Removing one order from its queue and from ordersById keeps the book sound,
\* whichever position of the queue it had.
LEMMA RemoveFromBook ==
  ASSUME TypeOK, BookInv,
         NEW id \in DOMAIN ordersById, NEW queue \in Seq(OrderId), NEW total \in Int,
         NoDuplicates(queue),
         Queued(queue) =
           Queued(levels[ordersById[id].side][ordersById[id].priceTicks].orders) \ {id},
         levels' = [levels EXCEPT ![ordersById[id].side] =
                      SetLevel(levels[ordersById[id].side], ordersById[id].priceTicks,
                               [orders |-> queue, totalQuantity |-> total])],
         ordersById' = Without(ordersById, id)
  PROVE  BookInv'
<1> DEFINE side == ordersById[id].side
           price == ordersById[id].priceTicks
           level == [orders |-> queue, totalQuantity |-> total]
<1>1. /\ side \in Side /\ price \in Nat \ {0} /\ price \in DOMAIN levels[side]
      /\ level \in PriceLevel
  BY LevelOfOrder DEF BookInv, PriceLevel
<1>2. /\ IsMap(levels[side], Nat \ {0}, PriceLevel)
      /\ levels = [s \in Side |-> levels[s]]
      /\ IsMap(ordersById, OrderId, RestingOrder)
  BY <1>1 DEF TypeOK
<1>3. /\ DOMAIN ordersById' = DOMAIN ordersById \ {id}
      /\ \A other \in DOMAIN ordersById' : ordersById'[other] = ordersById[other]
  BY <1>2 DEF Without
<1>4. /\ levels'[side] = SetLevel(levels[side], price, level)
      /\ \A s \in Side \ {side} : levels'[s] = levels[s]
  BY <1>1, <1>2
<1>5. /\ queue = <<>> => DOMAIN levels'[side] = DOMAIN levels[side] \ {price}
      /\ queue # <<>> => /\ DOMAIN levels'[side] = DOMAIN levels[side]
                         /\ levels'[side][price].orders = queue
      /\ \A p \in DOMAIN levels[side] \ {price} : levels'[side][p] = levels[side][p]
  <2>1. level.orders = queue
    OBVIOUS
  <2>2. CASE queue = <<>>
    <3>1. levels'[side] = Without(levels[side], price)
      BY <1>4, <2>1, <2>2 DEF SetLevel
    <3> HIDE DEF level, side, price
    <3>2. QED
      BY <2>2, <3>1 DEF Without
  <2>3. CASE queue # <<>>
    <3>1. levels'[side] = Put(levels[side], price, level)
      BY <1>4, <2>1, <2>3 DEF SetLevel
    <3> HIDE DEF level, side, price
    <3>2. QED
      BY <1>1, <2>1, <2>3, <3>1 DEF Put
  <2>4. QED
    BY <2>2, <2>3
<1>6. Uncrossed'
  BY <1>4, <1>5, <1>1 DEF BookInv, Uncrossed, Side
<1>7. RestingIsActive'
  BY <1>3 DEF BookInv, RestingIsActive
<1>8. queue = <<>> <=> Queued(queue) = {}
  BY QueuedEmpty
<1> HIDE DEF side, price, level
<1>9. \A s \in Side : \A p \in DOMAIN levels'[s] :
        LET q == levels'[s][p].orders IN
        /\ q # <<>>
        /\ NoDuplicates(q)
        /\ Queued(q) = {o \in DOMAIN ordersById' : /\ ordersById'[o].side = s
                                                   /\ ordersById'[o].priceTicks = p}
  <2> SUFFICES ASSUME NEW s \in Side, NEW p \in DOMAIN levels'[s]
               PROVE  LET q == levels'[s][p].orders IN
                      /\ q # <<>>
                      /\ NoDuplicates(q)
                      /\ Queued(q) = {o \in DOMAIN ordersById' :
                                        /\ ordersById'[o].side = s
                                        /\ ordersById'[o].priceTicks = p}
    OBVIOUS
  <2>1. CASE s = side /\ p = price
    <3>1. queue # <<>> /\ levels'[s][p].orders = queue
      BY <2>1, <1>5
    <3>2. Queued(levels[side][price].orders) =
            {o \in DOMAIN ordersById : /\ ordersById[o].side = side
                                       /\ ordersById[o].priceTicks = price}
      BY <1>1 DEF BookInv, IndexesAgree
    <3>3. Queued(queue) = Queued(levels[side][price].orders) \ {id}
      BY DEF side, price
    <3>4. QED
      BY <3>1, <3>2, <3>3, <2>1, <1>3
  <2>2. CASE ~(s = side /\ p = price)
    <3>1. p \in DOMAIN levels[s] /\ levels'[s][p] = levels[s][p]
      BY <2>2, <1>4, <1>5
    <3>2. LET q == levels[s][p].orders IN
          /\ q # <<>>
          /\ NoDuplicates(q)
          /\ Queued(q) = {o \in DOMAIN ordersById : /\ ordersById[o].side = s
                                                    /\ ordersById[o].priceTicks = p}
      BY <3>1 DEF BookInv, IndexesAgree
    <3>3. ~(ordersById[id].side = s /\ ordersById[id].priceTicks = p)
      BY <2>2 DEF side, price
    <3>4. QED
      BY <3>1, <3>2, <3>3, <1>3
  <2>3. QED
    BY <2>1, <2>2
<1>10. ASSUME NEW o \in DOMAIN ordersById'
       PROVE  ordersById'[o].priceTicks \in DOMAIN levels'[ordersById'[o].side]
  <2>1. /\ o \in DOMAIN ordersById /\ o # id /\ ordersById'[o] = ordersById[o]
        /\ ordersById[o].priceTicks \in DOMAIN levels[ordersById[o].side]
        /\ ordersById[o].side \in Side
    BY <1>3, LevelOfOrder DEF BookInv
  <2>2. CASE ordersById[o].side = side /\ ordersById[o].priceTicks = price
    <3>1. o \in Queued(levels[side][price].orders)
      BY <2>1, <2>2, <1>1 DEF BookInv, IndexesAgree
    <3>2. o \in Queued(queue)
      BY <3>1, <2>1 DEF side, price
    <3>3. QED
      BY <3>2, <1>1, <1>5, <1>8, <2>1, <2>2
  <2>3. CASE ~(ordersById[o].side = side /\ ordersById[o].priceTicks = price)
    BY <2>1, <2>3, <1>4, <1>5
  <2>4. QED
    BY <2>2, <2>3
<1>11. QED
  BY <1>6, <1>7, <1>9, <1>10 DEF BookInv, IndexesAgree

\* A partial fill of a resting order keeps the book sound: its queue, and its
\* place in the queue, stay.
LEMMA FillInBook ==
  ASSUME TypeOK, BookInv,
         NEW id \in DOMAIN ordersById, NEW quantity \in Nat \ {0}, NEW total \in Int,
         quantity < ordersById[id].remainingQuantity,
         levels' = [levels EXCEPT ![ordersById[id].side] =
                      SetLevel(levels[ordersById[id].side], ordersById[id].priceTicks,
                        [orders |-> levels[ordersById[id].side][ordersById[id].priceTicks].orders,
                         totalQuantity |-> total])],
         ordersById' = Put(ordersById, id, Fill(ordersById[id], quantity))
  PROVE  BookInv'
<1> DEFINE side == ordersById[id].side
           price == ordersById[id].priceTicks
           queue == levels[side][price].orders
           level == [orders |-> queue, totalQuantity |-> total]
           filled == Fill(ordersById[id], quantity)
<1>1. /\ side \in Side /\ price \in DOMAIN levels[side] /\ queue # <<>>
      /\ ordersById[id] \in RestingOrder
  BY LevelOfOrder DEF BookInv, IndexesAgree
<1>2. /\ levels = [s \in Side |-> levels[s]]
      /\ DOMAIN ordersById \subseteq OrderId
  BY <1>1 DEF TypeOK, IsMap
<1>3. /\ filled.side = side /\ filled.priceTicks = price
      /\ filled.initialQuantity = ordersById[id].initialQuantity
      /\ filled.remainingQuantity = ordersById[id].remainingQuantity - quantity
      /\ filled.status = "PARTIALLY_FILLED"
  BY <1>1 DEF Fill, RestingOrder
<1>4. /\ DOMAIN ordersById' = DOMAIN ordersById
      /\ ordersById'[id] = filled
      /\ \A o \in DOMAIN ordersById \ {id} : ordersById'[o] = ordersById[o]
  BY DEF Put
<1>5. levels'[side] = Put(levels[side], price, level)
  BY <1>1, <1>2 DEF SetLevel
<1>6. /\ DOMAIN levels'[side] = DOMAIN levels[side]
      /\ levels'[side][price].orders = queue
      /\ \A p \in DOMAIN levels[side] \ {price} : levels'[side][p] = levels[side][p]
  <2>1. level.orders = queue
    OBVIOUS
  <2> HIDE DEF level, side, price
  <2>2. QED
    BY <1>1, <1>5, <2>1 DEF Put
<1>7. \A s \in Side \ {side} : levels'[s] = levels[s]
  BY <1>1, <1>2
<1> HIDE DEF side, price, queue, level, filled
<1>8. Uncrossed'
  BY <1>6, <1>7, <1>1 DEF BookInv, Uncrossed, Side
<1>9. RestingIsActive'
  <2>1. /\ ordersById[id].remainingQuantity \in 1..ordersById[id].initialQuantity
        /\ ordersById[id].initialQuantity \in Nat
    BY <1>1 DEF BookInv, RestingIsActive, RestingOrder
  <2>2. /\ filled.remainingQuantity \in 1..filled.initialQuantity
        /\ filled.remainingQuantity # filled.initialQuantity
    BY <2>1, <1>3
  <2>3. QED
    BY <2>2, <1>3, <1>4 DEF BookInv, RestingIsActive
<1>10. \A o \in DOMAIN ordersById : /\ ordersById'[o].side = ordersById[o].side
                                   /\ ordersById'[o].priceTicks = ordersById[o].priceTicks
  BY <1>3, <1>4 DEF side, price
<1>11. \A s \in Side : /\ DOMAIN levels'[s] = DOMAIN levels[s]
                       /\ \A p \in DOMAIN levels[s] : levels'[s][p].orders = levels[s][p].orders
  BY <1>6, <1>7 DEF queue
<1>12. IndexesAgree'
  <2>1. \A s \in Side, p \in Nat \ {0} :
          {o \in DOMAIN ordersById' : /\ ordersById'[o].side = s
                                      /\ ordersById'[o].priceTicks = p}
          = {o \in DOMAIN ordersById : /\ ordersById[o].side = s
                                       /\ ordersById[o].priceTicks = p}
    BY <1>4, <1>10
  <2>2. \A o \in DOMAIN ordersById : ordersById[o].side \in Side
    BY LevelOfOrder DEF BookInv
  <2>3. \A s \in Side : DOMAIN levels[s] \subseteq Nat \ {0}
    BY DEF TypeOK, IsMap
  <2>4. \A o \in DOMAIN ordersById' :
          ordersById'[o].priceTicks \in DOMAIN levels'[ordersById'[o].side]
    BY <1>4, <1>10, <1>11, <2>2 DEF BookInv, IndexesAgree
  <2>5. ASSUME NEW s \in Side, NEW p \in DOMAIN levels'[s]
        PROVE  /\ levels'[s][p].orders # <<>> /\ NoDuplicates(levels'[s][p].orders)
               /\ Queued(levels'[s][p].orders) =
                    {o \in DOMAIN ordersById' : /\ ordersById'[o].side = s
                                                /\ ordersById'[o].priceTicks = p}
    <3>1. /\ p \in DOMAIN levels[s] /\ p \in Nat \ {0}
          /\ levels'[s][p].orders = levels[s][p].orders
      BY <1>11, <2>3
    <3>2. /\ levels[s][p].orders # <<>> /\ NoDuplicates(levels[s][p].orders)
          /\ Queued(levels[s][p].orders) =
               {o \in DOMAIN ordersById : /\ ordersById[o].side = s
                                          /\ ordersById[o].priceTicks = p}
      BY <3>1 DEF BookInv, IndexesAgree
    <3>3. QED
      BY <2>1, <3>1, <3>2
  <2>6. QED
    BY <2>4, <2>5 DEF IndexesAgree
<1>13. QED
  BY <1>8, <1>9, <1>12 DEF BookInv

\* An order that rests where it crosses nothing keeps the book sound.
LEMMA RestInBook ==
  ASSUME TypeOK, BookInv,
         NEW id \in OrderId \ DOMAIN ordersById, NEW order \in RestingOrder,
         NEW quantity \in Int,
         order.remainingQuantity \in 1..order.initialQuantity,
         order.status = IF order.remainingQuantity = order.initialQuantity
                        THEN "OPEN" ELSE "PARTIALLY_FILLED",
         \A p \in DOMAIN levels[Opposite(order.side)] :
           IF order.side = "BUY" THEN p > order.priceTicks ELSE p < order.priceTicks,
         levels' = [levels EXCEPT ![order.side] =
                      AppendToLevel(levels[order.side], order.priceTicks, id, quantity)],
         ordersById' = Put(ordersById, id, order)
  PROVE  BookInv'
<1> DEFINE side == order.side
           price == order.priceTicks
           old == IF price \in DOMAIN levels[side] THEN levels[side][price]
                  ELSE [orders |-> <<>>, totalQuantity |-> 0]
           queue == Append(old.orders, id)
           level == [orders |-> queue, totalQuantity |-> old.totalQuantity + quantity]
<1>1. side \in Side /\ price \in Nat \ {0}
  BY DEF RestingOrder
<1>2. /\ levels = [s \in Side |-> levels[s]]
      /\ IsMap(levels[side], Nat \ {0}, PriceLevel)
      /\ IsMap(ordersById, OrderId, RestingOrder)
  BY <1>1 DEF TypeOK
<1>3. /\ levels'[side] = Put(levels[side], price, level)
      /\ \A s \in Side \ {side} : levels'[s] = levels[s]
  BY <1>1, <1>2 DEF AppendToLevel
<1>4. /\ DOMAIN levels'[side] = DOMAIN levels[side] \cup {price}
      /\ levels'[side][price].orders = queue
      /\ \A p \in DOMAIN levels[side] \ {price} : levels'[side][p] = levels[side][p]
  <2>1. level.orders = queue
    OBVIOUS
  <2> HIDE DEF level, side, price
  <2>2. QED
    BY <1>3, <2>1 DEF Put
<1>5. /\ DOMAIN ordersById' = DOMAIN ordersById \cup {id}
      /\ ordersById'[id] = order
      /\ \A o \in DOMAIN ordersById : ordersById'[o] = ordersById[o]
  BY DEF Put
<1>6. /\ old.orders \in Seq(OrderId) /\ NoDuplicates(old.orders)
      /\ Queued(old.orders) = {o \in DOMAIN ordersById : /\ ordersById[o].side = side
                                                         /\ ordersById[o].priceTicks = price}
  <2>1. CASE price \in DOMAIN levels[side]
    BY <2>1, <1>1, <1>2 DEF BookInv, IndexesAgree, IsMap, PriceLevel
  <2>2. CASE price \notin DOMAIN levels[side]
    <3>1. old.orders = <<>>
      BY <2>2
    <3>2. \A o \in DOMAIN ordersById :
            ~(ordersById[o].side = side /\ ordersById[o].priceTicks = price)
      BY <2>2 DEF BookInv, IndexesAgree
    <3>3. <<>> \in Seq(OrderId) /\ Queued(<<>>) = {} /\ NoDuplicates(<<>>)
      BY DEF Queued, NoDuplicates
    <3> HIDE DEF old
    <3>4. QED
      BY <3>1, <3>2, <3>3
  <2>3. QED
    BY <2>1, <2>2
<1>7. /\ queue # <<>>
      /\ NoDuplicates(queue)
      /\ Queued(queue) = Queued(old.orders) \cup {id}
  <2> HIDE DEF old
  <2>1. /\ Len(queue) = Len(old.orders) + 1 /\ Len(old.orders) \in Nat
        /\ queue[Len(old.orders) + 1] = id
        /\ \A i \in 1..Len(old.orders) : queue[i] = old.orders[i]
    BY <1>6
  <2>2. \A i \in 1..Len(old.orders) : old.orders[i] # id
    BY <1>6 DEF Queued
  <2> HIDE DEF queue
  <2>3. queue # <<>>
    BY <2>1
  <2>4. NoDuplicates(queue)
    <3>1. \A i \in 1..Len(queue) : i \in 1..Len(old.orders) \/ i = Len(old.orders) + 1
      BY <2>1
    <3>2. \A i, j \in 1..Len(old.orders) : old.orders[i] = old.orders[j] => i = j
      BY <1>6 DEF NoDuplicates
    <3>3. QED
      BY <2>1, <2>2, <3>1, <3>2 DEF NoDuplicates
  <2>5. Queued(queue) = Queued(old.orders) \cup {id}
    <3>1. \A i \in 1..Len(queue) : i \in 1..Len(old.orders) \/ i = Len(old.orders) + 1
      BY <2>1
    <3>2. Queued(queue) \subseteq Queued(old.orders) \cup {id}
      BY <2>1, <3>1 DEF Queued
    <3>3. Queued(old.orders) \cup {id} \subseteq Queued(queue)
      BY <2>1 DEF Queued
    <3>4. QED
      BY <3>2, <3>3
  <2>6. QED
    BY <2>3, <2>4, <2>5
<1> HIDE DEF side, price, old, queue, level
<1>8. Uncrossed'
  <2> SUFFICES ASSUME NEW bid \in DOMAIN levels'["BUY"], NEW ask \in DOMAIN levels'["SELL"]
               PROVE  bid < ask
    BY DEF Uncrossed
  <2>1. CASE side = "BUY"
    BY <2>1, <1>3, <1>4 DEF BookInv, Uncrossed, Side, Opposite, side, price
  <2>2. CASE side = "SELL"
    BY <2>2, <1>3, <1>4 DEF BookInv, Uncrossed, Side, Opposite, side, price
  <2>3. QED
    BY <2>1, <2>2, <1>1 DEF Side
<1>9. RestingIsActive'
  BY <1>5 DEF BookInv, RestingIsActive
<1>10. \A s \in Side : \A p \in DOMAIN levels'[s] :
        LET q == levels'[s][p].orders IN
        /\ q # <<>>
        /\ NoDuplicates(q)
        /\ Queued(q) = {o \in DOMAIN ordersById' : /\ ordersById'[o].side = s
                                                   /\ ordersById'[o].priceTicks = p}
  <2> SUFFICES ASSUME NEW s \in Side, NEW p \in DOMAIN levels'[s]
               PROVE  LET q == levels'[s][p].orders IN
                      /\ q # <<>>
                      /\ NoDuplicates(q)
                      /\ Queued(q) = {o \in DOMAIN ordersById' :
                                        /\ ordersById'[o].side = s
                                        /\ ordersById'[o].priceTicks = p}
    OBVIOUS
  <2>1. CASE s = side /\ p = price
    BY <2>1, <1>4, <1>5, <1>6, <1>7 DEF side, price
  <2>2. CASE ~(s = side /\ p = price)
    <3>1. p \in DOMAIN levels[s] /\ levels'[s][p] = levels[s][p]
      BY <2>2, <1>3, <1>4
    <3>2. LET q == levels[s][p].orders IN
          /\ q # <<>>
          /\ NoDuplicates(q)
          /\ Queued(q) = {o \in DOMAIN ordersById : /\ ordersById[o].side = s
                                                    /\ ordersById[o].priceTicks = p}
      BY <3>1 DEF BookInv, IndexesAgree
    <3>3. ~(order.side = s /\ order.priceTicks = p)
      BY <2>2 DEF side, price
    <3>4. QED
      BY <3>1, <3>2, <3>3, <1>5
  <2>3. QED
    BY <2>1, <2>2
<1>11. \A o \in DOMAIN ordersById' :
         ordersById'[o].priceTicks \in DOMAIN levels'[ordersById'[o].side]
  <2>1. \A o \in DOMAIN ordersById : ordersById[o].side \in Side
    BY LevelOfOrder DEF BookInv
  <2>2. QED
    BY <2>1, <1>3, <1>4, <1>5 DEF BookInv, IndexesAgree, side, price
<1>12. QED
  BY <1>8, <1>9, <1>10, <1>11 DEF BookInv, IndexesAgree

-----------------------------------------------------------------------------
(* Public methods *)

\* Emit adds events to one of the two lists.
LEMMA EmitType ==
  ASSUME events \in Seq(Event), triggeredEvents \in Seq(Event),
         NEW list \in Seq(Event), Emit(list)
  PROVE  events' \in Seq(Event) /\ triggeredEvents' \in Seq(Event)
<1>1. CASE cycles = 0
  BY <1>1, ConcatProperties DEF Emit
<1>2. CASE cycles # 0
  BY <1>2, ConcatProperties DEF Emit
<1>3. QED
  BY <1>1, <1>2

\* A submitted order has the fields of its type.
LEMMA OrderFields ==
  ASSUME NEW order \in Orders
  PROVE  /\ order.orderId \in OrderId /\ order.side \in Side
         /\ order.type \in LimitTypes \cup MarketTypes
         /\ order.priceTicks \in Nat /\ order.triggerPriceTicks \in Int
         /\ order.trailingAmountTicks \in Int /\ order.quantity \in Nat
  BY OrdersAssumption DEF OrderInput

\* A fresh OrderNode is an OrderNode.
LEMMA NewNodeType ==
  ASSUME NEW id \in OrderId, NEW side \in Side, NEW type \in {"LIMIT", "MARKET"},
         NEW price \in Nat, NEW quantity \in Nat, IsValidNode(type, price, quantity)
  PROVE  /\ NewNode(id, side, type, price, quantity) \in Node
         /\ NewNode(id, side, type, price, quantity) # NoOrder
<1>1. NewNode(id, side, type, price, quantity) \in Node
  BY DEF IsValidNode, NewNode, Node, Status
<1>2. QED
  BY <1>1, NoOrderAssumption

\* placeLimitOrder and placeMarketOrder start with an id that is not in use.
LEMMA StartMatchingInv ==
  ASSUME IInv, NEW order \in Orders, order.type \in {"LIMIT", "MARKET"},
         NEW method \in {"placeLimitOrder", "placeMarketOrder"},
         StartMatching(order, method)
  PROVE  IInv'
<1> USE DEF IInv
<1>1. BookInv'
  BY BookUnchanged DEF StartMatching, bookVars
<1>2. /\ taker' = NewNode(order.orderId, order.side, order.type, order.priceTicks,
                          order.quantity)
      /\ taker' \in Node /\ taker' # NoOrder
  BY OrderFields, NewNodeType DEF StartMatching
<1>3. TypeOK'
  <2>1. events' \in Seq(Event)
    BY OrderFields, NewEventType DEF StartMatching, EventType
  <2>2. QED
    BY <1>2, <2>1 DEF StartMatching, TypeOK, IsMap, bookVars, stopVars
<1>4. CallInv'
  <2>1. Control'
    BY <1>2 DEF StartMatching, CanCall, CallInv, Control
  <2>2. TakerIsSound'
    <3>1. IsValidNode(order.type, order.priceTicks, order.quantity)
      BY DEF StartMatching
    <3>2. QED
      BY <1>2, <3>1, OrderFields DEF TakerIsSound, NewNode, IsValidNode
  <2>3. IdsAreUnique'
    BY <1>2 DEF StartMatching, IsAvailable, CallInv, IdsAreUnique, NewNode, bookVars,
                stopVars
  <2>4. QED
    BY <2>1, <2>2, <2>3 DEF CallInv
<1>5. QED
  BY <1>1, <1>3, <1>4

\* placeStopMarketOrder, placeStopLimitOrder and placeTrailingStopMarketOrder.
LEMMA AddStopOrderInv ==
  ASSUME IInv, NEW order \in Orders,
         order.type \in {"STOP_MARKET", "STOP_LIMIT", "TRAILING_STOP_MARKET"},
         NEW trigger \in Int, NEW watermark \in Nat,
         CanCall, IsAvailable(order.orderId), AddStopOrder(order, trigger, watermark)
  PROVE  IInv'
<1> USE DEF IInv
<1> DEFINE stop == [side |-> order.side, type |-> order.type,
                    priceTicks |-> order.priceTicks, triggerPriceTicks |-> trigger,
                    trailingAmountTicks |-> order.trailingAmountTicks,
                    watermark |-> watermark, quantity |-> order.quantity,
                    rank |-> clock]
<1>1. BookInv'
  BY BookUnchanged DEF AddStopOrder
<1>2. /\ stopOrdersById' = Put(stopOrdersById, order.orderId, stop)
      /\ order.orderId \in OrderId
      /\ stop \in StopOrder
  BY OrderFields DEF AddStopOrder, TypeOK, StopOrder
<1> HIDE DEF stop
<1>3. /\ IsMap(stopOrdersById', OrderId, StopOrder)
      /\ DOMAIN stopOrdersById' = DOMAIN stopOrdersById \cup {order.orderId}
  <2>1. IsMap(stopOrdersById, OrderId, StopOrder)
    BY DEF TypeOK
  <2>2. IsMap(Put(stopOrdersById, order.orderId, stop), OrderId, StopOrder)
    BY <1>2, <2>1, PutIsMap
  <2>3. QED
    BY <1>2, <2>2 DEF Put
<1>4. events' \in Seq(Event)
  <2>1. <<NewEvent("STOP_ORDER_ACCEPTED", order.orderId), BookUpdated>> \in Seq(Event)
    BY <1>2, NewEventType DEF BookUpdated, EventType
  <2>2. QED
    BY <2>1, StampEventsType DEF AddStopOrder, TypeOK
<1>5. TypeOK'
  BY <1>3, <1>4 DEF AddStopOrder, TypeOK, IsMap
<1>6. CallInv'
  BY <1>3 DEF AddStopOrder, CanCall, IsAvailable, CallInv, Control, TakerIsSound,
              IdsAreUnique
<1>7. QED
  BY <1>1, <1>5, <1>6

LEMMA TrailingTriggerType ==
  ASSUME NEW side, NEW watermark \in Nat, NEW amount \in Int
  PROVE  TrailingTrigger(side, watermark, amount) \in Int
  BY DEF TrailingTrigger

\* A refused call changes nothing but its result.
LEMMA RefuseInv ==
  ASSUME IInv, CanCall, Refuse
  PROVE  IInv'
<1>1. BookInv'
  BY BookUnchanged DEF IInv, Refuse, bookVars
<1>2. TypeOK'
  BY DEF IInv, Refuse, TypeOK, IsMap, bookVars, stopVars
<1>3. CallInv'
  BY DEF IInv, Refuse, CallInv, Control, TakerIsSound, IdsAreUnique, bookVars, stopVars
<1>4. QED
  BY <1>1, <1>2, <1>3 DEF IInv

LEMMA CancelStopOrderInv ==
  ASSUME IInv, NEW id \in OrderId, CancelStopOrder(id)
  PROVE  IInv'
<1>1. BookInv'
  BY BookUnchanged DEF IInv, CancelStopOrder, bookVars
<1>2. /\ IsMap(stopOrdersById', OrderId, StopOrder)
      /\ DOMAIN stopOrdersById' = DOMAIN stopOrdersById \ {id}
  BY WithoutIsMap DEF IInv, CancelStopOrder, TypeOK
<1>3. events' \in Seq(Event)
  BY NewEventType DEF CancelStopOrder, BookUpdated, EventType
<1>4. TypeOK'
  BY <1>2, <1>3 DEF IInv, CancelStopOrder, TypeOK, IsMap, bookVars
<1>5. CallInv'
  BY <1>2 DEF IInv, CancelStopOrder, CanCall, CallInv, Control, TakerIsSound,
              IdsAreUnique, bookVars
<1>6. QED
  BY <1>1, <1>4, <1>5 DEF IInv

LEMMA CancelRestingOrderInv ==
  ASSUME IInv, NEW id \in OrderId, CancelRestingOrder(id)
  PROVE  IInv'
<1> USE DEF IInv
<1> DEFINE side == ordersById[id].side
           price == ordersById[id].priceTicks
           level == levels[side][price]
           rest == level.totalQuantity - ordersById[id].remainingQuantity
<1>1. /\ id \in DOMAIN ordersById
      /\ side \in Side /\ price \in Nat \ {0} /\ price \in DOMAIN levels[side]
      /\ level \in PriceLevel /\ ordersById[id].remainingQuantity \in Nat
  BY LevelOfOrder DEF CancelRestingOrder, BookInv, RestingOrder
<1>2. PICK i \in 1..Len(level.orders) :
        /\ level.orders[i] = id
        /\ levels' = [levels EXCEPT ![side] =
             SetLevel(levels[side], price,
               [orders |-> RemoveFromQueue(level.orders, i), totalQuantity |-> rest])]
  BY DEF CancelRestingOrder
<1>3. ordersById' = Without(ordersById, id)
  BY DEF CancelRestingOrder
<1>4. level.orders \in Seq(OrderId) /\ NoDuplicates(level.orders) /\ rest \in Int
  BY <1>1 DEF BookInv, IndexesAgree, PriceLevel
<1>5. /\ RemoveFromQueue(level.orders, i) \in Seq(OrderId)
      /\ NoDuplicates(RemoveFromQueue(level.orders, i))
      /\ Queued(RemoveFromQueue(level.orders, i)) = Queued(level.orders) \ {id}
  BY <1>2, <1>4, RemoveAtProperties
<1>6. BookInv'
  BY <1>1, <1>2, <1>3, <1>4, <1>5, RemoveFromBook
<1>7. TypeOK'
  <2>1. /\ levels' = [s \in Side |-> levels'[s]]
        /\ \A s \in Side : IsMap(levels'[s], Nat \ {0}, PriceLevel)
    <3> DEFINE new == [orders |-> RemoveFromQueue(level.orders, i), totalQuantity |-> rest]
    <3>1. new \in PriceLevel
      BY <1>4, <1>5 DEF PriceLevel
    <3> HIDE DEF new
    <3>2. IsMap(SetLevel(levels[side], price, new), Nat \ {0}, PriceLevel)
      BY <1>1, <3>1, SetLevelIsMap DEF TypeOK
    <3>3. levels' = [levels EXCEPT ![side] = SetLevel(levels[side], price, new)]
      BY <1>2 DEF new
    <3> HIDE DEF side, price
    <3>4. QED
      BY <1>1, <3>2, <3>3 DEF TypeOK
  <2>2. IsMap(ordersById', OrderId, RestingOrder)
    BY <1>3, WithoutIsMap DEF TypeOK
  <2>3. events' \in Seq(Event)
    <3>1. <<NewEvent("ORDER_CANCELLED", id), BookUpdated>> \in Seq(Event)
      BY NewEventType DEF BookUpdated, EventType
    <3>2. QED
      BY <3>1, StampEventsType DEF CancelRestingOrder, TypeOK
  <2>4. sequence' \in Nat
    BY DEF CancelRestingOrder, TypeOK
  <2>5. /\ outcome' = "ok"
        /\ UNCHANGED <<stopVars, clock, phase, command, taker, trades, batch, eligible,
                       cycles, triggeredEvents>>
    BY DEF CancelRestingOrder
  <2>6. QED
    BY <2>1, <2>2, <2>3, <2>4, <2>5 DEF TypeOK, IsMap, stopVars
<1>8. CallInv'
  BY <1>3 DEF CancelRestingOrder, CanCall, CallInv, Control, TakerIsSound,
              IdsAreUnique, stopVars, Without
<1>9. QED
  BY <1>6, <1>7, <1>8

-----------------------------------------------------------------------------
(* Matching *)

\* The head of a queue of distinct orders leaves all the others.
LEMMA TailProperties ==
  ASSUME NEW queue \in Seq(OrderId), queue # <<>>, NoDuplicates(queue)
  PROVE  /\ Head(queue) \in Queued(queue)
         /\ Tail(queue) \in Seq(OrderId)
         /\ NoDuplicates(Tail(queue))
         /\ Queued(Tail(queue)) = Queued(queue) \ {Head(queue)}
<1>1. /\ Head(queue) = queue[1] /\ Len(queue) \in Nat /\ 1 \in 1..Len(queue)
      /\ Tail(queue) \in Seq(OrderId) /\ Len(Tail(queue)) = Len(queue) - 1
      /\ \A i \in 1..Len(Tail(queue)) : Tail(queue)[i] = queue[i + 1]
  BY HeadTailProperties, EmptySeq
<1> DEFINE rest == Tail(queue)
<1> HIDE DEF rest
<1>2. /\ rest \in Seq(OrderId) /\ Len(rest) = Len(queue) - 1
      /\ \A i \in 1..Len(rest) : rest[i] = queue[i + 1]
  BY <1>1 DEF rest
<1>3. NoDuplicates(rest)
  BY <1>1, <1>2 DEF NoDuplicates
<1>4. Queued(rest) \subseteq Queued(queue) \ {queue[1]}
  BY <1>1, <1>2 DEF NoDuplicates, Queued
<1>5. Queued(queue) \ {queue[1]} \subseteq Queued(rest)
  <2> SUFFICES ASSUME NEW k \in 1..Len(queue), k # 1
               PROVE  \E j \in 1..Len(rest) : rest[j] = queue[k]
    BY DEF Queued
  <2>1. k - 1 \in 1..Len(rest) /\ rest[k - 1] = queue[k]
    BY <1>1, <1>2
  <2>2. QED
    BY <2>1
<1>6. QED
  BY <1>1, <1>2, <1>3, <1>4, <1>5 DEF Queued, rest

\* OrderNode.fill of an order being executed.
LEMMA FillNode ==
  ASSUME NEW order \in Node, NEW quantity \in Nat \ {0},
         quantity <= order.remainingQuantity
  PROVE  /\ Fill(order, quantity) \in Node
         /\ Fill(order, quantity).orderId = order.orderId
         /\ Fill(order, quantity).type = order.type
         /\ Fill(order, quantity).priceTicks = order.priceTicks
         /\ Fill(order, quantity).initialQuantity = order.initialQuantity
         /\ Fill(order, quantity).remainingQuantity = order.remainingQuantity - quantity
         /\ Fill(order, quantity).status = IF order.remainingQuantity = quantity
                                           THEN "FILLED" ELSE "PARTIALLY_FILLED"
<1>1. order.remainingQuantity - quantity \in Nat
  BY DEF Node
<1>2. QED
  BY <1>1 DEF Fill, Node, Status

\* OrderNode.fill of a resting order.
LEMMA FillResting ==
  ASSUME NEW order \in RestingOrder, NEW quantity \in Nat \ {0},
         quantity <= order.remainingQuantity
  PROVE  /\ Fill(order, quantity) \in RestingOrder
         /\ Fill(order, quantity).priceTicks = order.priceTicks
         /\ Fill(order, quantity).status = "FILLED" <=> quantity = order.remainingQuantity
<1>1. order.remainingQuantity - quantity \in Nat
  BY DEF RestingOrder
<1>2. QED
  BY <1>1 DEF Fill, RestingOrder, Status

\* One trade: the quantity fits both orders, so neither goes below zero, and
\* the taker's status follows.
LEMMA MatchOneInv ==
  ASSUME IInv, MatchOne
  PROVE  IInv'
<1> USE DEF IInv
<1> DEFINE side == Opposite(taker.side)
<1>1. /\ taker \in Node /\ taker # NoOrder /\ side \in Side
      /\ taker.remainingQuantity \in Nat \ {0} /\ phase = "match"
  <2>1. phase = "match" /\ taker # NoOrder /\ taker.remainingQuantity > 0
    BY DEF MatchOne, CallInv, Control
  <2>2. taker \in Node
    BY <2>1 DEF TypeOK
  <2>3. side \in Side
    BY DEF Opposite, Side
  <2>4. QED
    BY <2>1, <2>2, <2>3 DEF Node
<1>2. PICK price \in DOMAIN levels[side] :
        LET level == levels[side][price]
            maker == Head(level.orders)
            quantity == Min2(taker.remainingQuantity, ordersById[maker].remainingQuantity)
            resting == Fill(ordersById[maker], quantity)
        IN  /\ taker' = Fill(taker, quantity)
            /\ ordersById' = IF resting.status = "FILLED"
                             THEN Without(ordersById, maker)
                             ELSE Put(ordersById, maker, resting)
            /\ levels' = [levels EXCEPT ![side] = SetLevel(levels[side], price,
                 [orders |-> IF resting.status = "FILLED" THEN Tail(level.orders)
                                                          ELSE level.orders,
                  totalQuantity |-> level.totalQuantity - quantity])]
            /\ trades' = Append(trades, [priceTicks |-> resting.priceTicks,
                 quantity |-> quantity, maker |-> maker, taker |-> taker.orderId])
  BY DEF MatchOne
<1> DEFINE level == levels[side][price]
           queue == level.orders
           maker == Head(queue)
           order == ordersById[maker]
           quantity == Min2(taker.remainingQuantity, order.remainingQuantity)
           resting == Fill(order, quantity)
           total == level.totalQuantity - quantity
<1>3. /\ level \in PriceLevel /\ price \in Nat \ {0}
      /\ queue \in Seq(OrderId) /\ queue # <<>> /\ NoDuplicates(queue)
      /\ Queued(queue) = {o \in DOMAIN ordersById : /\ ordersById[o].side = side
                                                    /\ ordersById[o].priceTicks = price}
  BY <1>1 DEF TypeOK, IsMap, PriceLevel, BookInv, IndexesAgree
<1>4. /\ maker \in Queued(queue)
      /\ Tail(queue) \in Seq(OrderId)
      /\ NoDuplicates(Tail(queue))
      /\ Queued(Tail(queue)) = Queued(queue) \ {maker}
  BY <1>3, TailProperties
<1>5. /\ maker \in DOMAIN ordersById /\ maker \in OrderId
      /\ order.side = side /\ order.priceTicks = price
      /\ order \in RestingOrder
      /\ order.remainingQuantity \in 1..order.initialQuantity
      /\ order.initialQuantity \in Nat
  BY <1>3, <1>4 DEF TypeOK, IsMap, BookInv, RestingIsActive, RestingOrder
<1>6. /\ quantity \in Nat \ {0}
      /\ quantity <= taker.remainingQuantity /\ quantity <= order.remainingQuantity
  BY <1>1, <1>5 DEF Min2
<1>7. total \in Int
  <2>1. level.totalQuantity \in Int
    BY <1>3 DEF PriceLevel
  <2> HIDE DEF level, quantity
  <2>2. QED
    BY <1>6, <2>1
<1>8. /\ taker' = Fill(taker, quantity)
      /\ ordersById' = IF resting.status = "FILLED"
                       THEN Without(ordersById, maker)
                       ELSE Put(ordersById, maker, resting)
      /\ levels' = [levels EXCEPT ![side] = SetLevel(levels[side], price,
           [orders |-> IF resting.status = "FILLED" THEN Tail(queue) ELSE queue,
            totalQuantity |-> total])]
      /\ trades' = Append(trades, [priceTicks |-> resting.priceTicks,
           quantity |-> quantity, maker |-> maker, taker |-> taker.orderId])
  BY <1>2
<1>9. /\ resting.priceTicks = price
      /\ resting.status = "FILLED" <=> quantity = order.remainingQuantity
      /\ resting \in RestingOrder
  <2> HIDE DEF order, quantity
  <2>1. QED
    BY <1>5, <1>6, FillResting
<1> HIDE DEF side, level, queue, maker, order, quantity, resting, total
<1>10. BookInv'
  <2>1. CASE resting.status = "FILLED"
    BY <2>1, <1>3, <1>4, <1>5, <1>7, <1>8, RemoveFromBook DEF queue, level, order
  <2>2. CASE resting.status # "FILLED"
    <3>1. quantity < order.remainingQuantity
      BY <2>2, <1>5, <1>6, <1>9
    <3>2. QED
      BY <2>2, <3>1, <1>5, <1>6, <1>7, <1>8, FillInBook
         DEF queue, level, order, resting
  <2>3. QED
    BY <2>1, <2>2
<1>11. /\ levels' = [s \in Side |-> levels'[s]]
       /\ \A s \in Side : IsMap(levels'[s], Nat \ {0}, PriceLevel)
  <2> DEFINE new == [orders |-> IF resting.status = "FILLED" THEN Tail(queue) ELSE queue,
                     totalQuantity |-> total]
  <2>1. new \in PriceLevel
    BY <1>3, <1>4, <1>7 DEF PriceLevel
  <2>2. levels' = [levels EXCEPT ![side] = SetLevel(levels[side], price, new)]
    BY <1>8
  <2> HIDE DEF new
  <2>3. IsMap(SetLevel(levels[side], price, new), Nat \ {0}, PriceLevel)
    BY <1>1, <1>3, <2>1, SetLevelIsMap DEF TypeOK
  <2>4. QED
    BY <1>1, <2>2, <2>3 DEF TypeOK
<1>12. IsMap(ordersById', OrderId, RestingOrder)
  <2>1. IsMap(ordersById, OrderId, RestingOrder)
    BY DEF TypeOK
  <2>2. IsMap(Without(ordersById, maker), OrderId, RestingOrder)
    BY <2>1, WithoutIsMap
  <2>3. IsMap(Put(ordersById, maker, resting), OrderId, RestingOrder)
    BY <2>1, <1>5, <1>9, PutIsMap
  <2>4. QED
    BY <1>8, <2>2, <2>3
<1>13. DOMAIN ordersById' \subseteq DOMAIN ordersById
  BY <1>5, <1>8 DEF Without, Put
<1>14. /\ taker' \in Node /\ taker' # NoOrder
       /\ taker'.orderId = taker.orderId /\ taker'.type = taker.type
       /\ taker'.priceTicks = taker.priceTicks
       /\ taker'.initialQuantity = taker.initialQuantity
       /\ taker'.remainingQuantity = taker.remainingQuantity - quantity
       /\ taker'.status = IF taker.remainingQuantity = quantity
                          THEN "FILLED" ELSE "PARTIALLY_FILLED"
  <2>1. /\ taker' \in Node
        /\ taker'.orderId = taker.orderId /\ taker'.type = taker.type
        /\ taker'.priceTicks = taker.priceTicks
        /\ taker'.initialQuantity = taker.initialQuantity
        /\ taker'.remainingQuantity = taker.remainingQuantity - quantity
        /\ taker'.status = IF taker.remainingQuantity = quantity
                           THEN "FILLED" ELSE "PARTIALLY_FILLED"
    BY <1>1, <1>6, <1>8, FillNode
  <2>2. QED
    BY <2>1, NoOrderAssumption
<1>15. trades' \in Seq(Trade) /\ Len(trades') = Len(trades) + 1
  <2>1. [priceTicks |-> resting.priceTicks, quantity |-> quantity, maker |-> maker,
         taker |-> taker.orderId] \in Trade
    BY <1>1, <1>3, <1>5, <1>6, <1>9 DEF Trade, Node
  <2>2. trades \in Seq(Trade)
    BY DEF TypeOK
  <2>3. QED
    BY <1>8, <2>1, <2>2, AppendProperties
<1>16. events' \in Seq(Event) /\ triggeredEvents' \in Seq(Event)
  <2>1. <<NewEvent("TRADE_CREATED", taker.orderId)>> \in Seq(Event)
    BY <1>1, NewEventType DEF EventType, Node
  <2>2. QED
    BY <2>1, EmitType DEF MatchOne, TypeOK
<1>17. TypeOK'
  <2>1. batch' \in 0..Len(trades')
    <3>1. batch' = batch /\ batch \in 0..Len(trades) /\ Len(trades) \in Nat
      BY LenProperties DEF MatchOne, TypeOK
    <3>2. QED
      BY <3>1, <1>15
  <2>2. /\ IsMap(stopOrdersById', OrderId, StopOrder)
        /\ lastTradePriceTicks' \in Nat /\ sequence' \in Nat /\ clock' \in Nat
        /\ phase' = phase /\ command' = command /\ eligible' = eligible
        /\ cycles' = cycles /\ outcome' = outcome
    <3>1. UNCHANGED <<stopOrdersById, lastTradePriceTicks, sequence, clock, phase,
                      command, eligible, cycles, outcome>>
      BY DEF MatchOne, stopVars
    <3>2. QED
      BY <3>1 DEF TypeOK
  <2>3. QED
    BY <1>11, <1>12, <1>14, <1>15, <1>16, <2>1, <2>2 DEF TypeOK
<1>18. CallInv'
  <2>1. Control'
    BY <1>14 DEF MatchOne, CallInv, Control
  <2>2. TakerIsSound'
    BY <1>1, <1>6, <1>14 DEF CallInv, TakerIsSound, Node
  <2>3. IdsAreUnique'
    BY <1>1, <1>13, <1>14 DEF MatchOne, CallInv, IdsAreUnique, stopVars
  <2>4. QED
    BY <2>1, <2>2, <2>3 DEF CallInv
<1>19. QED
  BY <1>10, <1>17, <1>18

\* What the taker may rest at crosses nothing, since matching is over.
LEMMA RestTakerBook ==
  ASSUME IInv, phase = "match", MatchingIsOver,
         taker.remainingQuantity > 0, taker.type = "LIMIT", RestTaker
  PROVE  /\ BookInv'
         /\ levels' = [s \in Side |-> levels'[s]]
         /\ \A s \in Side : IsMap(levels'[s], Nat \ {0}, PriceLevel)
         /\ IsMap(ordersById', OrderId, RestingOrder)
         /\ DOMAIN ordersById' = DOMAIN ordersById \cup {taker.orderId}
<1> USE DEF IInv
<1> DEFINE order == [side |-> taker.side, priceTicks |-> taker.priceTicks,
                     initialQuantity |-> taker.initialQuantity,
                     remainingQuantity |-> taker.remainingQuantity,
                     status |-> taker.status, rank |-> clock]
<1>1. /\ taker \in Node /\ taker # NoOrder
      /\ taker.orderId \in OrderId \ DOMAIN ordersById
      /\ taker.side \in Side /\ taker.priceTicks \in Nat \ {0}
      /\ taker.initialQuantity \in Nat \ {0}
      /\ taker.remainingQuantity \in 1..taker.initialQuantity
      /\ taker.status = IF taker.remainingQuantity = taker.initialQuantity
                        THEN "OPEN" ELSE "PARTIALLY_FILLED"
  <2>1. taker # NoOrder /\ taker \in Node
    BY DEF CallInv, Control, TypeOK
  <2>2. QED
    BY <2>1 DEF CallInv, TakerIsSound, IdsAreUnique, Node
<1>2. order \in RestingOrder
  BY <1>1 DEF RestingOrder, Status, TypeOK
<1>3. /\ levels' = [levels EXCEPT ![order.side] =
            AppendToLevel(levels[order.side], order.priceTicks, taker.orderId,
                          order.remainingQuantity)]
      /\ ordersById' = Put(ordersById, taker.orderId, order)
  BY DEF RestTaker
<1>4. \A p \in DOMAIN levels[Opposite(order.side)] :
        IF order.side = "BUY" THEN p > order.priceTicks ELSE p < order.priceTicks
  <2> SUFFICES ASSUME NEW p \in DOMAIN levels[Opposite(taker.side)]
               PROVE  IF taker.side = "BUY" THEN p > taker.priceTicks
                                            ELSE p < taker.priceTicks
    OBVIOUS
  <2>1. ~Accepts(taker, p)
    BY <1>1 DEF MatchingIsOver
  <2>2. p \in Nat
    BY <1>1 DEF TypeOK, IsMap, Opposite, Side
  <2>3. QED
    BY <1>1, <2>1, <2>2 DEF Accepts, Side
<1>5. /\ order.side = taker.side /\ order.priceTicks = taker.priceTicks
      /\ order.remainingQuantity = taker.remainingQuantity
      /\ order.initialQuantity = taker.initialQuantity
      /\ order.status = taker.status
  OBVIOUS
<1> HIDE DEF order
<1>6. BookInv'
  <2> DEFINE id == taker.orderId
             quantity == order.remainingQuantity
  <2>1. /\ id \in OrderId \ DOMAIN ordersById
        /\ quantity \in Int
        /\ order.remainingQuantity \in 1..order.initialQuantity
        /\ order.status = IF order.remainingQuantity = order.initialQuantity
                          THEN "OPEN" ELSE "PARTIALLY_FILLED"
        /\ levels' = [levels EXCEPT ![order.side] =
             AppendToLevel(levels[order.side], order.priceTicks, id, quantity)]
        /\ ordersById' = Put(ordersById, id, order)
    BY <1>1, <1>3, <1>5
  <2> HIDE DEF id, quantity
  <2>2. QED
    BY <2>1, <1>2, <1>4, RestInBook
<1>7. IsMap(ordersById', OrderId, RestingOrder)
  <2>1. IsMap(ordersById, OrderId, RestingOrder)
    BY DEF TypeOK
  <2>2. QED
    BY <2>1, <1>1, <1>2, <1>3, PutIsMap
<1>8. /\ levels' = [s \in Side |-> levels'[s]]
      /\ \A s \in Side : IsMap(levels'[s], Nat \ {0}, PriceLevel)
  <2> DEFINE new == AppendToLevel(levels[order.side], order.priceTicks, taker.orderId,
                                  order.remainingQuantity)
  <2>1. IsMap(levels[order.side], Nat \ {0}, PriceLevel)
    BY <1>1, <1>5 DEF TypeOK
  <2>2. IsMap(new, Nat \ {0}, PriceLevel)
    <3> DEFINE map == levels[order.side]
               price == order.priceTicks
               id == taker.orderId
               quantity == order.remainingQuantity
    <3>1. /\ IsMap(map, Nat \ {0}, PriceLevel) /\ price \in Nat \ {0}
          /\ id \in OrderId /\ quantity \in Int
      BY <2>1, <1>1, <1>5
    <3> HIDE DEF map, price, id, quantity
    <3>2. IsMap(AppendToLevel(map, price, id, quantity), Nat \ {0}, PriceLevel)
      BY <3>1, AppendIsMap
    <3>3. QED
      BY <3>2 DEF map, price, id, quantity
  <2>3. levels' = [levels EXCEPT ![order.side] = new]
    BY <1>3
  <2> HIDE DEF new
  <2>4. QED
    BY <2>2, <2>3, <1>1, <1>5 DEF TypeOK
<1>9. DOMAIN ordersById' = DOMAIN ordersById \cup {taker.orderId}
  BY <1>3 DEF Put
<1>10. QED
  BY <1>6, <1>7, <1>8, <1>9

\* The end of a match: the taker rests or is dropped.
LEMMA EndMatchingInv ==
  ASSUME IInv, EndMatching
  PROVE  IInv'
<1> USE DEF IInv
<1> DEFINE rests == taker.remainingQuantity > 0 /\ taker.type = "LIMIT"
<1>1. /\ phase = "match" /\ MatchingIsOver
      /\ IF rests THEN RestTaker ELSE UNCHANGED bookVars
      /\ Emit(<<FillEvent(taker)>> \o RestedEvents(rests))
      /\ phase' \in {"stops", "trigger"}
      /\ taker' = NoOrder
      /\ UNCHANGED <<stopOrdersById, lastTradePriceTicks, sequence, command, trades,
                     batch, eligible, cycles, outcome>>
      /\ phase' = "stops" <=> cycles = 0
  BY DEF EndMatching, stopVars
<1>2. taker # NoOrder /\ taker \in Node
  BY <1>1 DEF CallInv, Control, TypeOK
<1>3. events' \in Seq(Event) /\ triggeredEvents' \in Seq(Event)
  <2>1. <<FillEvent(taker)>> \in Seq(Event)
    BY <1>2, NewEventType DEF FillEvent, EventType, Node
  <2>2. RestedEvents(rests) \in Seq(Event)
    <3>1. NewEvent("ORDER_RESTED", taker.orderId) \in Event
      BY <1>2, NewEventType DEF EventType, Node
    <3>2. QED
      BY <3>1 DEF RestedEvents
  <2>3. <<FillEvent(taker)>> \o RestedEvents(rests) \in Seq(Event)
    BY <2>1, <2>2, ConcatProperties
  <2>4. QED
    BY <1>1, <2>3, EmitType DEF TypeOK
<1>4. clock' \in Nat
  BY <1>1 DEF RestTaker, bookVars, TypeOK
<1>5. /\ BookInv'
      /\ levels' = [s \in Side |-> levels'[s]]
      /\ \A s \in Side : IsMap(levels'[s], Nat \ {0}, PriceLevel)
      /\ IsMap(ordersById', OrderId, RestingOrder)
      /\ DOMAIN ordersById' \subseteq DOMAIN ordersById \cup {taker.orderId}
  <2>1. CASE rests
    BY <2>1, <1>1, RestTakerBook
  <2>2. CASE ~rests
    <3>1. UNCHANGED <<levels, ordersById>>
      BY <2>2, <1>1 DEF bookVars
    <3>2. BookInv'
      BY <3>1, BookUnchanged
    <3>3. QED
      BY <3>1, <3>2 DEF TypeOK
  <2>3. QED
    BY <2>1, <2>2
<1>6. TypeOK'
  BY <1>1, <1>3, <1>4, <1>5 DEF TypeOK
<1>7. CallInv'
  <2>1. IdsAreUnique'
    BY <1>1, <1>2, <1>5 DEF CallInv, IdsAreUnique
  <2>2. TakerIsSound'
    BY <1>1 DEF TakerIsSound
  <2>3. Control'
    BY <1>1 DEF CallInv, Control
  <2>4. QED
    BY <2>1, <2>2, <2>3 DEF CallInv
<1>8. QED
  BY <1>5, <1>6, <1>7

-----------------------------------------------------------------------------
(* The stop cascade and the end of a call *)

\* What is left of the type invariant when a call ends, whatever its result.
LEMMA EndCallInv ==
  ASSUME IInv, NEW result \in {"ok", "error"}, NEW returned \in Seq(Event),
         EndCall(result, returned), UNCHANGED <<bookVars, lastTradePriceTicks>>,
         sequence' \in Nat, IsMap(stopOrdersById', OrderId, StopOrder),
         DOMAIN stopOrdersById' \subseteq DOMAIN stopOrdersById
  PROVE  IInv'
<1> USE DEF IInv
<1>1. BookInv'
  BY BookUnchanged DEF bookVars
<1>2. TypeOK'
  <2>1. trades' \in Seq(Trade) /\ batch' \in 0..Len(trades')
    BY DEF EndCall
  <2>2. cycles' \in 0..MaxCycles
    BY CyclesAssumption DEF EndCall
  <2>3. UNCHANGED <<levels, ordersById, clock, lastTradePriceTicks>>
    BY DEF bookVars
  <2>4. events' \in Seq(Event) /\ triggeredEvents' \in Seq(Event)
    BY DEF EndCall
  <2>5. /\ phase' = "idle" /\ command' = "none" /\ taker' = NoOrder /\ eligible' = {}
        /\ outcome' = result
    BY DEF EndCall
  <2>6. QED
    BY <2>1, <2>2, <2>3, <2>4, <2>5 DEF TypeOK
<1>3. CallInv'
  BY DEF EndCall, CallInv, Control, TakerIsSound, IdsAreUnique, bookVars
<1>4. QED
  BY <1>1, <1>2, <1>3

\* Control moves from one loop head to the next.
LEMMA LoopHeadInv ==
  ASSUME IInv,
         UNCHANGED <<levels, ordersById, clock, stopOrdersById, lastTradePriceTicks,
                     sequence, command, taker, trades, batch, eligible, cycles, events,
                     triggeredEvents, outcome>>,
         phase # "match", phase' \in {"stops", "finish"}, eligible = {}
  PROVE  IInv'
<1>1. BookInv'
  BY BookUnchanged DEF IInv
<1>2. TypeOK'
  BY DEF IInv, TypeOK
<1>3. CallInv'
  BY DEF IInv, CallInv, Control, TakerIsSound, IdsAreUnique
<1>4. QED
  BY <1>1, <1>2, <1>3 DEF IInv

LEMMA NoNewTradesInv ==
  ASSUME IInv, NoNewTrades
  PROVE  IInv'
  BY LoopHeadInv DEF NoNewTrades, bookVars, stopVars, IInv, CallInv, Control

LEMMA EndCycleInv ==
  ASSUME IInv, EndCycle
  PROVE  IInv'
  BY LoopHeadInv DEF EndCycle, bookVars, stopVars

\* updateTrailingStopOrders keeps a stop order a stop order.
LEMMA UpdateTrailingType ==
  ASSUME NEW stop \in StopOrder, NEW last \in Nat
  PROVE  UpdateTrailing(stop, last) \in StopOrder
<1>1. TrailingTrigger(stop.side, last, stop.trailingAmountTicks) \in Int
  BY TrailingTriggerType DEF StopOrder
<1> DEFINE trigger == TrailingTrigger(stop.side, last, stop.trailingAmountTicks)
<1> HIDE DEF trigger
<1>2. [stop EXCEPT !.watermark = last, !.triggerPriceTicks = trigger] \in StopOrder
  BY <1>1 DEF StopOrder, trigger
<1>3. QED
  BY <1>2 DEF UpdateTrailing, trigger

LEMMA StopCycleInv ==
  ASSUME IInv, StopCycle
  PROVE  IInv'
<1> USE DEF IInv
<1> DEFINE last == trades[Len(trades)].priceTicks
           updated == [id \in DOMAIN stopOrdersById |->
                         UpdateTrailing(stopOrdersById[id], last)]
           due == EligibleStopOrders(updated, last)
<1>1. /\ phase = "stops" /\ batch < Len(trades) /\ cycles < MaxCycles
      /\ lastTradePriceTicks' = last
      /\ stopOrdersById' = updated
      /\ eligible' = due
      /\ phase' = IF due = {} THEN "finish" ELSE "trigger"
      /\ cycles' = cycles + 1
      /\ batch' = Len(trades)
      /\ UNCHANGED <<levels, ordersById, clock, sequence, command, taker, trades,
                     events, triggeredEvents, outcome>>
  BY DEF StopCycle, bookVars
<1>2. last \in Nat
  <2>1. trades \in Seq(Trade) /\ batch \in 0..Len(trades) /\ Len(trades) \in Nat
    BY LenProperties DEF TypeOK
  <2>2. trades[Len(trades)] \in Trade
    BY <1>1, <2>1, ElementOfSeq
  <2>3. QED
    BY <2>2 DEF Trade
<1> HIDE DEF last
<1>3. /\ IsMap(stopOrdersById', OrderId, StopOrder)
      /\ DOMAIN stopOrdersById' = DOMAIN stopOrdersById
  <2>1. /\ DOMAIN stopOrdersById \subseteq OrderId
        /\ \A id \in DOMAIN stopOrdersById : stopOrdersById[id] \in StopOrder
    BY DEF TypeOK, IsMap
  <2>2. \A id \in DOMAIN stopOrdersById :
          UpdateTrailing(stopOrdersById[id], last) \in StopOrder
    BY <1>2, <2>1, UpdateTrailingType
  <2>3. QED
    BY <1>1, <2>1, <2>2 DEF IsMap
<1>4. eligible' \subseteq DOMAIN stopOrdersById'
  BY <1>1 DEF EligibleStopOrders
<1> HIDE DEF updated, due
<1>5. BookInv'
  BY <1>1, BookUnchanged
<1>6. TypeOK'
  <2>1. batch' \in 0..Len(trades') /\ cycles' \in 0..MaxCycles
    BY <1>1, LenProperties, CyclesAssumption DEF TypeOK
  <2>2. eligible' \in SUBSET OrderId
    BY <1>3, <1>4 DEF IsMap
  <2>3. QED
    BY <1>1, <1>2, <1>3, <2>1, <2>2 DEF TypeOK
<1>7. CallInv'
  <2>1. Control'
    <3>1. cycles' # 0
      BY <1>1, CyclesAssumption DEF TypeOK
    <3>2. QED
      BY <1>1, <3>1 DEF CallInv, Control
  <2>2. TakerIsSound'
    BY <1>1 DEF CallInv, TakerIsSound
  <2>3. IdsAreUnique'
    BY <1>1, <1>3, <1>4 DEF CallInv, IdsAreUnique
  <2>4. QED
    BY <2>1, <2>2, <2>3 DEF CallInv
<1>8. QED
  BY <1>5, <1>6, <1>7

LEMMA CycleLimitExceededInv ==
  ASSUME IInv, CycleLimitExceeded
  PROVE  IInv'
<1>1. IsMap(stopOrdersById', OrderId, StopOrder) /\ sequence' \in Nat
  BY DEF IInv, TypeOK, CycleLimitExceeded, Throw, stopVars
<1>2. <<>> \in Seq(Event)
  OBVIOUS
<1>3. QED
  BY <1>1, <1>2, EndCallInv DEF CycleLimitExceeded, Throw, stopVars

\* A triggered stop order hands its id over to the order that it turns into.
LEMMA TriggerStopOrderInv ==
  ASSUME IInv, NEW id \in OrderId, TriggerStopOrder(id)
  PROVE  IInv'
<1> USE DEF IInv
<1> DEFINE stop == stopOrdersById[id]
           node == NewNode(id, stop.side, TriggeredType(stop), stop.priceTicks,
                           stop.quantity)
<1>1. /\ phase = "trigger" /\ id \in eligible
      /\ IsValidNode(TriggeredType(stop), stop.priceTicks, stop.quantity)
      /\ stopOrdersById' = Without(stopOrdersById, id)
      /\ eligible' = eligible \ {id}
      /\ taker' = node
      /\ phase' = "match"
      /\ Emit(<<NewEvent("STOP_ORDER_TRIGGERED", id)>>)
      /\ UNCHANGED <<levels, ordersById, clock, lastTradePriceTicks, sequence, command,
                     trades, batch, cycles, outcome>>
  BY DEF TriggerStopOrder, NextEligible, bookVars
<1>2. id \in DOMAIN stopOrdersById /\ id \notin DOMAIN ordersById
  BY <1>1 DEF CallInv, IdsAreUnique
<1>3. stop \in StopOrder
  BY <1>2 DEF TypeOK, IsMap
<1>4. taker' \in Node /\ taker' # NoOrder
  <2>1. /\ stop.side \in Side /\ stop.priceTicks \in Nat /\ stop.quantity \in Nat
        /\ TriggeredType(stop) \in {"LIMIT", "MARKET"}
    BY <1>3 DEF StopOrder, TriggeredType
  <2>2. node \in Node /\ node # NoOrder
    BY <1>1, <2>1, NewNodeType
  <2>3. QED
    BY <1>1, <2>2
<1>5. /\ IsMap(stopOrdersById', OrderId, StopOrder)
      /\ DOMAIN stopOrdersById' = DOMAIN stopOrdersById \ {id}
  <2>1. IsMap(stopOrdersById, OrderId, StopOrder)
    BY DEF TypeOK
  <2>2. IsMap(Without(stopOrdersById, id), OrderId, StopOrder)
    BY <2>1, WithoutIsMap
  <2>3. QED
    BY <1>1, <2>2 DEF Without
<1>6. events' \in Seq(Event) /\ triggeredEvents' \in Seq(Event)
  <2>1. <<NewEvent("STOP_ORDER_TRIGGERED", id)>> \in Seq(Event)
    BY NewEventType DEF EventType
  <2>2. QED
    BY <1>1, <2>1, EmitType DEF TypeOK
<1>7. BookInv'
  BY <1>1, BookUnchanged
<1>8. TypeOK'
  BY <1>1, <1>4, <1>5, <1>6 DEF TypeOK
<1>9. CallInv'
  <2>1. Control'
    BY <1>1, <1>4 DEF CallInv, Control
  <2>2. TakerIsSound'
    <3>1. stop.quantity \in Nat /\ stop.priceTicks \in Nat
      BY <1>3 DEF StopOrder
    <3>2. QED
      BY <1>1, <3>1 DEF TakerIsSound, NewNode, IsValidNode
  <2>3. IdsAreUnique'
    <3>1. taker'.orderId = id
      BY <1>1 DEF NewNode
    <3>2. QED
      BY <1>1, <1>2, <1>5, <3>1 DEF CallInv, IdsAreUnique
  <2>4. QED
    BY <2>1, <2>2, <2>3 DEF CallInv
<1>10. QED
  BY <1>7, <1>8, <1>9

LEMMA TriggerThrowsInv ==
  ASSUME IInv, NEW id \in OrderId, TriggerThrows(id)
  PROVE  IInv'
<1>1. /\ stopOrdersById' = Without(stopOrdersById, id)
      /\ EndCall("error", <<>>) /\ UNCHANGED <<bookVars, lastTradePriceTicks, sequence>>
  BY DEF TriggerThrows, Throw
<1>2. /\ IsMap(stopOrdersById', OrderId, StopOrder)
      /\ DOMAIN stopOrdersById' \subseteq DOMAIN stopOrdersById
  <2>1. IsMap(stopOrdersById, OrderId, StopOrder)
    BY DEF IInv, TypeOK
  <2>2. IsMap(Without(stopOrdersById, id), OrderId, StopOrder)
    BY <2>1, WithoutIsMap
  <2>3. QED
    BY <1>1, <2>2 DEF Without
<1>3. sequence' \in Nat
  BY <1>1 DEF IInv, TypeOK
<1>4. <<>> \in Seq(Event)
  OBVIOUS
<1>5. QED
  BY <1>1, <1>2, <1>3, <1>4, EndCallInv

LEMMA FinishInv ==
  ASSUME IInv, Finish
  PROVE  IInv'
<1>1. ReturnedEvents \in Seq(Event) /\ Len(ReturnedEvents) \in Nat
  <2> DEFINE list == IF command = "placeLimitOrder"
                     THEN events \o <<BookUpdated>> \o triggeredEvents
                     ELSE events \o triggeredEvents \o <<BookUpdated>>
  <2>1. /\ events \in Seq(Event) /\ triggeredEvents \in Seq(Event)
        /\ <<BookUpdated>> \in Seq(Event)
    BY NewEventType DEF IInv, TypeOK, BookUpdated, EventType
  <2>2. list \in Seq(Event)
    BY <2>1, ConcatProperties
  <2>3. sequence \in Nat
    BY DEF IInv, TypeOK
  <2>4. ReturnedEvents = StampEvents(list)
    BY DEF ReturnedEvents
  <2> HIDE DEF list
  <2>5. QED
    BY <2>2, <2>3, <2>4, StampEventsType, LenProperties
<1>2. /\ EndCall("ok", ReturnedEvents) /\ UNCHANGED <<bookVars, lastTradePriceTicks>>
      /\ stopOrdersById' = stopOrdersById
      /\ sequence' = sequence + Len(ReturnedEvents)
  BY DEF Finish, stopVars
<1>3. sequence' \in Nat /\ IsMap(stopOrdersById', OrderId, StopOrder)
  BY <1>1, <1>2 DEF IInv, TypeOK
<1>4. QED
  BY <1>1, <1>2, <1>3, EndCallInv

-----------------------------------------------------------------------------
(* The theorems *)

LEMMA InitInv == Init => IInv
<1> SUFFICES ASSUME Init PROVE IInv
  OBVIOUS
<1>1. TypeOK
  BY CyclesAssumption DEF Init, TypeOK, IsMap, NoPrice
<1>2. BookInv
  BY DEF Init, BookInv, Uncrossed, IndexesAgree, RestingIsActive, Side
<1>3. CallInv
  BY DEF Init, CallInv, Control, TakerIsSound, IdsAreUnique
<1>4. QED
  BY <1>1, <1>2, <1>3 DEF IInv

LEMMA NextInv == IInv /\ [Next]_vars => IInv'
<1> SUFFICES ASSUME IInv, [Next]_vars PROVE IInv'
  OBVIOUS
<1>1. ASSUME NEW order \in Orders, PlaceLimitOrder(order) PROVE IInv'
  BY <1>1, StartMatchingInv DEF PlaceLimitOrder
<1>2. ASSUME NEW order \in Orders, PlaceMarketOrder(order) PROVE IInv'
  BY <1>2, StartMatchingInv DEF PlaceMarketOrder
<1>3. ASSUME NEW order \in Orders, PlaceStopOrder(order) PROVE IInv'
  <2>1. order.triggerPriceTicks \in Int /\ NoPrice \in Nat
    BY OrderFields DEF NoPrice
  <2>2. QED
    BY <1>3, <2>1, AddStopOrderInv DEF PlaceStopOrder
<1>4. ASSUME NEW order \in Orders, PlaceTrailingStopMarketOrder(order) PROVE IInv'
  <2>1. lastTradePriceTicks \in Nat /\ order.trailingAmountTicks \in Int
    BY OrderFields DEF IInv, TypeOK
  <2>2. TrailingTrigger(order.side, lastTradePriceTicks, order.trailingAmountTicks) \in Int
    BY <2>1, TrailingTriggerType
  <2>3. QED
    BY <1>4, <2>1, <2>2, AddStopOrderInv DEF PlaceTrailingStopMarketOrder
<1>5. ASSUME NEW order \in Orders, RefuseOrder(order) PROVE IInv'
  BY <1>5, RefuseInv DEF RefuseOrder
<1>6. ASSUME NEW id \in OrderId, CancelStopOrder(id) PROVE IInv'
  BY <1>6, CancelStopOrderInv
<1>7. ASSUME NEW id \in OrderId, CancelRestingOrder(id) PROVE IInv'
  BY <1>7, CancelRestingOrderInv
<1>8. ASSUME NEW id \in OrderId, RefuseCancel(id) PROVE IInv'
  BY <1>8, RefuseInv DEF RefuseCancel
<1>9. ASSUME Step PROVE IInv'
  BY <1>9, MatchOneInv, EndMatchingInv, NoNewTradesInv, StopCycleInv,
     CycleLimitExceededInv, TriggerStopOrderInv, TriggerThrowsInv, EndCycleInv, FinishInv
     DEF Step
<1>10. ASSUME UNCHANGED vars PROVE IInv'
  <2>1. BookInv'
    BY <1>10, BookUnchanged DEF IInv, vars
  <2>2. TypeOK'
    BY <1>10 DEF IInv, TypeOK, vars
  <2>3. CallInv'
    BY <1>10 DEF IInv, CallInv, Control, TakerIsSound, IdsAreUnique, vars
  <2>4. QED
    BY <2>1, <2>2, <2>3 DEF IInv
<1>11. QED
  BY <1>1, <1>2, <1>3, <1>4, <1>5, <1>6, <1>7, <1>8, <1>9, <1>10 DEF Next, Call

\* The strengthened invariant holds in every reachable state.
THEOREM Invariance == Spec => []IInv
  BY InitInv, NextInv, PTL DEF Spec

\* Every Map, node, queue and list of the book always has its type.
THEOREM TypeCorrect == Spec => []TypeOK
<1>1. IInv => TypeOK
  BY DEF IInv
<1>2. QED
  BY <1>1, Invariance, PTL

\* The book is never crossed or locked, in the middle of a call either.
THEOREM NeverCrossed == Spec => []Uncrossed
<1>1. IInv => Uncrossed
  BY DEF IInv, BookInv
<1>2. QED
  BY <1>1, Invariance, PTL

\* ordersById and the queues of the price levels always hold the same orders.
THEOREM IndexesAlwaysAgree == Spec => []IndexesAgree
<1>1. IInv => IndexesAgree
  BY DEF IInv, BookInv
<1>2. QED
  BY <1>1, Invariance, PTL

\* Resting orders are active and have something left.
THEOREM RestingAlwaysActive == Spec => []RestingIsActive
<1>1. IInv => RestingIsActive
  BY DEF IInv, BookInv
<1>2. QED
  BY <1>1, Invariance, PTL

\* No id ever names two orders.
THEOREM IdsAlwaysUnique == Spec => []IdsAreUnique
<1>1. IInv => IdsAreUnique
  BY DEF IInv, CallInv
<1>2. QED
  BY <1>1, Invariance, PTL

-----------------------------------------------------------------------------
(* The running totals of the price levels *)

\* The order at (side, price) is in no other level.
LEMMA InOneLevel ==
  ASSUME IndexesAgree, NEW id, NEW s \in Side, NEW p \in DOMAIN levels[s],
         id \in Queued(levels[s][p].orders)
  PROVE  /\ id \in DOMAIN ordersById
         /\ ordersById[id].side = s /\ ordersById[id].priceTicks = p
  BY DEF IndexesAgree

\* The total of the orders of a queue, as the model states it.
LEMMA TotalsAreTotals ==
  /\ TotalsMatch <=> \A side \in Side : \A price \in DOMAIN levels[side] :
                       levels[side][price].totalQuantity =
                         Total(Remaining, Queued(levels[side][price].orders))
  /\ TotalsMatch' <=> \A side \in Side : \A price \in DOMAIN levels'[side] :
                        levels'[side][price].totalQuantity =
                          Total(Remaining', Queued(levels'[side][price].orders))
  BY DEF TotalsMatch, Total, MapThenSumSet, MapThenFoldSet

LEMMA QueueIsFinite ==
  ASSUME NEW queue \in Seq(OrderId)
  PROVE  IsFiniteSet(Queued(queue))
<1>1. Len(queue) \in Nat /\ IsFiniteSet(1..Len(queue))
  BY FS_Interval
<1> DEFINE f == [i \in 1..Len(queue) |-> queue[i]]
<1>2. f \in Surjection(1..Len(queue), Queued(queue))
  BY DEF Surjection, Queued
<1>3. QED
  BY <1>1, <1>2, FS_Surjection

\* The orders of a queue are resting orders, and each has a number left.
LEMMA QueueHasQuantities ==
  ASSUME IInv, NEW side \in Side, NEW price \in DOMAIN levels[side]
  PROVE  /\ Queued(levels[side][price].orders) \subseteq DOMAIN ordersById
         /\ Quantities(Remaining, Queued(levels[side][price].orders))
<1>1. levels[side][price] \in PriceLevel
  BY DEF IInv, TypeOK, IsMap
<1>2. IsFiniteSet(Queued(levels[side][price].orders))
  BY <1>1, QueueIsFinite DEF PriceLevel
<1>3. Queued(levels[side][price].orders) \subseteq DOMAIN ordersById
  BY InOneLevel DEF IInv, BookInv
<1>4. \A id \in DOMAIN ordersById : Remaining[id] \in Int
  BY DEF IInv, TypeOK, IsMap, RestingOrder, Remaining
<1>5. QED
  BY <1>2, <1>3, <1>4 DEF Quantities

\* A step that leaves the book alone leaves the totals alone.
LEMMA TotalsUnchanged ==
  ASSUME TotalsMatch, UNCHANGED <<levels, ordersById>>
  PROVE  TotalsMatch'
  BY TotalsAreTotals DEF Remaining

\* One level changes and its total with it; what the orders of the others have
\* left stays as it is.
LEMMA OneTotalChanges ==
  ASSUME IInv, TotalsMatch, NEW side \in Side, NEW price \in Nat \ {0}, NEW level,
         NEW new, levels' = [levels EXCEPT ![side] = new],
         new = Put(levels[side], price, level) \/ new = Without(levels[side], price),
         level.totalQuantity = Total(Remaining', Queued(level.orders)),
         \A s \in Side : \A p \in DOMAIN levels[s] :
           ~(s = side /\ p = price) =>
             \A id \in Queued(levels[s][p].orders) : Remaining'[id] = Remaining[id]
  PROVE  TotalsMatch'
<1>1. levels = [s \in Side |-> levels[s]]
  BY DEF IInv, TypeOK
<1>2. levels'[side] = new /\ \A s \in Side \ {side} : levels'[s] = levels[s]
  BY <1>1
<1>3. ASSUME NEW s \in Side, NEW p \in DOMAIN levels'[s]
      PROVE  levels'[s][p].totalQuantity = Total(Remaining', Queued(levels'[s][p].orders))
  <2>1. CASE s = side /\ p = price
    <3>1. p \notin DOMAIN Without(levels[side], price)
      BY <2>1 DEF Without
    <3>2. levels'[s][p] = level
      BY <1>2, <1>3, <2>1, <3>1 DEF Put
    <3>3. QED
      BY <3>2
  <2>2. CASE ~(s = side /\ p = price)
    <3>1. p \in DOMAIN levels[s] /\ levels'[s][p] = levels[s][p]
      <4>1. CASE s = side
        BY <4>1, <1>2, <1>3, <2>2 DEF Put, Without
      <4>2. CASE s # side
        BY <4>2, <1>2, <1>3
      <4>3. QED
        BY <4>1, <4>2
    <3>2. Quantities(Remaining, Queued(levels[s][p].orders))
      BY <3>1, QueueHasQuantities
    <3>3. \A id \in Queued(levels[s][p].orders) : Remaining'[id] = Remaining[id]
      BY <3>1, <2>2
    <3>4. Total(Remaining', Queued(levels[s][p].orders))
          = Total(Remaining, Queued(levels[s][p].orders))
      BY <3>2, <3>3, TotalOfOwn
    <3>5. levels[s][p].totalQuantity = Total(Remaining, Queued(levels[s][p].orders))
      BY <3>1, TotalsAreTotals
    <3>6. QED
      BY <3>1, <3>4, <3>5
  <2>3. QED
    BY <2>1, <2>2
<1>4. QED
  BY <1>3, TotalsAreTotals

\* cancelOrder of a resting order takes what it has left off the total of its level.
LEMMA CancelRestingOrderTotals ==
  ASSUME IInv, TotalsMatch, NEW id \in OrderId, CancelRestingOrder(id)
  PROVE  TotalsMatch'
<1> USE DEF IInv
<1> DEFINE side == ordersById[id].side
           price == ordersById[id].priceTicks
           level == levels[side][price]
<1>1. /\ id \in DOMAIN ordersById
      /\ side \in Side /\ price \in Nat \ {0} /\ price \in DOMAIN levels[side]
      /\ level \in PriceLevel
  BY LevelOfOrder DEF CancelRestingOrder, BookInv
<1>2. PICK i \in 1..Len(level.orders) :
        /\ level.orders[i] = id
        /\ levels' = [levels EXCEPT ![side] =
             SetLevel(levels[side], price,
               [orders |-> RemoveFromQueue(level.orders, i),
                totalQuantity |-> level.totalQuantity - ordersById[id].remainingQuantity])]
  BY DEF CancelRestingOrder
<1> DEFINE new == [orders |-> RemoveFromQueue(level.orders, i),
                   totalQuantity |-> level.totalQuantity - ordersById[id].remainingQuantity]
           after == SetLevel(levels[side], price, new)
           left == Queued(level.orders) \ {id}
<1>3. /\ new.orders = RemoveFromQueue(level.orders, i)
      /\ new.totalQuantity = level.totalQuantity - Remaining[id]
      /\ levels' = [levels EXCEPT ![side] = after]
      /\ after = Put(levels[side], price, new) \/ after = Without(levels[side], price)
  BY <1>1, <1>2 DEF SetLevel, Remaining
<1>4. ordersById' = Without(ordersById, id)
  BY DEF CancelRestingOrder
<1>5. /\ level.orders \in Seq(OrderId) /\ NoDuplicates(level.orders)
      /\ id \in Queued(level.orders)
      /\ Queued(level.orders) \subseteq DOMAIN ordersById
      /\ Quantities(Remaining, Queued(level.orders))
      /\ level.totalQuantity = Total(Remaining, Queued(level.orders))
  BY <1>1, <1>2, QueueHasQuantities, TotalsAreTotals DEF PriceLevel, BookInv, IndexesAgree, Queued
<1>6. \A o \in DOMAIN ordersById \ {id} : Remaining'[o] = Remaining[o]
  BY <1>4 DEF Remaining, Without
<1>7. Queued(new.orders) = left
  BY <1>2, <1>3, <1>5, RemoveAtProperties
<1> HIDE DEF side, price, level, new, after
<1>8. new.totalQuantity = Total(Remaining', Queued(new.orders))
  <2>1. /\ Total(Remaining, Queued(level.orders)) = Remaining[id] + Total(Remaining, left)
        /\ Total(Remaining, left) \in Int /\ Remaining[id] \in Int
    BY <1>5, TotalTakes DEF Quantities
  <2>2. Quantities(Remaining, left)
    BY <1>5, FS_Subset DEF Quantities
  <2>3. Total(Remaining', left) = Total(Remaining, left)
    BY <1>5, <1>6, <2>2, TotalOfOwn
  <2>4. QED
    BY <1>3, <1>5, <1>7, <2>1, <2>3
<1>9. \A s \in Side : \A p \in DOMAIN levels[s] :
        ~(s = side /\ p = price) =>
          \A o \in Queued(levels[s][p].orders) : Remaining'[o] = Remaining[o]
  BY <1>6, InOneLevel DEF BookInv, side, price
<1>10. side \in Side /\ price \in Nat \ {0}
  BY <1>1
<1>11. QED
  <2>1. CASE after = Put(levels[side], price, new)
    <3>1. levels' = [levels EXCEPT ![side] = Put(levels[side], price, new)]
      BY <1>3, <2>1
    <3>2. QED
      BY <1>8, <1>9, <1>10, <3>1, OneTotalChanges
  <2>2. CASE after = Without(levels[side], price)
    <3>1. levels' = [levels EXCEPT ![side] = Without(levels[side], price)]
      BY <1>3, <2>2
    <3>2. QED
      BY <1>8, <1>9, <1>10, <3>1, OneTotalChanges
  <2>3. QED
    BY <1>3, <2>1, <2>2

\* A trade takes as much off the total of the level as off the head of its queue.
LEMMA MatchOneTotals ==
  ASSUME IInv, TotalsMatch, MatchOne
  PROVE  TotalsMatch'
<1> USE DEF IInv
<1> DEFINE side == Opposite(taker.side)
<1>1. /\ taker \in Node /\ side \in Side /\ taker.remainingQuantity \in Nat \ {0}
  <2>1. taker # NoOrder /\ taker.remainingQuantity > 0
    BY DEF MatchOne, CallInv, Control
  <2>2. taker \in Node
    BY <2>1 DEF TypeOK
  <2>3. QED
    BY <2>1, <2>2 DEF Node, Opposite, Side
<1>2. PICK price \in DOMAIN levels[side] :
        LET level == levels[side][price]
            maker == Head(level.orders)
            quantity == Min2(taker.remainingQuantity, ordersById[maker].remainingQuantity)
            resting == Fill(ordersById[maker], quantity)
        IN  /\ ordersById' = IF resting.status = "FILLED"
                             THEN Without(ordersById, maker)
                             ELSE Put(ordersById, maker, resting)
            /\ levels' = [levels EXCEPT ![side] = SetLevel(levels[side], price,
                 [orders |-> IF resting.status = "FILLED" THEN Tail(level.orders)
                                                          ELSE level.orders,
                  totalQuantity |-> level.totalQuantity - quantity])]
  BY DEF MatchOne
<1> DEFINE level == levels[side][price]
           queue == level.orders
           maker == Head(queue)
           order == ordersById[maker]
           quantity == Min2(taker.remainingQuantity, order.remainingQuantity)
           resting == Fill(order, quantity)
           new == [orders |-> IF resting.status = "FILLED" THEN Tail(queue) ELSE queue,
                   totalQuantity |-> level.totalQuantity - quantity]
           after == SetLevel(levels[side], price, new)
<1>3. /\ price \in Nat \ {0} /\ queue \in Seq(OrderId) /\ queue # <<>> /\ NoDuplicates(queue)
      /\ level.totalQuantity \in Int
      /\ level.totalQuantity = Total(Remaining, Queued(queue))
      /\ Queued(queue) \subseteq DOMAIN ordersById
      /\ Quantities(Remaining, Queued(queue))
  BY <1>1, QueueHasQuantities, TotalsAreTotals
     DEF TypeOK, IsMap, PriceLevel, BookInv, IndexesAgree
<1>4. /\ maker \in Queued(queue) /\ Queued(Tail(queue)) = Queued(queue) \ {maker}
  BY <1>3, TailProperties
<1>5. /\ maker \in DOMAIN ordersById /\ order \in RestingOrder
      /\ order.side = side /\ order.priceTicks = price
      /\ order.remainingQuantity \in Nat /\ Remaining[maker] = order.remainingQuantity
  <2>1. maker \in DOMAIN ordersById /\ order.side = side /\ order.priceTicks = price
    BY <1>1, <1>4, InOneLevel DEF BookInv
  <2>2. order \in RestingOrder
    BY <2>1 DEF TypeOK, IsMap
  <2>3. QED
    BY <2>1, <2>2 DEF RestingOrder, Remaining
<1>6. quantity \in Nat /\ quantity <= order.remainingQuantity
  BY <1>1, <1>5 DEF Min2
<1>7. /\ ordersById' = IF resting.status = "FILLED"
                       THEN Without(ordersById, maker)
                       ELSE Put(ordersById, maker, resting)
      /\ levels' = [levels EXCEPT ![side] = after]
      /\ new.orders = IF resting.status = "FILLED" THEN Tail(queue) ELSE queue
      /\ new.totalQuantity = level.totalQuantity - quantity
      /\ after = Put(levels[side], price, new) \/ after = Without(levels[side], price)
  BY <1>2 DEF SetLevel
<1>8. /\ resting.remainingQuantity = order.remainingQuantity - quantity
      /\ resting.status = "FILLED" <=> quantity = order.remainingQuantity
  <2> HIDE DEF order, quantity
  <2>1. QED
    BY <1>5, <1>6 DEF Fill, RestingOrder
<1> HIDE DEF side, level, queue, maker, order, quantity, resting, new, after
<1>9. \A o \in DOMAIN ordersById \ {maker} : Remaining'[o] = Remaining[o]
  BY <1>5, <1>7 DEF Remaining, Without, Put
<1>10. \A s \in Side : \A p \in DOMAIN levels[s] :
         ~(s = side /\ p = price) =>
           \A o \in Queued(levels[s][p].orders) : Remaining'[o] = Remaining[o]
  BY <1>5, <1>9, InOneLevel DEF BookInv, order
<1>11. new.totalQuantity = Total(Remaining', Queued(new.orders))
  <2>1. CASE resting.status = "FILLED"
    <3> DEFINE left == Queued(queue) \ {maker}
    <3>1. /\ Total(Remaining, Queued(queue)) = Remaining[maker] + Total(Remaining, left)
          /\ Total(Remaining, left) \in Int
      BY <1>3, <1>4, TotalTakes
    <3>2. Quantities(Remaining, left)
      BY <1>3, FS_Subset DEF Quantities
    <3>3. Total(Remaining', left) = Total(Remaining, left)
      BY <1>3, <1>9, <3>2, TotalOfOwn
    <3>4. Queued(new.orders) = left /\ quantity = Remaining[maker]
      BY <1>4, <1>5, <1>7, <1>8, <2>1
    <3>5. Remaining[maker] \in Int /\ new.totalQuantity = level.totalQuantity - Remaining[maker]
      BY <1>5, <1>7, <3>4
    <3> HIDE DEF left
    <3>6. new.totalQuantity = Total(Remaining, left)
      BY <1>3, <3>1, <3>5
    <3>7. QED
      BY <3>3, <3>4, <3>6
  <2>2. CASE resting.status # "FILLED"
    <3>1. Remaining'[maker] = Remaining[maker] - quantity
      <4>1. maker \in DOMAIN ordersById' /\ ordersById'[maker] = resting
        BY <1>5, <1>7, <2>2 DEF Put
      <4>2. QED
        BY <1>5, <1>8, <4>1 DEF Remaining
    <3>2. Remaining'[maker] \in Int
      BY <1>5, <1>6, <3>1
    <3>3. \A one \in Queued(queue) \ {maker} : Remaining'[one] = Remaining[one]
      BY <1>3, <1>9
    <3>4. /\ Total(Remaining', Queued(queue))
             = (Total(Remaining, Queued(queue)) - Remaining[maker]) + Remaining'[maker]
          /\ Total(Remaining, Queued(queue)) \in Int
      BY <1>3, <1>4, <3>2, <3>3, TotalFollows
    <3>5. QED
      BY <1>3, <1>5, <1>6, <1>7, <2>2, <3>1, <3>4
  <2>3. QED
    BY <2>1, <2>2
<1>12. side \in Side /\ price \in Nat \ {0}
  BY <1>1, <1>3
<1>13. QED
  <2>1. CASE after = Put(levels[side], price, new)
    <3>1. levels' = [levels EXCEPT ![side] = Put(levels[side], price, new)]
      BY <1>7, <2>1
    <3>2. QED
      BY <1>10, <1>11, <1>12, <3>1, OneTotalChanges
  <2>2. CASE after = Without(levels[side], price)
    <3>1. levels' = [levels EXCEPT ![side] = Without(levels[side], price)]
      BY <1>7, <2>2
    <3>2. QED
      BY <1>10, <1>11, <1>12, <3>1, OneTotalChanges
  <2>3. QED
    BY <1>7, <2>1, <2>2

\* An order that rests adds what it has left to the total of its level.
LEMMA EndMatchingTotals ==
  ASSUME IInv, TotalsMatch, EndMatching
  PROVE  TotalsMatch'
<1> USE DEF IInv
<1> DEFINE rests == taker.remainingQuantity > 0 /\ taker.type = "LIMIT"
<1>1. /\ taker.orderId \notin DOMAIN ordersById
      /\ taker.side \in Side /\ taker.remainingQuantity \in Nat
      /\ taker.type = "LIMIT" => taker.priceTicks \in Nat \ {0}
  <2>1. taker \in Node /\ taker # NoOrder
    BY DEF EndMatching, CallInv, Control, TypeOK
  <2>2. QED
    BY <2>1 DEF EndMatching, CallInv, IdsAreUnique, TakerIsSound, Node
<1>2. IF rests THEN RestTaker ELSE UNCHANGED bookVars
  BY DEF EndMatching
<1>3. CASE rests
  <2> DEFINE side == taker.side
             price == taker.priceTicks
             id == taker.orderId
             order == [side |-> taker.side, priceTicks |-> taker.priceTicks,
                       initialQuantity |-> taker.initialQuantity,
                       remainingQuantity |-> taker.remainingQuantity,
                       status |-> taker.status, rank |-> clock]
             old == IF price \in DOMAIN levels[side] THEN levels[side][price]
                    ELSE [orders |-> <<>>, totalQuantity |-> 0]
             new == [orders |-> Append(old.orders, id),
                     totalQuantity |-> old.totalQuantity + taker.remainingQuantity]
             after == Put(levels[side], price, new)
  <2>1. /\ side \in Side /\ price \in Nat \ {0}
        /\ levels' = [levels EXCEPT ![side] = after]
        /\ ordersById' = Put(ordersById, id, order)
        /\ order.remainingQuantity = taker.remainingQuantity
        /\ new.orders = Append(old.orders, id)
        /\ new.totalQuantity = old.totalQuantity + taker.remainingQuantity
    BY <1>1, <1>2, <1>3 DEF RestTaker, AppendToLevel
  <2> HIDE DEF order
  <2>2. /\ Remaining'[id] = taker.remainingQuantity
        /\ \A o \in DOMAIN ordersById : Remaining'[o] = Remaining[o]
    BY <1>1, <2>1 DEF Put, Remaining
  <2>3. /\ old.orders \in Seq(OrderId)
        /\ Queued(old.orders) \subseteq DOMAIN ordersById
        /\ Quantities(Remaining, Queued(old.orders))
        /\ old.totalQuantity = Total(Remaining, Queued(old.orders))
    <3>1. CASE price \in DOMAIN levels[side]
      <4>1. old = levels[side][price] /\ levels[side][price] \in PriceLevel
        BY <2>1, <3>1 DEF TypeOK, IsMap
      <4> HIDE DEF old
      <4>2. QED
        BY <2>1, <3>1, <4>1, QueueHasQuantities, TotalsAreTotals DEF PriceLevel
    <3>2. CASE price \notin DOMAIN levels[side]
      <4>1. old.orders = <<>> /\ old.totalQuantity = 0
        BY <3>2
      <4>2. <<>> \in Seq(OrderId) /\ Queued(<<>>) = {}
        BY DEF Queued
      <4>3. Quantities(Remaining, {})
        BY FS_EmptySet DEF Quantities
      <4>4. Total(Remaining, {}) = 0
        BY <4>3, TotalUnfolds
      <4> HIDE DEF old
      <4>5. QED
        BY <4>1, <4>2, <4>3, <4>4
    <3>3. QED
      BY <3>1, <3>2
  <2> HIDE DEF old, new, side, price, id, after
  <2>4. Queued(new.orders) = Queued(old.orders) \cup {id}
    BY <2>1, <2>3, AppendProperties DEF Queued
  <2>5. new.totalQuantity = Total(Remaining', Queued(new.orders))
    <3>1. /\ Quantities(Remaining', Queued(old.orders))
          /\ Total(Remaining', Queued(old.orders)) = Total(Remaining, Queued(old.orders))
      <4>1. \A o \in Queued(old.orders) : Remaining'[o] = Remaining[o]
        BY <2>2, <2>3
      <4>2. QED
        BY <2>3, <4>1, TotalOfOwn DEF Quantities
    <3>2. id \notin Queued(old.orders) /\ Remaining'[id] \in Int
      BY <1>1, <2>2, <2>3 DEF id
    <3>3. Total(Remaining', Queued(old.orders) \cup {id})
          = Total(Remaining', Queued(old.orders)) + Remaining'[id]
      BY <3>1, <3>2, TotalAdds
    <3>4. QED
      BY <2>1, <2>2, <2>3, <2>4, <3>1, <3>3
  <2>6. \A s \in Side : \A p \in DOMAIN levels[s] :
          ~(s = side /\ p = price) =>
            \A o \in Queued(levels[s][p].orders) : Remaining'[o] = Remaining[o]
    BY <2>2, InOneLevel DEF BookInv
  <2>7. side \in Side /\ price \in Nat \ {0} /\ levels' = [levels EXCEPT ![side] = after]
    BY <2>1
  <2>8. after = Put(levels[side], price, new)
    BY DEF after
  <2>9. QED
    BY <2>5, <2>6, <2>7, <2>8, OneTotalChanges
<1>4. CASE ~rests
  BY <1>2, <1>4, TotalsUnchanged DEF bookVars
<1>5. QED
  BY <1>3, <1>4

LEMMA NextTotals == IInv /\ TotalsMatch /\ [Next]_vars => TotalsMatch'
<1> SUFFICES ASSUME IInv, TotalsMatch, [Next]_vars PROVE TotalsMatch'
  OBVIOUS
<1>1. CASE MatchOne
  BY <1>1, MatchOneTotals
<1>2. CASE EndMatching
  BY <1>2, EndMatchingTotals
<1>3. ASSUME NEW id \in OrderId, CancelRestingOrder(id) PROVE TotalsMatch'
  BY <1>3, CancelRestingOrderTotals
<1>4. CASE UNCHANGED vars
  BY <1>4, TotalsUnchanged DEF vars
<1>5. ASSUME Call, \A id \in OrderId : ~CancelRestingOrder(id)
      PROVE  TotalsMatch'
  <2>1. UNCHANGED <<levels, ordersById>>
    BY <1>5 DEF Call, PlaceLimitOrder, PlaceMarketOrder, StartMatching, PlaceStopOrder,
         PlaceTrailingStopMarketOrder, AddStopOrder, RefuseOrder, Refuse,
         CancelStopOrder, RefuseCancel, bookVars
  <2>2. QED
    BY <2>1, TotalsUnchanged
<1>6. ASSUME Step, ~MatchOne, ~EndMatching
      PROVE  TotalsMatch'
  <2>1. UNCHANGED <<levels, ordersById>>
    BY <1>6 DEF Step, NoNewTrades, StopCycle, EndCycle, CycleLimitExceeded, Finish,
         TriggerThrows, TriggerStopOrder, Throw, EndCall, bookVars
  <2>2. QED
    BY <2>1, TotalsUnchanged
<1>7. QED
  BY <1>1, <1>2, <1>3, <1>4, <1>5, <1>6 DEF Next

\* The running total of every price level is always the sum of what its orders
\* have left (append, decreaseTotalQuantity, remove), so that the decrease with
\* which a trade follows a fill is never refused.
THEOREM TotalsAlwaysMatch == Spec => []TotalsMatch
<1>1. Init => IInv /\ TotalsMatch
  BY InitInv DEF Init, TotalsMatch
<1>2. IInv /\ TotalsMatch /\ [Next]_vars => IInv' /\ TotalsMatch'
  BY NextInv, NextTotals
<1>3. QED
  BY <1>1, <1>2, PTL DEF Spec

-----------------------------------------------------------------------------
(* The cascade of stop orders: what each loop head knows about those that are due *)

\* The pending stop orders that the last trade price makes due.
Due == {id \in DOMAIN stopOrdersById :
          IsEligible(stopOrdersById[id], lastTradePriceTicks)}

\* Nothing is due once a cycle has triggered its list, and the last trade price
\* is that of the batch the cycle began with.
CascadeInv ==
  /\ EligibleIsCurrent
  /\ phase \in {"stops", "finish"} /\ cycles > 0 => Due = {}
  /\ phase = "finish" => batch = Len(trades)
  /\ phase = "trigger" => cycles > 0
  /\ phase = "idle" => cycles = 0
  /\ cycles = 0 => batch = 0
  /\ batch > 0 => lastTradePriceTicks = trades[batch].priceTicks

SInv == IInv /\ CascadeInv

\* A call that starts at idle has run no cycle yet.
LEMMA CallCascade ==
  ASSUME SInv, Call
  PROVE  CascadeInv'
<1>1. /\ phase = "idle" /\ phase' \in {"idle", "match"}
      /\ UNCHANGED <<cycles, batch, trades, lastTradePriceTicks>>
  BY DEF Call, PlaceLimitOrder, PlaceMarketOrder, StartMatching, PlaceStopOrder,
         PlaceTrailingStopMarketOrder, AddStopOrder, RefuseOrder, Refuse,
         CancelStopOrder, CancelRestingOrder, RefuseCancel, CanCall, stopVars
<1>2. cycles = 0 /\ batch = 0
  BY <1>1 DEF SInv, CascadeInv
<1>3. QED
  BY <1>1, <1>2 DEF CascadeInv, EligibleIsCurrent

\* A call that ends leaves no cycle behind.
LEMMA EndCallCascade ==
  ASSUME NEW result, NEW returned, EndCall(result, returned)
  PROVE  CascadeInv'
  BY DEF EndCall, CascadeInv, EligibleIsCurrent

\* A trade touches neither the stop orders nor the last trade price.
LEMMA MatchOneCascade ==
  ASSUME SInv, MatchOne
  PROVE  CascadeInv'
<1>1. /\ phase = "match"
      /\ UNCHANGED <<stopOrdersById, lastTradePriceTicks, phase, batch, eligible, cycles>>
      /\ \E trade : trades' = Append(trades, trade)
  BY DEF MatchOne, stopVars
<1>2. trades \in Seq(Trade) /\ trades' \in Seq(Trade) /\ batch \in 0..Len(trades)
  BY MatchOneInv DEF SInv, IInv, TypeOK
<1>3. batch > 0 => trades'[batch] = trades[batch]
  BY <1>1, <1>2
<1>4. QED
  BY <1>1, <1>3 DEF SInv, CascadeInv, EligibleIsCurrent

LEMMA EndMatchingCascade ==
  ASSUME SInv, EndMatching
  PROVE  CascadeInv'
<1>1. /\ phase = "match" /\ phase' = IF cycles = 0 THEN "stops" ELSE "trigger"
      /\ UNCHANGED <<stopOrdersById, lastTradePriceTicks, trades, batch, eligible, cycles>>
  BY DEF EndMatching, stopVars
<1>2. cycles \in Nat
  BY CyclesAssumption DEF SInv, IInv, TypeOK
<1>3. QED
  BY <1>1, <1>2 DEF SInv, CascadeInv, EligibleIsCurrent

LEMMA NoNewTradesCascade ==
  ASSUME SInv, NoNewTrades
  PROVE  CascadeInv'
<1>1. /\ phase = "stops" /\ batch = Len(trades) /\ phase' = "finish"
      /\ UNCHANGED <<stopOrdersById, lastTradePriceTicks, trades, batch, eligible, cycles>>
  BY DEF NoNewTrades, stopVars
<1>2. QED
  BY <1>1 DEF SInv, CascadeInv, EligibleIsCurrent, Due

\* The list is taken under the price it is then used with.
LEMMA StopCycleCascade ==
  ASSUME SInv, StopCycle
  PROVE  CascadeInv'
<1> DEFINE last == trades[Len(trades)].priceTicks
           updated == [id \in DOMAIN stopOrdersById |->
                         UpdateTrailing(stopOrdersById[id], last)]
           due == EligibleStopOrders(updated, last)
<1>1. /\ lastTradePriceTicks' = last /\ stopOrdersById' = updated /\ eligible' = due
      /\ phase' = IF due = {} THEN "finish" ELSE "trigger"
      /\ cycles' = cycles + 1 /\ batch' = Len(trades) /\ trades' = trades
  BY DEF StopCycle
<1>2. due = Due'
  BY <1>1 DEF Due, EligibleStopOrders
<1>3. cycles' > 0
  BY <1>1, CyclesAssumption DEF SInv, IInv, TypeOK
<1>4. batch' > 0 => lastTradePriceTicks' = trades'[batch'].priceTicks
  BY <1>1
<1> HIDE DEF last, updated, due
<1>5. QED
  BY <1>1, <1>2, <1>3, <1>4 DEF CascadeInv, EligibleIsCurrent, Due

\* Each trigger takes its order out of the list and out of the Map.
LEMMA TriggerStopOrderCascade ==
  ASSUME SInv, NEW id \in OrderId, TriggerStopOrder(id)
  PROVE  CascadeInv'
<1>1. /\ phase = "trigger" /\ phase' = "match"
      /\ stopOrdersById' = Without(stopOrdersById, id)
      /\ eligible' = eligible \ {id}
      /\ UNCHANGED <<lastTradePriceTicks, trades, batch, cycles>>
  BY DEF TriggerStopOrder
<1>2. eligible = Due
  BY <1>1 DEF SInv, CascadeInv, EligibleIsCurrent, Due
<1>3. Due' = Due \ {id}
  BY <1>1 DEF Due, Without
<1>4. QED
  BY <1>1, <1>2, <1>3 DEF SInv, CascadeInv, EligibleIsCurrent, Due

LEMMA EndCycleCascade ==
  ASSUME SInv, EndCycle
  PROVE  CascadeInv'
<1>1. /\ phase = "trigger" /\ eligible = {} /\ phase' = "stops"
      /\ UNCHANGED <<stopOrdersById, lastTradePriceTicks, trades, batch, eligible, cycles>>
  BY DEF EndCycle, stopVars
<1>2. Due = {}
  BY <1>1 DEF SInv, CascadeInv, EligibleIsCurrent, Due
<1>3. QED
  BY <1>1, <1>2 DEF SInv, CascadeInv, EligibleIsCurrent, Due

LEMMA InitCascade == Init => CascadeInv
  BY DEF Init, CascadeInv, EligibleIsCurrent

LEMMA NextCascade == SInv /\ [Next]_vars => CascadeInv'
<1> SUFFICES ASSUME SInv, [Next]_vars PROVE CascadeInv'
  OBVIOUS
<1>1. CASE Call
  BY <1>1, CallCascade
<1>2. CASE Step
  <2>1. CASE CycleLimitExceeded \/ Finish \/ \E id \in OrderId : TriggerThrows(id)
    BY <2>1, EndCallCascade DEF CycleLimitExceeded, Finish, TriggerThrows, Throw
  <2>2. QED
    BY <1>2, <2>1, MatchOneCascade, EndMatchingCascade, NoNewTradesCascade,
       StopCycleCascade, TriggerStopOrderCascade, EndCycleCascade DEF Step
<1>3. CASE UNCHANGED vars
  BY <1>3 DEF SInv, CascadeInv, EligibleIsCurrent, Due, vars
<1>4. QED
  BY <1>1, <1>2, <1>3 DEF Next

THEOREM CascadeInvariance == Spec => []SInv
<1>1. Init => SInv
  BY InitInv, InitCascade DEF SInv
<1>2. SInv /\ [Next]_vars => SInv'
  BY NextInv, NextCascade DEF SInv
<1>3. QED
  BY <1>1, <1>2, PTL DEF Spec

\* The list of eligible stop orders never goes stale while it is used.
THEOREM EligibleAlwaysCurrent == Spec => []EligibleIsCurrent
<1>1. SInv => EligibleIsCurrent
  BY DEF SInv, CascadeInv
<1>2. QED
  BY <1>1, CascadeInvariance, PTL

\* A call that traded returns only when no stop order is due any more.
THEOREM CascadeAlwaysSettles == Spec => []CascadeSettled
<1>1. SInv => CascadeSettled
  <2> SUFFICES ASSUME SInv, phase = "finish", trades # <<>>
               PROVE  Due = {} /\ lastTradePriceTicks = trades[Len(trades)].priceTicks
    BY DEF CascadeSettled, Due
  <2>1. batch = Len(trades) /\ Len(trades) \in Nat \ {0}
    BY EmptySeq DEF SInv, IInv, TypeOK, CascadeInv
  <2>2. cycles \in Nat /\ cycles # 0
    BY <2>1, CyclesAssumption DEF SInv, IInv, TypeOK, CascadeInv
  <2>3. QED
    BY <2>1, <2>2 DEF SInv, CascadeInv
<1>2. QED
  BY <1>1, CascadeInvariance, PTL

\* The last trade price a call leaves is that of the cascade's last trade.
THEOREM LastPriceAlwaysLastTrade == Spec => []LastPriceIsLastTrade
<1>1. SInv => LastPriceIsLastTrade
  <2> SUFFICES ASSUME SInv, phase = "finish", trades # <<>>
               PROVE  lastTradePriceTicks = trades[Len(trades)].priceTicks
    BY DEF LastPriceIsLastTrade
  <2>1. batch = Len(trades) /\ Len(trades) \in Nat \ {0}
    BY EmptySeq DEF SInv, IInv, TypeOK, CascadeInv
  <2>2. QED
    BY <2>1 DEF SInv, CascadeInv
<1>2. QED
  BY <1>1, CascadeInvariance, PTL
-----------------------------------------------------------------------------
(* Trailing stop orders *)

Trails(stop, last) ==
  stop.type = "TRAILING_STOP_MARKET" =>
    /\ ~Better(stop.side, stop.watermark, last)
    /\ stop.triggerPriceTicks =
         TrailingTrigger(stop.side, stop.watermark, stop.trailingAmountTicks)

\* The trigger moves the way that protects the owner, if it moves.
Ratchets(side, old, new) == IF side = "SELL" THEN new >= old ELSE new <= old

\* What updateTrailingStopOrders does to one stop order.
LEMMA UpdateTrailingTrails ==
  ASSUME NEW stop \in StopOrder, NEW old \in Nat, NEW last \in Nat, Trails(stop, old)
  PROVE  /\ Trails(UpdateTrailing(stop, last), last)
         /\ Ratchets(stop.side, stop.triggerPriceTicks,
                     UpdateTrailing(stop, last).triggerPriceTicks)
<1>1. /\ stop.side \in Side /\ stop.watermark \in Nat
      /\ stop.trailingAmountTicks \in Int /\ stop.triggerPriceTicks \in Int
  BY DEF StopOrder
<1>2. CASE stop.type = "TRAILING_STOP_MARKET" /\ Better(stop.side, stop.watermark, last)
  <2> DEFINE trigger == TrailingTrigger(stop.side, last, stop.trailingAmountTicks)
             new == UpdateTrailing(stop, last)
  <2>1. new = [stop EXCEPT !.watermark = last, !.triggerPriceTicks = trigger]
    BY <1>2 DEF UpdateTrailing
  <2>2. /\ new.side = stop.side /\ new.watermark = last
        /\ new.trailingAmountTicks = stop.trailingAmountTicks
        /\ new.triggerPriceTicks = trigger
    BY <2>1 DEF StopOrder
  <2>3. Ratchets(stop.side, stop.triggerPriceTicks, trigger)
    BY <1>1, <1>2 DEF Trails, Ratchets, TrailingTrigger, Better, Side
  <2> HIDE DEF new
  <2>4. Trails(new, last)
    BY <1>1, <2>2 DEF Trails, Better, Side
  <2>5. QED
    BY <2>2, <2>3, <2>4 DEF new
<1>3. CASE ~(stop.type = "TRAILING_STOP_MARKET" /\ Better(stop.side, stop.watermark, last))
  <2>1. UpdateTrailing(stop, last) = stop
    BY <1>3 DEF UpdateTrailing
  <2>2. QED
    BY <1>1, <1>3, <2>1 DEF Trails, Ratchets
<1>4. QED
  BY <1>2, <1>3

LEMMA StopCycleTrails ==
  ASSUME IInv, TrailsTheMarket, StopCycle
  PROVE  /\ TrailsTheMarket'
         /\ \A id \in DOMAIN stopOrdersById \cap DOMAIN stopOrdersById' :
              Ratchets(stopOrdersById[id].side, stopOrdersById[id].triggerPriceTicks,
                       stopOrdersById'[id].triggerPriceTicks)
<1> DEFINE last == trades[Len(trades)].priceTicks
<1>1. /\ lastTradePriceTicks' = last
      /\ stopOrdersById' = [id \in DOMAIN stopOrdersById |->
                              UpdateTrailing(stopOrdersById[id], last)]
      /\ batch < Len(trades)
  BY DEF StopCycle
<1>2. last \in Nat
  <2>1. trades \in Seq(Trade) /\ batch \in 0..Len(trades) /\ Len(trades) \in Nat
    BY LenProperties DEF IInv, TypeOK
  <2>2. trades[Len(trades)] \in Trade
    BY <1>1, <2>1, ElementOfSeq
  <2>3. QED
    BY <2>2 DEF Trade
<1> HIDE DEF last
<1>3. lastTradePriceTicks \in Nat
      /\ \A id \in DOMAIN stopOrdersById : stopOrdersById[id] \in StopOrder
  BY DEF IInv, TypeOK, IsMap
<1>4. \A id \in DOMAIN stopOrdersById : Trails(stopOrdersById[id], lastTradePriceTicks)
  BY DEF TrailsTheMarket, Trails
<1>5. \A id \in DOMAIN stopOrdersById :
        /\ Trails(stopOrdersById'[id], last)
        /\ Ratchets(stopOrdersById[id].side, stopOrdersById[id].triggerPriceTicks,
                    stopOrdersById'[id].triggerPriceTicks)
  BY <1>1, <1>2, <1>3, <1>4, UpdateTrailingTrails
<1>6. QED
  BY <1>1, <1>5 DEF TrailsTheMarket, Trails

\* A new stop order starts from the last trade price.
LEMMA PlaceTrailingTrails ==
  ASSUME IInv, TrailsTheMarket, NEW order \in Orders, PlaceTrailingStopMarketOrder(order)
  PROVE  TrailsTheMarket'
<1>1. /\ lastTradePriceTicks' = lastTradePriceTicks
      /\ IsAvailable(order.orderId)
  BY DEF PlaceTrailingStopMarketOrder, AddStopOrder
<1> DEFINE trigger == TrailingTrigger(order.side, lastTradePriceTicks,
                                      order.trailingAmountTicks)
           stop == [side |-> order.side, type |-> order.type,
                    priceTicks |-> order.priceTicks, triggerPriceTicks |-> trigger,
                    trailingAmountTicks |-> order.trailingAmountTicks,
                    watermark |-> lastTradePriceTicks, quantity |-> order.quantity,
                    rank |-> clock]
<1>2. stopOrdersById' = Put(stopOrdersById, order.orderId, stop)
  BY DEF PlaceTrailingStopMarketOrder, AddStopOrder
<1>3. Trails(stop, lastTradePriceTicks)
  <2>1. lastTradePriceTicks \in Nat
    BY DEF IInv, TypeOK
  <2>2. ~Better(order.side, lastTradePriceTicks, lastTradePriceTicks)
    BY <2>1 DEF Better
  <2>3. QED
    BY <2>2 DEF Trails
<1> HIDE DEF stop
<1>4. \A id \in DOMAIN stopOrdersById' :
        stopOrdersById'[id] = stop \/ (/\ id \in DOMAIN stopOrdersById
                                      /\ stopOrdersById'[id] = stopOrdersById[id])
  BY <1>2 DEF Put
<1>5. QED
  BY <1>1, <1>3, <1>4 DEF TrailsTheMarket, Trails

LEMMA PlaceStopTrails ==
  ASSUME TrailsTheMarket, NEW order \in Orders, PlaceStopOrder(order)
  PROVE  TrailsTheMarket'
<1> DEFINE stop == [side |-> order.side, type |-> order.type,
                    priceTicks |-> order.priceTicks,
                    triggerPriceTicks |-> order.triggerPriceTicks,
                    trailingAmountTicks |-> order.trailingAmountTicks,
                    watermark |-> NoPrice, quantity |-> order.quantity, rank |-> clock]
<1>1. /\ lastTradePriceTicks' = lastTradePriceTicks
      /\ stopOrdersById' = Put(stopOrdersById, order.orderId, stop)
      /\ order.type \in {"STOP_MARKET", "STOP_LIMIT"}
  BY DEF PlaceStopOrder, AddStopOrder
<1>2. stop.type # "TRAILING_STOP_MARKET"
  BY <1>1
<1> HIDE DEF stop
<1>3. \A id \in DOMAIN stopOrdersById' :
        stopOrdersById'[id] = stop \/ (/\ id \in DOMAIN stopOrdersById
                                      /\ stopOrdersById'[id] = stopOrdersById[id])
  BY <1>1 DEF Put
<1>4. QED
  BY <1>1, <1>2, <1>3 DEF TrailsTheMarket

\* Every other step leaves the stop orders as they are or drops one.
LosesStops ==
  /\ UNCHANGED lastTradePriceTicks
  /\ \/ UNCHANGED stopOrdersById
     \/ \E id \in OrderId : stopOrdersById' = Without(stopOrdersById, id)

LEMMA OtherStepsLoseStops ==
  ASSUME [Next]_vars
  PROVE  \/ LosesStops
         \/ StopCycle
         \/ \E order \in Orders :
              PlaceStopOrder(order) \/ PlaceTrailingStopMarketOrder(order)
<1>1. CASE Call
  <2>1. ASSUME NEW order \in Orders,
               PlaceLimitOrder(order) \/ PlaceMarketOrder(order) \/ RefuseOrder(order)
        PROVE  LosesStops
    BY <2>1 DEF PlaceLimitOrder, PlaceMarketOrder, StartMatching, RefuseOrder, Refuse,
                stopVars, LosesStops
  <2>2. ASSUME NEW id \in OrderId,
               CancelStopOrder(id) \/ CancelRestingOrder(id) \/ RefuseCancel(id)
        PROVE  LosesStops
    BY <2>2 DEF CancelStopOrder, CancelRestingOrder, RefuseCancel, Refuse, stopVars,
                LosesStops
  <2>3. QED
    BY <1>1, <2>1, <2>2 DEF Call
<1>2. CASE Step
  <2>1. CASE MatchOne \/ EndMatching \/ NoNewTrades \/ CycleLimitExceeded
             \/ EndCycle \/ Finish
    BY <2>1 DEF MatchOne, EndMatching, NoNewTrades, CycleLimitExceeded, EndCycle,
                Finish, stopVars, LosesStops
  <2>2. ASSUME NEW id \in OrderId, TriggerStopOrder(id) \/ TriggerThrows(id)
        PROVE  LosesStops
    BY <2>2 DEF TriggerStopOrder, TriggerThrows, LosesStops
  <2>3. QED
    BY <1>2, <2>1, <2>2 DEF Step
<1>3. CASE UNCHANGED vars
  BY <1>3 DEF vars, LosesStops
<1>4. QED
  BY <1>1, <1>2, <1>3 DEF Next

LEMMA LosingStopsTrails ==
  ASSUME TrailsTheMarket, LosesStops
  PROVE  TrailsTheMarket'
  BY DEF LosesStops, TrailsTheMarket, Without

LEMMA NextTrails == IInv /\ TrailsTheMarket /\ [Next]_vars => TrailsTheMarket'
  BY OtherStepsLoseStops, LosingStopsTrails, StopCycleTrails, PlaceStopTrails,
     PlaceTrailingTrails

\* Pending trailing stop orders have followed the market to its last trade.
THEOREM AlwaysTrailsTheMarket == Spec => []TrailsTheMarket
<1>1. Init => TrailsTheMarket
  BY DEF Init, TrailsTheMarket
<1>2. QED
  BY <1>1, NextTrails, Invariance, PTL DEF Spec

\* What a step does to the triggers of the stop orders that stay.
StepRatchets ==
  \A id \in DOMAIN stopOrdersById \cap DOMAIN stopOrdersById' :
    Ratchets(stopOrdersById[id].side, stopOrdersById[id].triggerPriceTicks,
             stopOrdersById'[id].triggerPriceTicks)

LEMMA UnchangedRatchets ==
  ASSUME IInv,
         \A id \in DOMAIN stopOrdersById \cap DOMAIN stopOrdersById' :
           stopOrdersById'[id].triggerPriceTicks = stopOrdersById[id].triggerPriceTicks
  PROVE  StepRatchets
<1>1. \A id \in DOMAIN stopOrdersById : stopOrdersById[id].triggerPriceTicks \in Int
  BY DEF IInv, TypeOK, IsMap, StopOrder
<1>2. QED
  BY <1>1 DEF StepRatchets, Ratchets

LEMMA NextRatchets ==
  ASSUME IInv, TrailsTheMarket, [Next]_vars
  PROVE  StepRatchets
<1>1. CASE StopCycle
  BY <1>1, StopCycleTrails DEF StepRatchets
<1>2. CASE LosesStops
  BY <1>2, UnchangedRatchets DEF LosesStops, Without
<1>3. ASSUME NEW order \in Orders,
             PlaceStopOrder(order) \/ PlaceTrailingStopMarketOrder(order)
      PROVE  StepRatchets
  <2>1. /\ order.orderId \notin DOMAIN stopOrdersById
        /\ \E stop : stopOrdersById' = Put(stopOrdersById, order.orderId, stop)
    BY <1>3 DEF PlaceStopOrder, PlaceTrailingStopMarketOrder, AddStopOrder, IsAvailable
  <2>2. QED
    BY <2>1, UnchangedRatchets DEF Put
<1>4. QED
  BY <1>1, <1>2, <1>3, OtherStepsLoseStops

LEMMA RatchetsAsStated ==
  StepRatchets => [\A id \in DOMAIN stopOrdersById \cap DOMAIN stopOrdersById' :
       LET old == stopOrdersById[id].triggerPriceTicks
           new == stopOrdersById'[id].triggerPriceTicks
       IN  IF stopOrdersById[id].side = "SELL" THEN new >= old ELSE new <= old]_vars
  BY DEF StepRatchets, Ratchets

\* No step ever moves a pending stop order's trigger away from the market.
THEOREM TriggersAlwaysRatchet == Spec => TriggerRatchets
<1>1. IInv /\ TrailsTheMarket /\ [Next]_vars => StepRatchets
  BY NextRatchets
<1>2. QED
  BY <1>1, RatchetsAsStated, Invariance, AlwaysTrailsTheMarket, PTL DEF Spec, TriggerRatchets

-----------------------------------------------------------------------------
(* Queues in the order of time *)

\* The orders of a queue entered `map' one after the other.
Sorted(queue, map) ==
  \A i, j \in 1..Len(queue) : i < j => map[queue[i]].rank < map[queue[j]].rank

QueuesAreSorted ==
  \A side \in Side : \A price \in DOMAIN levels[side] :
    Sorted(levels[side][price].orders, ordersById)

\* The clock is ahead of every entry, so that an order that rests is the last.
ClockIsAhead == \A id \in DOMAIN ordersById : ordersById[id].rank < clock

TimeInv == QueuesAreSorted /\ ClockIsAhead

PInv == IInv /\ TimeInv

\* A queue is sorted by the ranks of its own orders alone.
LEMMA SortedByOwnRanks ==
  ASSUME NEW queue \in Seq(OrderId), NEW map, NEW other, Sorted(queue, map),
         \A id \in Queued(queue) : other[id].rank = map[id].rank
  PROVE  Sorted(queue, other)
  BY DEF Sorted, Queued

\* PriceLevel.remove of the head leaves a sorted queue.
LEMMA TailIsSorted ==
  ASSUME NEW queue \in Seq(OrderId), queue # <<>>, NEW map, Sorted(queue, map)
  PROVE  Sorted(Tail(queue), map)
<1>1. /\ Len(queue) \in Nat /\ Len(Tail(queue)) = Len(queue) - 1
      /\ \A i \in 1..Len(Tail(queue)) : Tail(queue)[i] = queue[i + 1]
  BY HeadTailProperties, EmptySeq
<1> DEFINE rest == Tail(queue)
<1> HIDE DEF rest
<1>2. /\ Len(queue) \in Nat /\ Len(rest) = Len(queue) - 1
      /\ \A i \in 1..Len(rest) : rest[i] = queue[i + 1] /\ i + 1 \in 1..Len(queue)
  BY <1>1 DEF rest
<1>3. Sorted(rest, map)
  <2> SUFFICES ASSUME NEW i \in 1..Len(rest), NEW j \in 1..Len(rest), i < j
               PROVE  map[rest[i]].rank < map[rest[j]].rank
    BY DEF Sorted
  <2>1. i + 1 < j + 1
    BY <1>2
  <2>2. QED
    BY <1>2, <2>1 DEF Sorted
<1>4. QED
  BY <1>3 DEF rest

\* PriceLevel.remove of any order leaves a sorted queue.
LEMMA RemoveIsSorted ==
  ASSUME NEW queue \in Seq(OrderId), NEW i \in 1..Len(queue), NEW map, Sorted(queue, map)
  PROVE  Sorted(RemoveFromQueue(queue, i), map)
<1> DEFINE new == RemoveFromQueue(queue, i)
           left == SubSeq(queue, 1, i - 1)
           right == SubSeq(queue, i + 1, Len(queue))
<1>1. left \in Seq(OrderId) /\ Len(left) = i - 1 /\ \A k \in 1..(i-1) : left[k] = queue[k]
  OBVIOUS
<1>2. /\ right \in Seq(OrderId) /\ Len(right) = Len(queue) - i
      /\ \A k \in 1..(Len(queue) - i) : right[k] = queue[i + k]
  OBVIOUS
<1>3. new = left \o right
  BY DEF RemoveFromQueue
<1> HIDE DEF new, left, right
<1>4. /\ Len(new) = Len(queue) - 1
      /\ \A k \in 1..Len(new) : new[k] = IF k < i THEN queue[k] ELSE queue[k + 1]
  <2>1. Len(new) = Len(queue) - 1
    BY <1>1, <1>2, <1>3, ConcatProperties
  <2> SUFFICES ASSUME NEW k \in 1..Len(new)
               PROVE  new[k] = IF k < i THEN queue[k] ELSE queue[k + 1]
    BY <2>1
  <2>2. k \in 1..(Len(left) + Len(right)) /\ Len(queue) \in Nat
    BY <1>1, <1>2, <2>1
  <2>3. new[k] = IF k <= Len(left) THEN left[k] ELSE right[k - Len(left)]
    BY <1>1, <1>2, <1>3, <2>2, ConcatProperties
  <2>4. CASE k < i
    BY <1>1, <2>2, <2>3, <2>4
  <2>5. CASE k >= i
    <3>1. k - (i - 1) \in 1..(Len(queue) - i)
      BY <1>1, <1>2, <2>2, <2>5
    <3>2. right[k - (i - 1)] = queue[k + 1]
      <4>1. i + (k - (i - 1)) = k + 1
        BY <2>2
      <4>2. right[k - (i - 1)] = queue[i + (k - (i - 1))]
        BY <1>2, <3>1
      <4>3. QED
        BY <4>1, <4>2
    <3>3. ~(k <= Len(left)) /\ k - Len(left) = k - (i - 1)
      BY <1>1, <2>2, <2>5
    <3>4. QED
      BY <2>3, <2>5, <3>2, <3>3
  <2>6. QED
    BY <2>2, <2>4, <2>5
<1>5. Sorted(new, map)
  <2> SUFFICES ASSUME NEW k \in 1..Len(new), NEW m \in 1..Len(new), k < m
               PROVE  map[new[k]].rank < map[new[m]].rank
    BY DEF Sorted
  <2> DEFINE a == IF k < i THEN k ELSE k + 1
             b == IF m < i THEN m ELSE m + 1
  <2>1. a \in 1..Len(queue) /\ b \in 1..Len(queue) /\ a < b
    BY <1>4
  <2>2. new[k] = queue[a] /\ new[m] = queue[b]
    BY <1>4
  <2> HIDE DEF a, b
  <2>3. QED
    BY <2>1, <2>2 DEF Sorted
<1>6. QED
  BY <1>5 DEF new

\* PriceLevel.append of an order that is later than all others.
LEMMA AppendIsSorted ==
  ASSUME NEW queue \in Seq(OrderId), NEW id \in OrderId, NEW map, Sorted(queue, map),
         \A other \in Queued(queue) : map[other].rank < map[id].rank
  PROVE  Sorted(Append(queue, id), map)
<1> DEFINE new == Append(queue, id)
<1>1. /\ Len(queue) \in Nat /\ Len(new) = Len(queue) + 1 /\ new[Len(queue) + 1] = id
      /\ \A i \in 1..Len(queue) : new[i] = queue[i]
  OBVIOUS
<1> HIDE DEF new
<1>2. Sorted(new, map)
  <2> SUFFICES ASSUME NEW i \in 1..Len(new), NEW j \in 1..Len(new), i < j
               PROVE  map[new[i]].rank < map[new[j]].rank
    BY DEF Sorted
  <2>1. i \in 1..Len(queue) /\ new[i] = queue[i] /\ queue[i] \in Queued(queue)
    BY <1>1 DEF Queued
  <2>2. CASE j \in 1..Len(queue)
    BY <2>1, <2>2, <1>1 DEF Sorted
  <2>3. CASE j = Len(queue) + 1
    BY <2>1, <2>3, <1>1
  <2>4. QED
    BY <1>1, <2>2, <2>3
<1>3. QED
  BY <1>2 DEF new

\* The queue of one level changes and stays sorted; the others stay as they are,
\* and so do the ranks of their orders.
LEMMA OneLevelChanges ==
  ASSUME TypeOK, QueuesAreSorted, NEW side \in Side, NEW price \in Nat \ {0}, NEW level,
         NEW new, levels' = [levels EXCEPT ![side] = new],
         new = Put(levels[side], price, level) \/ new = Without(levels[side], price),
         Sorted(level.orders, ordersById'),
         \A s \in Side : \A p \in DOMAIN levels[s] :
           ~(s = side /\ p = price) =>
             \A id \in Queued(levels[s][p].orders) : ordersById'[id].rank = ordersById[id].rank
  PROVE  QueuesAreSorted'
<1>1. levels = [s \in Side |-> levels[s]]
  BY DEF TypeOK
<1>2. levels'[side] = new /\ \A s \in Side \ {side} : levels'[s] = levels[s]
  BY <1>1
<1> SUFFICES ASSUME NEW s \in Side, NEW p \in DOMAIN levels'[s]
             PROVE  Sorted(levels'[s][p].orders, ordersById')
  BY DEF QueuesAreSorted
<1>3. CASE s = side /\ p = price
  <2>1. p \notin DOMAIN Without(levels[side], price)
    BY <1>3 DEF Without
  <2>2. levels'[s][p] = level
    BY <1>2, <1>3, <2>1 DEF Put
  <2>3. QED
    BY <2>2
<1>4. CASE ~(s = side /\ p = price)
  <2>1. p \in DOMAIN levels[s] /\ levels'[s][p] = levels[s][p]
    <3>1. CASE s = side
      BY <3>1, <1>2, <1>4 DEF Put, Without
    <3>2. CASE s # side
      BY <3>2, <1>2
    <3>3. QED
      BY <3>1, <3>2
  <2>2. levels[s][p].orders \in Seq(OrderId)
    BY <2>1 DEF TypeOK, IsMap, PriceLevel
  <2>3. Sorted(levels[s][p].orders, ordersById)
    BY <2>1 DEF QueuesAreSorted
  <2>4. QED
    BY <2>1, <2>2, <2>3, <1>4, SortedByOwnRanks
<1>5. QED
  BY <1>3, <1>4

-----------------------------------------------------------------------------
(* The orders as PriceTimePriority has them *)

\* The incoming order, field by field.
LEMMA IncomingFields ==
  ASSUME TypeOK, taker # NoOrder
  PROVE  /\ Incoming # NoOrder
         /\ Incoming = [id |-> taker.orderId, side |-> taker.side,
                        quantity |-> taker.remainingQuantity,
                        price |-> IF taker.type = "MARKET" THEN 0 ELSE taker.priceTicks]
<1>1. Incoming = [id |-> taker.orderId, side |-> taker.side,
                  quantity |-> taker.remainingQuantity,
                  price |-> IF taker.type = "MARKET" THEN 0 ELSE taker.priceTicks]
  BY DEF Incoming
<1>2. taker \in Node
  BY DEF TypeOK
<1>3. Incoming \in IncomingOrder
  BY <1>1, <1>2 DEF IncomingOrder, Node
<1>4. QED
  BY <1>1, <1>3, NoOrderAssumption

\* The resting orders, field by field.
LEMMA RestingFields ==
  /\ DOMAIN Resting = DOMAIN ordersById
  /\ \A id \in DOMAIN ordersById :
       Resting[id] = [side |-> ordersById[id].side, price |-> ordersById[id].priceTicks,
                      quantity |-> ordersById[id].remainingQuantity,
                      arrival |-> ordersById[id].rank]
  BY DEF Resting

\* What the loop of matchBuyOrder or matchSellOrder trades with is what may trade.
LEMMA MatchesIsAccepts ==
  ASSUME IInv, taker # NoOrder, NEW id \in DOMAIN ordersById
  PROVE  Priority!Matches(id) <=> /\ ordersById[id].side = Opposite(taker.side)
                                  /\ Accepts(taker, ordersById[id].priceTicks)
<1>1. /\ taker \in Node /\ taker.type \in {"LIMIT", "MARKET"} /\ taker.side \in Side
      /\ taker.type = "LIMIT" => taker.priceTicks \in Nat \ {0}
  BY DEF IInv, TypeOK, CallInv, TakerIsSound, Node
<1>2. ordersById[id].side \in Side
  BY LevelOfOrder DEF IInv, BookInv
<1>3. /\ Incoming.side = taker.side
      /\ Incoming.price = IF taker.type = "MARKET" THEN 0 ELSE taker.priceTicks
  BY IncomingFields DEF IInv
<1>4. Resting[id].side = ordersById[id].side /\ Resting[id].price = ordersById[id].priceTicks
  BY RestingFields
<1>5. QED
  BY <1>1, <1>2, <1>3, <1>4 DEF Priority!Matches, Accepts, Opposite, Side

\* A step that changes neither the orders at rest nor the one being executed.
LEMMA Stutters ==
  ASSUME UNCHANGED <<ordersById, taker>>
  PROVE  UNCHANGED Priority!vars
  BY DEF Priority!vars, Resting, Incoming

\* A new order, or a stop order that is triggered, enters the market.
LEMMA Arrives ==
  ASSUME IInv, IInv', taker = NoOrder, taker' # NoOrder,
         taker'.remainingQuantity > 0, UNCHANGED ordersById
  PROVE  Priority!Arrive
<1>1. taker' \in Node /\ taker'.orderId \notin DOMAIN ordersById
  BY DEF IInv, TypeOK, CallInv, IdsAreUnique
<1>2. Incoming' = [id |-> taker'.orderId, side |-> taker'.side,
                   quantity |-> taker'.remainingQuantity,
                   price |-> IF taker'.type = "MARKET" THEN 0 ELSE taker'.priceTicks]
  BY DEF Incoming
<1>3. Incoming' \in Priority!Incoming /\ Incoming'.id \notin DOMAIN Resting
  BY <1>1, <1>2, RestingFields DEF Priority!Incoming, Priority!Side, Side, Node
<1>4. Incoming = NoOrder
  BY DEF Incoming
<1>5. Resting' = Resting
  BY DEF Resting
<1>6. QED
  BY <1>3, <1>4, <1>5 DEF Priority!Arrive

-----------------------------------------------------------------------------
(* Cancellation *)

\* cancelOrder of a resting order leaves every queue in order.
LEMMA CancelRestingOrderPriority ==
  ASSUME PInv, NEW id \in OrderId, CancelRestingOrder(id)
  PROVE  TimeInv' /\ Priority!Cancel(id)
<1> USE DEF PInv, IInv
<1> DEFINE side == ordersById[id].side
           price == ordersById[id].priceTicks
           level == levels[side][price]
<1>1. /\ id \in DOMAIN ordersById
      /\ side \in Side /\ price \in Nat \ {0} /\ price \in DOMAIN levels[side]
      /\ level \in PriceLevel
  BY LevelOfOrder DEF CancelRestingOrder, BookInv
<1>2. PICK i \in 1..Len(level.orders) :
        /\ level.orders[i] = id
        /\ levels' = [levels EXCEPT ![side] =
             SetLevel(levels[side], price,
               [orders |-> RemoveFromQueue(level.orders, i),
                totalQuantity |-> level.totalQuantity - ordersById[id].remainingQuantity])]
  BY DEF CancelRestingOrder
<1> DEFINE new == [orders |-> RemoveFromQueue(level.orders, i),
                   totalQuantity |-> level.totalQuantity - ordersById[id].remainingQuantity]
<1>3. /\ new.orders = RemoveFromQueue(level.orders, i)
      /\ levels' = [levels EXCEPT ![side] = SetLevel(levels[side], price, new)]
  BY <1>2
<1>4. /\ ordersById' = Without(ordersById, id)
      /\ UNCHANGED <<clock, taker, phase>> /\ taker = NoOrder
  BY DEF CancelRestingOrder, CanCall, CallInv, Control
<1>5. /\ level.orders \in Seq(OrderId) /\ Sorted(level.orders, ordersById)
      /\ NoDuplicates(level.orders)
  BY <1>1 DEF PriceLevel, TimeInv, QueuesAreSorted, BookInv, IndexesAgree
<1> HIDE DEF side, price, level, new
<1>6. \A s \in Side : \A p \in DOMAIN levels[s] :
        ~(s = side /\ p = price) =>
          \A o \in Queued(levels[s][p].orders) : ordersById'[o].rank = ordersById[o].rank
  BY <1>4, InOneLevel DEF BookInv, Without, side, price
<1>7. Sorted(new.orders, ordersById')
  <2>1. /\ RemoveFromQueue(level.orders, i) \in Seq(OrderId)
        /\ Queued(RemoveFromQueue(level.orders, i)) = Queued(level.orders) \ {id}
    BY <1>2, <1>5, RemoveAtProperties
  <2>2. \A o \in Queued(level.orders) : o \in DOMAIN ordersById
    BY <1>1, InOneLevel DEF BookInv, level
  <2>3. \A o \in Queued(level.orders) \ {id} : ordersById'[o].rank = ordersById[o].rank
    BY <2>2, <1>4 DEF Without
  <2>4. QED
    BY <1>3, <1>5, <2>1, <2>3, RemoveIsSorted, SortedByOwnRanks
<1>8. QueuesAreSorted'
  <2> DEFINE after == SetLevel(levels[side], price, new)
  <2>1. after = Put(levels[side], price, new) \/ after = Without(levels[side], price)
    BY DEF SetLevel
  <2>2. levels' = [levels EXCEPT ![side] = after]
    BY <1>3
  <2> HIDE DEF after
  <2>3. QED
    BY <1>1, <1>6, <1>7, <2>1, <2>2, OneLevelChanges DEF TimeInv
<1>9. ClockIsAhead'
  BY <1>4 DEF TimeInv, ClockIsAhead, Without
<1>10. Priority!Cancel(id)
  <2>1. Incoming = NoOrder /\ Incoming' = Incoming
    BY <1>4 DEF Incoming
  <2>2. Resting' = [other \in DOMAIN Resting \ {id} |-> Resting[other]]
    BY <1>4, RestingFields DEF Resting, Without
  <2>3. QED
    BY <1>1, <2>1, <2>2, RestingFields DEF Priority!Cancel
<1>11. QED
  BY <1>8, <1>9, <1>10 DEF TimeInv

-----------------------------------------------------------------------------
(* Matching *)

\* One trade: its maker is the order that PriceTimePriority serves, and what is
\* left of both is what it says.
LEMMA MatchOnePriority ==
  ASSUME PInv, MatchOne
  PROVE  TimeInv' /\ \E maker \in OrderId : Priority!Trade(maker)
<1> USE DEF PInv, IInv
<1> DEFINE side == Opposite(taker.side)
<1>1. /\ taker \in Node /\ taker # NoOrder /\ side \in Side
      /\ taker.remainingQuantity \in Nat \ {0} /\ taker.side \in Side
  <2>1. taker # NoOrder /\ taker.remainingQuantity > 0
    BY DEF MatchOne, CallInv, Control
  <2>2. taker \in Node
    BY <2>1 DEF TypeOK
  <2>3. QED
    BY <2>1, <2>2 DEF Node, Opposite, Side
<1>2. PICK price \in DOMAIN levels[side] :
        LET level == levels[side][price]
            maker == Head(level.orders)
            quantity == Min2(taker.remainingQuantity, ordersById[maker].remainingQuantity)
            resting == Fill(ordersById[maker], quantity)
        IN  /\ IsBestPrice(side, price)
            /\ Accepts(taker, price)
            /\ taker' = Fill(taker, quantity)
            /\ ordersById' = IF resting.status = "FILLED"
                             THEN Without(ordersById, maker)
                             ELSE Put(ordersById, maker, resting)
            /\ levels' = [levels EXCEPT ![side] = SetLevel(levels[side], price,
                 [orders |-> IF resting.status = "FILLED" THEN Tail(level.orders)
                                                          ELSE level.orders,
                  totalQuantity |-> level.totalQuantity - quantity])]
  BY DEF MatchOne
<1> DEFINE level == levels[side][price]
           queue == level.orders
           maker == Head(queue)
           order == ordersById[maker]
           quantity == Min2(taker.remainingQuantity, order.remainingQuantity)
           resting == Fill(order, quantity)
           new == [orders |-> IF resting.status = "FILLED" THEN Tail(queue) ELSE queue,
                   totalQuantity |-> level.totalQuantity - quantity]
           after == SetLevel(levels[side], price, new)
<1>3. /\ price \in Nat \ {0} /\ queue \in Seq(OrderId) /\ queue # <<>> /\ NoDuplicates(queue)
      /\ Queued(queue) = {o \in DOMAIN ordersById : /\ ordersById[o].side = side
                                                    /\ ordersById[o].priceTicks = price}
      /\ Sorted(queue, ordersById)
  BY <1>1 DEF TypeOK, IsMap, PriceLevel, BookInv, IndexesAgree, TimeInv, QueuesAreSorted
<1>4. /\ maker = queue[1] /\ maker \in Queued(queue) /\ Len(queue) \in Nat \ {0}
      /\ Tail(queue) \in Seq(OrderId)
      /\ Queued(Tail(queue)) = Queued(queue) \ {maker}
  BY <1>3, TailProperties, HeadTailProperties, EmptySeq
<1>5. /\ maker \in DOMAIN ordersById /\ maker \in OrderId
      /\ order.side = side /\ order.priceTicks = price
      /\ order \in RestingOrder
      /\ order.remainingQuantity \in Nat \ {0}
  <2>1. maker \in DOMAIN ordersById /\ order.side = side /\ order.priceTicks = price
    BY <1>3, <1>4
  <2>2. maker \in OrderId /\ order \in RestingOrder
    BY <2>1 DEF TypeOK, IsMap
  <2>3. order.remainingQuantity \in 1..order.initialQuantity /\ order.initialQuantity \in Nat
    BY <2>1, <2>2 DEF BookInv, RestingIsActive, RestingOrder
  <2>4. QED
    BY <2>1, <2>2, <2>3
<1>6. /\ quantity \in Nat \ {0}
      /\ quantity = IF taker.remainingQuantity < order.remainingQuantity
                    THEN taker.remainingQuantity ELSE order.remainingQuantity
  BY <1>1, <1>5 DEF Min2
<1>7. /\ taker' = Fill(taker, quantity)
      /\ ordersById' = IF resting.status = "FILLED"
                       THEN Without(ordersById, maker)
                       ELSE Put(ordersById, maker, resting)
      /\ levels' = [levels EXCEPT ![side] = after]
      /\ IsBestPrice(side, price) /\ Accepts(taker, price)
      /\ new.orders = IF resting.status = "FILLED" THEN Tail(queue) ELSE queue
      /\ after = Put(levels[side], price, new) \/ after = Without(levels[side], price)
  BY <1>2 DEF SetLevel
<1>8. /\ resting.side = order.side /\ resting.priceTicks = order.priceTicks
      /\ resting.rank = order.rank
      /\ resting.remainingQuantity = order.remainingQuantity - quantity
      /\ resting.status = "FILLED" <=> quantity = order.remainingQuantity
  <2> HIDE DEF order, quantity
  <2>1. QED
    BY <1>5, <1>6 DEF Fill, RestingOrder
<1>9. /\ taker' \in Node /\ taker' # NoOrder
      /\ taker'.orderId = taker.orderId /\ taker'.type = taker.type
      /\ taker'.side = taker.side /\ taker'.priceTicks = taker.priceTicks
      /\ taker'.remainingQuantity = taker.remainingQuantity - quantity
  <2>1. quantity <= taker.remainingQuantity
    BY <1>1, <1>5, <1>6 DEF Node
  <2> HIDE DEF order, quantity
  <2>2. /\ taker' \in Node
        /\ taker'.orderId = taker.orderId /\ taker'.type = taker.type
        /\ taker'.priceTicks = taker.priceTicks
        /\ taker'.remainingQuantity = taker.remainingQuantity - quantity
    BY <1>1, <1>6, <1>7, <2>1, FillNode
  <2>3. taker'.side = taker.side
    BY <1>1, <1>7 DEF Fill, Node
  <2>4. QED
    BY <2>2, <2>3, NoOrderAssumption
<1> HIDE DEF side, level, queue, maker, order, quantity, resting, new, after
<1>10. /\ DOMAIN Resting = DOMAIN ordersById
       /\ Resting[maker].side = side /\ Resting[maker].quantity = order.remainingQuantity
       /\ Incoming # NoOrder /\ Incoming.quantity = taker.remainingQuantity
  BY <1>1, <1>5, RestingFields, IncomingFields DEF order
<1>11. Priority!Matches(maker)
  BY <1>1, <1>5, <1>7, MatchesIsAccepts DEF side, order
<1>12. ASSUME NEW other \in DOMAIN Resting \ {maker}, Resting[other].side = Resting[maker].side
       PROVE  Priority!Precedes(maker, other)
  <2>1. /\ other \in DOMAIN ordersById /\ ordersById[other].side = side
        /\ ordersById[other].priceTicks \in DOMAIN levels[side]
    BY <1>10, <1>12, RestingFields DEF BookInv, IndexesAgree
  <2>2. /\ Resting[maker].price = price /\ Resting[maker].arrival = order.rank
        /\ Resting[other].price = ordersById[other].priceTicks
        /\ Resting[other].arrival = ordersById[other].rank
    BY <1>5, <2>1, RestingFields DEF order
  <2>3. CASE ordersById[other].priceTicks = price
    <3>1. other \in Queued(queue)
      BY <1>3, <2>1, <2>3
    <3>2. PICK j \in 1..Len(queue) : queue[j] = other
      BY <3>1 DEF Queued
    <3>3. 1 \in 1..Len(queue) /\ 1 < j
      BY <1>4, <1>12, <3>2
    <3>4. order.rank < ordersById[other].rank
      BY <1>3, <1>4, <3>2, <3>3 DEF Sorted, order
    <3>5. QED
      BY <2>2, <2>3, <3>4 DEF Priority!Precedes
  <2>4. CASE ordersById[other].priceTicks # price
    <3>1. Better(side, price, ordersById[other].priceTicks)
      BY <1>7, <2>1, <2>4 DEF IsBestPrice
    <3>2. QED
      BY <1>10, <2>2, <3>1 DEF Priority!Precedes, Better
  <2>5. QED
    BY <2>3, <2>4
<1>13. Incoming' = [Incoming EXCEPT !.quantity = @ - quantity]
  <2>1. Incoming = [id |-> taker.orderId, side |-> taker.side,
                    quantity |-> taker.remainingQuantity,
                    price |-> IF taker.type = "MARKET" THEN 0 ELSE taker.priceTicks]
    BY <1>1, IncomingFields
  <2>2. Incoming' = [id |-> taker'.orderId, side |-> taker'.side,
                     quantity |-> taker'.remainingQuantity,
                     price |-> IF taker'.type = "MARKET" THEN 0 ELSE taker'.priceTicks]
    BY <1>9 DEF Incoming
  <2>3. QED
    BY <1>9, <2>1, <2>2
<1>14. UNCHANGED clock
  BY DEF MatchOne
<1>15. CASE resting.status = "FILLED"
  <2>1. ordersById' = Without(ordersById, maker) /\ quantity = order.remainingQuantity
    BY <1>7, <1>8, <1>15
  <2>2. Sorted(new.orders, ordersById')
    <3>1. \A o \in Queued(Tail(queue)) : ordersById'[o].rank = ordersById[o].rank
      BY <1>3, <1>4, <2>1 DEF Without
    <3>2. Sorted(Tail(queue), ordersById)
      BY <1>3, TailIsSorted
    <3>3. Sorted(Tail(queue), ordersById')
      BY <1>4, <3>1, <3>2, SortedByOwnRanks
    <3>4. QED
      BY <1>7, <1>15, <3>3
  <2>3. \A s \in Side : \A p \in DOMAIN levels[s] :
          ~(s = side /\ p = price) =>
            \A o \in Queued(levels[s][p].orders) : ordersById'[o].rank = ordersById[o].rank
    BY <1>5, <2>1, InOneLevel DEF BookInv, Without, order
  <2>4. QueuesAreSorted'
    BY <1>1, <1>3, <1>7, <2>2, <2>3, OneLevelChanges DEF TimeInv
  <2>5. ClockIsAhead'
    BY <1>14, <2>1 DEF TimeInv, ClockIsAhead, Without
  <2>6. Resting' = [id \in DOMAIN Resting \ {maker} |-> Resting[id]]
    BY <2>1, RestingFields DEF Resting, Without
  <2>7. ~(taker.remainingQuantity < order.remainingQuantity)
    BY <1>1, <1>5, <1>6, <2>1
  <2>8. Priority!Trade(maker)
    BY <1>1, <1>5, <1>10, <1>11, <1>12, <1>13, <2>1, <2>6, <2>7 DEF Priority!Trade
  <2>9. QED
    BY <1>5, <2>4, <2>5, <2>8 DEF TimeInv
<1>16. CASE resting.status # "FILLED"
  <2>1. /\ ordersById' = Put(ordersById, maker, resting)
        /\ quantity = taker.remainingQuantity
        /\ taker.remainingQuantity < order.remainingQuantity
    BY <1>1, <1>5, <1>6, <1>7, <1>8, <1>16
  <2>2. /\ DOMAIN ordersById' = DOMAIN ordersById
        /\ ordersById'[maker] = resting
        /\ \A o \in DOMAIN ordersById \ {maker} : ordersById'[o] = ordersById[o]
    BY <1>5, <2>1 DEF Put
  <2>3. \A o \in DOMAIN ordersById : ordersById'[o].rank = ordersById[o].rank
    BY <1>8, <2>2 DEF order
  <2>4. Sorted(new.orders, ordersById')
    <3>1. \A o \in Queued(queue) : ordersById'[o].rank = ordersById[o].rank
      BY <1>3, <2>3
    <3>2. QED
      BY <1>3, <1>7, <1>16, <3>1, SortedByOwnRanks
  <2>5. \A s \in Side : \A p \in DOMAIN levels[s] :
          ~(s = side /\ p = price) =>
            \A o \in Queued(levels[s][p].orders) : ordersById'[o].rank = ordersById[o].rank
    BY <2>3, InOneLevel DEF BookInv
  <2>6. QueuesAreSorted'
    BY <1>1, <1>3, <1>7, <2>4, <2>5, OneLevelChanges DEF TimeInv
  <2>7. ClockIsAhead'
    BY <1>14, <2>2, <2>3 DEF TimeInv, ClockIsAhead
  <2>8. Resting' = [Resting EXCEPT ![maker].quantity = @ - Incoming.quantity]
    <3>1. Resting[maker] = [side |-> order.side, price |-> order.priceTicks,
                            quantity |-> order.remainingQuantity, arrival |-> order.rank]
      BY <1>5, RestingFields DEF order
    <3>2. Resting'[maker] = [side |-> order.side, price |-> order.priceTicks,
                             quantity |-> order.remainingQuantity - taker.remainingQuantity,
                             arrival |-> order.rank]
      BY <1>5, <1>8, <2>1, <2>2 DEF Resting
    <3>3. Resting'[maker] = [Resting[maker] EXCEPT !.quantity = @ - Incoming.quantity]
      BY <1>10, <3>1, <3>2
    <3>4. /\ Resting' = [id \in DOMAIN ordersById |-> Resting'[id]]
          /\ Resting = [id \in DOMAIN ordersById |-> Resting[id]]
      BY <2>2 DEF Resting
    <3>5. \A id \in DOMAIN ordersById \ {maker} : Resting'[id] = Resting[id]
      BY <2>2 DEF Resting
    <3>6. QED
      BY <1>5, <3>3, <3>4, <3>5
  <2>9. Incoming' = [Incoming EXCEPT !.quantity = 0]
    BY <1>1, <1>10, <1>13, <2>1
  <2>10. Priority!Trade(maker)
    BY <1>1, <1>5, <1>10, <1>11, <1>12, <2>1, <2>8, <2>9 DEF Priority!Trade
  <2>11. QED
    BY <1>5, <2>6, <2>7, <2>10 DEF TimeInv
<1>17. QED
  BY <1>15, <1>16

\* What is left of a limit order rests behind all others, and only when nothing may
\* trade with it.
LEMMA EndMatchingPriority ==
  ASSUME PInv, EndMatching
  PROVE  TimeInv' /\ (Priority!Rest \/ Priority!Leave)
<1> USE DEF PInv, IInv
<1> DEFINE rests == taker.remainingQuantity > 0 /\ taker.type = "LIMIT"
<1>1. /\ taker \in Node /\ taker # NoOrder /\ taker' = NoOrder
      /\ MatchingIsOver
      /\ taker.orderId \in OrderId \ DOMAIN ordersById
      /\ taker.side \in Side /\ taker.remainingQuantity \in Nat
      /\ taker.type \in {"LIMIT", "MARKET"}
      /\ taker.type = "LIMIT" => taker.priceTicks \in Nat \ {0}
  <2>1. taker \in Node /\ taker # NoOrder
    BY DEF EndMatching, CallInv, Control, TypeOK
  <2>2. QED
    BY <2>1 DEF EndMatching, CallInv, IdsAreUnique, TakerIsSound, Node
<1>2. IF rests THEN RestTaker ELSE UNCHANGED bookVars
  BY DEF EndMatching
<1>3. /\ Incoming # NoOrder /\ Incoming' = NoOrder
      /\ Incoming.id = taker.orderId /\ Incoming.side = taker.side
      /\ Incoming.quantity = taker.remainingQuantity
      /\ Incoming.price = IF taker.type = "MARKET" THEN 0 ELSE taker.priceTicks
  <2>1. Incoming' = NoOrder
    BY <1>1 DEF Incoming
  <2>2. QED
    BY <1>1, <2>1, IncomingFields
<1>4. taker.remainingQuantity > 0 => \A id \in DOMAIN Resting : ~Priority!Matches(id)
  <2> SUFFICES ASSUME taker.remainingQuantity > 0, NEW id \in DOMAIN ordersById
               PROVE  ~Priority!Matches(id)
    BY RestingFields
  <2>1. ordersById[id].side = Opposite(taker.side) =>
          ordersById[id].priceTicks \in DOMAIN levels[Opposite(taker.side)]
    BY DEF BookInv, IndexesAgree
  <2>2. ordersById[id].side = Opposite(taker.side) =>
          ~Accepts(taker, ordersById[id].priceTicks)
    BY <1>1, <2>1 DEF MatchingIsOver
  <2>3. QED
    BY <1>1, <2>2, MatchesIsAccepts
<1>5. CASE rests
  <2> DEFINE side == taker.side
             price == taker.priceTicks
             id == taker.orderId
             order == [side |-> taker.side, priceTicks |-> taker.priceTicks,
                       initialQuantity |-> taker.initialQuantity,
                       remainingQuantity |-> taker.remainingQuantity,
                       status |-> taker.status, rank |-> clock]
             old == IF price \in DOMAIN levels[side] THEN levels[side][price]
                    ELSE [orders |-> <<>>, totalQuantity |-> 0]
             new == [orders |-> Append(old.orders, id),
                     totalQuantity |-> old.totalQuantity + taker.remainingQuantity]
             after == Put(levels[side], price, new)
  <2>1. /\ price \in Nat \ {0} /\ clock \in Nat
        /\ levels' = [levels EXCEPT ![side] = after]
        /\ ordersById' = Put(ordersById, id, order)
        /\ clock' = clock + 1
    BY <1>1, <1>2, <1>5 DEF RestTaker, AppendToLevel, TypeOK
  <2>2. order.rank = clock
    OBVIOUS
  <2> HIDE DEF order
  <2>3. /\ DOMAIN ordersById' = DOMAIN ordersById \cup {id}
        /\ ordersById'[id].rank = clock
        /\ \A o \in DOMAIN ordersById : ordersById'[o] = ordersById[o]
    BY <1>1, <2>1, <2>2 DEF Put
  <2>4. \A o \in DOMAIN ordersById : ordersById[o].rank \in Nat /\ ordersById[o].rank < clock
    BY DEF TypeOK, IsMap, RestingOrder, TimeInv, ClockIsAhead
  <2>5. /\ old.orders \in Seq(OrderId) /\ Sorted(old.orders, ordersById)
        /\ \A o \in Queued(old.orders) : o \in DOMAIN ordersById
    <3>1. CASE price \in DOMAIN levels[side]
      <4>1. old = levels[side][price] /\ levels[side][price] \in PriceLevel
        BY <3>1, <1>1 DEF TypeOK, IsMap
      <4>2. Sorted(levels[side][price].orders, ordersById)
        BY <3>1, <1>1 DEF TimeInv, QueuesAreSorted
      <4>3. \A o \in Queued(levels[side][price].orders) : o \in DOMAIN ordersById
        BY <3>1, <1>1, InOneLevel DEF BookInv
      <4> HIDE DEF old
      <4>4. QED
        BY <4>1, <4>2, <4>3 DEF PriceLevel
    <3>2. CASE price \notin DOMAIN levels[side]
      <4>1. old.orders = <<>>
        BY <3>2
      <4>2. <<>> \in Seq(OrderId) /\ Len(<<>>) = 0
        OBVIOUS
      <4> HIDE DEF old
      <4>3. QED
        BY <4>1, <4>2 DEF Sorted, Queued
    <3>3. QED
      BY <3>1, <3>2
  <2>6. new.orders = Append(old.orders, id)
    OBVIOUS
  <2> HIDE DEF old, new, side, price, after
  <2>7. Sorted(new.orders, ordersById')
    <3>1. Sorted(old.orders, ordersById')
      BY <2>3, <2>5, SortedByOwnRanks
    <3>2. \A o \in Queued(old.orders) : ordersById'[o].rank < ordersById'[id].rank
      BY <2>3, <2>4, <2>5
    <3>3. QED
      BY <1>1, <2>5, <2>6, <3>1, <3>2, AppendIsSorted
  <2>8. QueuesAreSorted'
    <3>1. \A s \in Side : \A p \in DOMAIN levels[s] :
            ~(s = side /\ p = price) =>
              \A o \in Queued(levels[s][p].orders) : ordersById'[o].rank = ordersById[o].rank
      BY <2>3, InOneLevel DEF BookInv
    <3>2. side \in Side
      BY <1>1 DEF side
    <3>3. QED
      BY <2>1, <2>7, <3>1, <3>2, OneLevelChanges DEF TimeInv, after
  <2>9. ClockIsAhead'
    BY <2>1, <2>3, <2>4 DEF ClockIsAhead
  <2>10. Priority!Rest
    <3>1. Resting'[id] = [side |-> Incoming.side, price |-> Incoming.price,
                          quantity |-> Incoming.quantity, arrival |-> clock]
      <4>1. ordersById'[id] = order
        BY <2>1 DEF Put
      <4>2. Resting'[id] = [side |-> order.side, price |-> order.priceTicks,
                            quantity |-> order.remainingQuantity, arrival |-> order.rank]
        BY <2>3, <4>1 DEF Resting
      <4>3. QED
        BY <1>3, <1>5, <4>2 DEF order
    <3>2. /\ DOMAIN Resting' = DOMAIN Resting \cup {id}
          /\ Resting' = [o \in DOMAIN Resting' |-> Resting'[o]]
          /\ \A o \in DOMAIN Resting : o # id /\ Resting'[o] = Resting[o]
      BY <1>1, <2>3, RestingFields DEF Resting
    <3>3. Resting'[Incoming.id].arrival = clock
      BY <1>3, <3>1
    <3>4. \A o \in DOMAIN Resting : Resting[o].arrival < clock
      BY <2>4, RestingFields
    <3>5. Resting' = [o \in DOMAIN Resting \cup {id} |->
            IF o = id
            THEN [side |-> Incoming.side, price |-> Incoming.price,
                  quantity |-> Incoming.quantity, arrival |-> clock]
            ELSE Resting[o]]
      BY <3>1, <3>2
    <3>6. Incoming.quantity > 0 /\ Incoming.price # 0
      BY <1>1, <1>3, <1>5
    <3>7. QED
      BY <1>3, <1>4, <1>5, <3>3, <3>4, <3>5, <3>6 DEF Priority!Rest
  <2>11. QED
    BY <2>8, <2>9, <2>10 DEF TimeInv
<1>6. CASE ~rests
  <2>1. UNCHANGED <<levels, ordersById, clock>>
    BY <1>2, <1>6 DEF bookVars
  <2>2. TimeInv'
    BY <2>1 DEF TimeInv, QueuesAreSorted, ClockIsAhead
  <2>3. Resting' = Resting
    BY <2>1 DEF Resting
  <2>4. Priority!Leave
    BY <1>1, <1>3, <1>4, <1>6, <2>3 DEF Priority!Leave
  <2>5. QED
    BY <2>2, <2>4
<1>7. QED
  BY <1>5, <1>6

-----------------------------------------------------------------------------
(* Every step *)

\* What a step does for the order of time and for PriceTimePriority.
Goal == TimeInv' /\ [Priority!Next]_(Priority!vars)

\* A step that leaves the orders at rest and the one being executed alone.
LEMMA QuietStep ==
  ASSUME PInv, UNCHANGED <<levels, ordersById, taker>>, clock' \in {clock, clock + 1}
  PROVE  Goal
<1>1. TimeInv'
  <2>1. QueuesAreSorted'
    BY DEF PInv, TimeInv, QueuesAreSorted
  <2>2. \A id \in DOMAIN ordersById : ordersById[id].rank \in Nat
    BY DEF PInv, IInv, TypeOK, IsMap, RestingOrder
  <2>3. ClockIsAhead'
    BY <2>2 DEF PInv, IInv, TypeOK, TimeInv, ClockIsAhead
  <2>4. QED
    BY <2>1, <2>3 DEF TimeInv
<1>2. QED
  BY <1>1, Stutters DEF Goal

\* A step that takes a new order for execution.
LEMMA ArrivingStep ==
  ASSUME PInv, IInv', UNCHANGED <<levels, ordersById, clock>>, taker = NoOrder,
         taker' # NoOrder, taker'.remainingQuantity > 0
  PROVE  Goal
<1>1. TimeInv'
  BY DEF PInv, TimeInv, QueuesAreSorted, ClockIsAhead
<1>2. Priority!Arrive
  BY Arrives DEF PInv
<1>3. QED
  BY <1>1, <1>2 DEF Goal, Priority!Next

LEMMA CallPriority ==
  ASSUME PInv, IInv', Call
  PROVE  Goal
<1>1. ASSUME NEW order \in Orders, order.type \in {"LIMIT", "MARKET"}, NEW method,
             StartMatching(order, method)
      PROVE  Goal
  <2>1. taker = NoOrder
    BY <1>1 DEF PInv, IInv, CallInv, Control, StartMatching, CanCall
  <2>2. /\ taker' = NewNode(order.orderId, order.side, order.type, order.priceTicks,
                            order.quantity)
        /\ IsValidNode(order.type, order.priceTicks, order.quantity)
        /\ phase' = "match" /\ UNCHANGED <<levels, ordersById, clock>>
    BY <1>1 DEF StartMatching, bookVars
  <2>3. taker'.remainingQuantity > 0
    BY <2>2 DEF NewNode, IsValidNode
  <2>4. taker' # NoOrder
    BY <2>2 DEF IInv, CallInv, Control
  <2>5. QED
    BY <2>1, <2>2, <2>3, <2>4, ArrivingStep
<1>2. ASSUME NEW order \in Orders, NEW trigger, NEW watermark,
             AddStopOrder(order, trigger, watermark)
      PROVE  Goal
  BY <1>2, QuietStep DEF AddStopOrder
<1>3. ASSUME Refuse PROVE Goal
  BY <1>3, QuietStep DEF Refuse, bookVars
<1>4. ASSUME NEW id \in OrderId, CancelStopOrder(id) PROVE Goal
  BY <1>4, QuietStep DEF CancelStopOrder, bookVars
<1>5. ASSUME NEW id \in OrderId, CancelRestingOrder(id) PROVE Goal
  BY <1>5, CancelRestingOrderPriority DEF Goal, Priority!Next
<1>6. QED
  BY <1>1, <1>2, <1>3, <1>4, <1>5
     DEF Call, PlaceLimitOrder, PlaceMarketOrder, PlaceStopOrder,
         PlaceTrailingStopMarketOrder, RefuseOrder, RefuseCancel

LEMMA StepPriority ==
  ASSUME PInv, IInv', Step
  PROVE  Goal
<1>1. CASE MatchOne
  BY <1>1, MatchOnePriority DEF Goal, Priority!Next
<1>2. CASE EndMatching
  BY <1>2, EndMatchingPriority DEF Goal, Priority!Next
<1>3. phase # "match" => taker = NoOrder
  BY DEF PInv, IInv, CallInv, Control
<1>4. CASE NoNewTrades \/ StopCycle \/ EndCycle
  BY <1>4, QuietStep DEF NoNewTrades, StopCycle, EndCycle, bookVars
<1>5. CASE CycleLimitExceeded \/ Finish
  BY <1>3, <1>5, QuietStep DEF CycleLimitExceeded, Finish, Throw, EndCall, bookVars
<1>6. ASSUME NEW id \in OrderId, TriggerThrows(id) PROVE Goal
  BY <1>3, <1>6, QuietStep DEF TriggerThrows, Throw, EndCall, bookVars
<1>7. ASSUME NEW id \in OrderId, TriggerStopOrder(id) PROVE Goal
  <2> DEFINE stop == stopOrdersById[id]
  <2>1. /\ phase = "trigger" /\ phase' = "match"
        /\ IsValidNode(TriggeredType(stop), stop.priceTicks, stop.quantity)
        /\ taker' = NewNode(id, stop.side, TriggeredType(stop), stop.priceTicks,
                            stop.quantity)
        /\ UNCHANGED <<levels, ordersById, clock>>
    BY <1>7 DEF TriggerStopOrder, bookVars
  <2>2. taker'.remainingQuantity > 0
    BY <2>1 DEF NewNode, IsValidNode
  <2>3. taker = NoOrder /\ taker' # NoOrder
    BY <1>3, <2>1 DEF IInv, CallInv, Control
  <2>4. QED
    BY <2>1, <2>2, <2>3, ArrivingStep
<1>8. QED
  BY <1>1, <1>2, <1>4, <1>5, <1>6, <1>7 DEF Step

LEMMA InitPriority == Init => TimeInv /\ Priority!Init
  BY DEF Init, TimeInv, QueuesAreSorted, ClockIsAhead, Priority!Init, Resting, Incoming

LEMMA NextPriority == PInv /\ [Next]_vars => PInv' /\ [Priority!Next]_(Priority!vars)
<1> SUFFICES ASSUME PInv, [Next]_vars PROVE PInv' /\ [Priority!Next]_(Priority!vars)
  OBVIOUS
<1>1. IInv'
  BY NextInv DEF PInv
<1>2. CASE Call \/ Step
  BY <1>1, <1>2, CallPriority, StepPriority DEF Goal, PInv
<1>3. CASE UNCHANGED vars
  BY <1>1, <1>3, QuietStep DEF vars, Goal, PInv
<1>4. QED
  BY <1>2, <1>3 DEF Next

-----------------------------------------------------------------------------
(* The theorems *)

\* The queue of every price level is always in the order in which its orders
\* entered the book (PriceLevel.append, remove).
THEOREM QueuesAlwaysSorted == Spec => []QueuesAreSorted
<1>1. Init => PInv
  BY InitInv, InitPriority DEF PInv
<1>2. PInv /\ [Next]_vars => PInv'
  BY NextPriority
<1>3. PInv => QueuesAreSorted
  BY DEF PInv, TimeInv
<1>4. QED
  BY <1>1, <1>2, <1>3, PTL DEF Spec

\* The book trades in price-time priority: it implements PriceTimePriority
\* (matchBuyOrder, matchSellOrder, addRestingOrder, cancelOrder and the stop
\* cascade that enters orders in mid-call).
THEOREM PriorityIsImplemented == Spec => ImplementsPriority
<1>1. Init => PInv /\ Priority!Init
  BY InitInv, InitPriority DEF PInv
<1>2. PInv /\ [Next]_vars => PInv' /\ [Priority!Next]_(Priority!vars)
  BY NextPriority
<1>3. QED
  BY <1>1, <1>2, PTL DEF Spec, ImplementsPriority, Priority!Spec

-----------------------------------------------------------------------------
(* Array.sort *)

Keys(S, key) ==
  /\ IsFiniteSet(S)
  /\ \A x \in S : key[x] \in Int
  /\ \A x, y \in S : key[x] = key[y] => x = y

\* `list' has every member of S once, in the order of the keys.
Enumerates(list, S, key) ==
  /\ list \in [1..Cardinality(S) -> S]
  /\ \A x \in S : \E i \in 1..Cardinality(S) : list[i] = x
  /\ \A i, j \in 1..Cardinality(S) : i < j => key[list[i]] < key[list[j]]

\* How many members have no larger key.
LEMMA EnumerationExists ==
  ASSUME NEW S, NEW key, Keys(S, key)
  PROVE  \E list : Enumerates(list, S, key)
<1> DEFINE n == Cardinality(S)
           Upto(x) == {y \in S : key[y] <= key[x]}
           place == [x \in S |-> Cardinality(Upto(x))]
<1>0. n \in Nat /\ IsFiniteSet(S) /\ \A x \in S : key[x] \in Int
  BY FS_CardinalityType DEF Keys
<1>1. ASSUME NEW x \in S
      PROVE  Upto(x) \in SUBSET S /\ IsFiniteSet(Upto(x)) /\ place[x] \in 1..n
  <2>1. Upto(x) \in SUBSET S
    OBVIOUS
  <2>2. IsFiniteSet(Upto(x)) /\ Cardinality(Upto(x)) <= n
    BY <1>0, <2>1, FS_Subset
  <2>3. Cardinality(Upto(x)) \in Nat
    BY <2>2, FS_CardinalityType
  <2>4. x \in Upto(x)
    BY <1>0
  <2>5. Cardinality(Upto(x)) # 0
    BY <2>2, <2>4, FS_EmptySet
  <2>6. QED
    BY <1>0, <2>1, <2>2, <2>3, <2>5
<1>2. ASSUME NEW x \in S, NEW y \in S, key[x] < key[y]
      PROVE  place[x] < place[y]
  <2>1. Upto(x) \in SUBSET Upto(y)
    BY <1>0, <1>2
  <2>2. y \in Upto(y) /\ y \notin Upto(x)
    BY <1>0, <1>2
  <2>3. IsFiniteSet(Upto(y))
    BY <1>1
  <2>4. Cardinality(Upto(x)) <= Cardinality(Upto(y)) /\ Cardinality(Upto(y)) # Cardinality(Upto(x))
    BY <2>1, <2>2, <2>3, FS_Subset
  <2>5. place[x] \in Nat /\ place[y] \in Nat
    BY <1>1
  <2>6. QED
    BY <2>4, <2>5
<1>3. \A x \in S : place[x] \in 1..n
  BY <1>1
<1>4. \A x, y \in S : key[x] < key[y] => place[x] < place[y]
  BY <1>2
<1>5. place \in [S -> 1..n]
  BY <1>3
<1> HIDE DEF place
<1>6. place \in Injection(S, 1..n)
  <2>1. ASSUME NEW x \in S, NEW y \in S, place[x] = place[y] PROVE x = y
    <3>1. place[x] \in Int /\ place[y] \in Int
      BY <1>3
    <3>2. ~(key[x] < key[y]) /\ ~(key[y] < key[x])
      BY <1>4, <2>1, <3>1
    <3>3. key[x] = key[y]
      BY <1>0, <3>2
    <3>4. QED
      BY <3>3 DEF Keys
  <2>2. QED
    BY <1>5, <2>1 DEF Injection, IsInjective
<1>7. place \in Surjection(S, 1..n)
  <2>1. IsFiniteSet(1..n) /\ Cardinality(1..n) = n
    BY <1>0, FS_Interval
  <2>2. QED
    BY <1>6, <2>1, FS_Injection
<1> DEFINE list == [i \in 1..n |-> CHOOSE x \in S : place[x] = i]
<1>8. ASSUME NEW i \in 1..n PROVE list[i] \in S /\ place[list[i]] = i
  <2>1. \E x \in S : place[x] = i
    BY <1>7 DEF Surjection
  <2>2. QED
    BY <2>1
<1>9. list \in [1..n -> S]
  BY <1>8
<1>10. ASSUME NEW x \in S PROVE \E i \in 1..n : list[i] = x
  <2>1. place[x] \in 1..n
    BY <1>3
  <2>2. list[place[x]] = x
    BY <1>8, <1>6, <2>1 DEF Injection, IsInjective
  <2>3. QED
    BY <2>1, <2>2
<1>11. ASSUME NEW i \in 1..n, NEW j \in 1..n, i < j
       PROVE  key[list[i]] < key[list[j]]
  <2>1. list[i] \in S /\ list[j] \in S /\ place[list[i]] = i /\ place[list[j]] = j
    BY <1>8
  <2> HIDE DEF list
  <2>2. ~(key[list[j]] < key[list[i]]) /\ list[i] # list[j]
    BY <1>4, <1>11, <2>1
  <2>3. key[list[i]] # key[list[j]] /\ key[list[i]] \in Int /\ key[list[j]] \in Int
    BY <2>1, <2>2, <1>0 DEF Keys
  <2>4. QED
    BY <2>2, <2>3
<1> HIDE DEF list
<1>12. QED
  BY <1>9, <1>10, <1>11 DEF Enumerates

\* What is sorted by distinct keys is all there, once, and in their order.
LEMMA SortedByEnumerates ==
  ASSUME NEW S, NEW key, Keys(S, key)
  PROVE  Enumerates(SortedBy(S, key), S, key)
<1>0. Cardinality(S) \in Nat /\ \A x \in S : key[x] \in Int
  BY FS_CardinalityType DEF Keys
<1> DEFINE n == Cardinality(S)
           InOrder(list) == \A i, j \in 1..n : i < j => key[list[i]] < key[list[j]]
<1>1. ASSUME NEW list \in [1..n -> S], InOrder(list)
      PROVE  list \in SetToSeqs(S)
  <2>1. ASSUME NEW i \in 1..n, NEW j \in 1..n, i # j PROVE list[i] # list[j]
    <3>1. i < j \/ j < i
      BY <1>0, <2>1
    <3>2. key[list[i]] < key[list[j]] \/ key[list[j]] < key[list[i]]
      BY <1>1, <3>1
    <3>3. key[list[i]] \in Int
      BY <1>0
    <3>4. QED
      BY <3>2, <3>3
  <2>2. QED
    BY <2>1 DEF SetToSeqs
<1>2. \E list \in SetToSeqs(S) : InOrder(list)
  BY <1>1, EnumerationExists DEF Enumerates
<1>3. SortedBy(S, key) \in SetToSeqs(S) /\ InOrder(SortedBy(S, key))
  BY <1>2 DEF SortedBy
<1> DEFINE list == SortedBy(S, key)
<1> HIDE DEF list
<1>4. list \in Injection(1..n, S) /\ InOrder(list)
  BY <1>3 DEF SetToSeqs, Injection, IsInjective, list
<1>5. list \in Surjection(1..n, S)
  <2>1. IsFiniteSet(1..n) /\ Cardinality(1..n) = n
    BY <1>0, FS_Interval
  <2>2. IsFiniteSet(S)
    BY DEF Keys
  <2>3. QED
    BY <1>4, <2>1, <2>2, FS_Injection
<1>6. QED
  BY <1>4, <1>5 DEF Enumerates, Surjection, Injection, list

-----------------------------------------------------------------------------
(* Sequences of sequences, joined *)

FlatStep(seqs, flat, i) == IF i = 1 THEN seqs[i] ELSE flat[i - 1] \o seqs[i]

FlatUpTo(S, seqs, flat, n) ==
  flat \in [1..n -> Seq(S)] /\ \A i \in 1..n : flat[i] = FlatStep(seqs, flat, i)

FlatEquation(seqs, flat) ==
  flat = [i \in 1..Len(seqs) |-> IF i = 1 THEN seqs[i] ELSE flat[i - 1] \o seqs[i]]

\* Every number up to n is reached from 0 by steps of one.
LEMMA UpToIsReached ==
  ASSUME NEW n \in Nat, NEW T, 0 \in T, \A m \in 0..n - 1 : m \in T => m + 1 \in T
  PROVE  \A m \in 0..n : m \in T
<1> DEFINE U == {m \in Nat : m <= n => m \in T}
<1>1. 0 \in U /\ \A m \in U : m + 1 \in U
  OBVIOUS
<1>2. U \in SUBSET Nat
  OBVIOUS
<1>3. U = Nat
  <2> HIDE DEF U
  <2>1. QED
    BY <1>1, <1>2, NatIsReached
<1>4. ASSUME NEW m \in 0..n PROVE m \in T
  <2>1. m \in U
    BY <1>3
  <2>2. QED
    BY <2>1
<1>5. QED
  BY <1>4

\* The recursion of FlattenSeq has a solution.
LEMMA FlatExists ==
  ASSUME NEW S, NEW seqs \in Seq(Seq(S))
  PROVE  \E flat : FlatEquation(seqs, flat)
<1> DEFINE N == Len(seqs)
           T == {n \in Nat : \E flat : FlatUpTo(S, seqs, flat, n)}
<1>1. N \in Nat /\ \A i \in 1..N : seqs[i] \in Seq(S)
  OBVIOUS
<1> HIDE DEF N
<1>2. 0 \in T
  <2> DEFINE flat == [i \in 1..0 |-> seqs[i]]
  <2>1. FlatUpTo(S, seqs, flat, 0)
    BY DEF FlatUpTo
  <2>2. QED
    BY <2>1
<1>3. ASSUME NEW n \in 0..N - 1, n \in T PROVE n + 1 \in T
  <2>1. PICK flat : FlatUpTo(S, seqs, flat, n)
    BY <1>3
  <2> DEFINE new == [i \in 1..n + 1 |-> FlatStep(seqs, flat, i)]
  <2>2. \A i \in 1..n + 1 : i \in 1..N /\ (i # 1 => i - 1 \in 1..n)
    BY <1>1
  <2>3. ASSUME NEW i \in 1..n + 1 PROVE FlatStep(seqs, flat, i) \in Seq(S)
    <3>1. CASE i = 1
      BY <1>1, <2>2, <3>1 DEF FlatStep
    <3>2. CASE i # 1
      <4>1. flat[i - 1] \in Seq(S) /\ seqs[i] \in Seq(S)
        BY <1>1, <2>1, <2>2, <3>2 DEF FlatUpTo
      <4>2. QED
        BY <3>2, <4>1, ConcatProperties DEF FlatStep
    <3>3. QED
      BY <3>1, <3>2
  <2>4. \A i \in 1..n : i \in 1..n + 1 /\ new[i] = flat[i]
    BY <2>1 DEF FlatUpTo
  <2>5. new \in [1..n + 1 -> Seq(S)] /\ \A i \in 1..n + 1 : new[i] = FlatStep(seqs, flat, i)
    BY <2>3
  <2> HIDE DEF new
  <2>6. \A i \in 1..n + 1 : FlatStep(seqs, flat, i) = FlatStep(seqs, new, i)
    BY <2>2, <2>4 DEF FlatStep
  <2>7. FlatUpTo(S, seqs, new, n + 1)
    BY <2>5, <2>6 DEF FlatUpTo
  <2>8. n + 1 \in Nat
    OBVIOUS
  <2>9. QED
    BY <2>7, <2>8
<1>4. PICK flat : FlatUpTo(S, seqs, flat, N)
  <2> HIDE DEF T
  <2>1. \A n \in 0..N - 1 : n \in T => n + 1 \in T
    BY <1>3
  <2>2. \A n \in 0..N : n \in T
    BY <1>1, <1>2, <2>1, UpToIsReached
  <2>3. N \in T
    BY <1>1, <2>2
  <2>4. QED
    BY <2>3 DEF T
<1>5. flat = [i \in 1..N |-> flat[i]]
  BY <1>4 DEF FlatUpTo
<1>6. flat = [i \in 1..N |-> FlatStep(seqs, flat, i)]
  BY <1>4, <1>5 DEF FlatUpTo
<1>7. QED
  BY <1>6 DEF FlatEquation, FlatStep, N

\* `all' is the first n of `seqs' one after the other, the i-th of them after
\* off[i - 1] members of those before it.
Joins(all, off, seqs, n) ==
  /\ off[0] = 0
  /\ \A i \in 1..n : off[i] = off[i - 1] + Len(seqs[i])
  /\ Len(all) = off[n]
  /\ \A i \in 1..n : \A k \in 1..Len(seqs[i]) :
       off[i - 1] + k \in 1..Len(all) /\ all[off[i - 1] + k] = seqs[i][k]
  /\ \A p \in 1..Len(all) : \E i \in 1..n : \E k \in 1..Len(seqs[i]) : p = off[i - 1] + k

\* One more sequence is appended.
LEMMA JoinsOneMore ==
  ASSUME NEW S, NEW all \in Seq(S), NEW off, NEW seqs, NEW n \in Nat,
         \A i \in 0..n + 1 : off[i] \in Nat,
         \A i \in 1..n + 1 : seqs[i] \in Seq(S), Joins(all, off, seqs, n),
         off[n + 1] = off[n] + Len(seqs[n + 1])
  PROVE  Joins(all \o seqs[n + 1], off, seqs, n + 1)
<1> DEFINE last == seqs[n + 1]
           new == all \o last
<1>1. /\ last \in Seq(S) /\ new \in Seq(S) /\ Len(all) \in Nat /\ Len(last) \in Nat
      /\ Len(new) = Len(all) + Len(last)
      /\ \A p \in 1..Len(all) : new[p] = all[p]
      /\ \A k \in 1..Len(last) : new[Len(all) + k] = last[k]
  OBVIOUS
<1>2. Len(all) = off[n] /\ off[n] \in Nat /\ off[n + 1] = Len(new)
  BY <1>1 DEF Joins
<1>3. \A i \in 1..n + 1 : i \in 1..n \/ i = n + 1
  OBVIOUS
<1> HIDE DEF new, last
<1>4. ASSUME NEW i \in 1..n + 1 PROVE off[i] = off[i - 1] + Len(seqs[i])
  <2>1. CASE i \in 1..n
    BY <2>1 DEF Joins
  <2>2. CASE i = n + 1
    BY <2>2
  <2>3. QED
    BY <1>3, <2>1, <2>2
<1>5. ASSUME NEW i \in 1..n + 1, NEW k \in 1..Len(seqs[i])
      PROVE  off[i - 1] + k \in 1..Len(new) /\ new[off[i - 1] + k] = seqs[i][k]
  <2>1. CASE i \in 1..n
    <3>1. off[i - 1] + k \in 1..Len(all) /\ all[off[i - 1] + k] = seqs[i][k]
      BY <2>1 DEF Joins
    <3>2. QED
      BY <1>1, <3>1
  <2>2. CASE i = n + 1
    <3>1. off[i - 1] = Len(all) /\ k \in 1..Len(last) /\ seqs[i] = last
      BY <1>2, <2>2 DEF last
    <3>2. QED
      BY <1>1, <3>1
  <2>3. QED
    BY <1>3, <2>1, <2>2
<1>6. ASSUME NEW p \in 1..Len(new)
      PROVE  \E i \in 1..n + 1 : \E k \in 1..Len(seqs[i]) : p = off[i - 1] + k
  <2>1. CASE p \in 1..Len(all)
    <3>1. PICK i \in 1..n : \E k \in 1..Len(seqs[i]) : p = off[i - 1] + k
      BY <2>1 DEF Joins
    <3>2. QED
      BY <3>1
  <2>2. CASE p \notin 1..Len(all)
    <3>1. p - Len(all) \in 1..Len(last) /\ p = off[n] + (p - Len(all))
      BY <1>1, <1>2, <2>2
    <3>2. (n + 1) - 1 = n /\ n + 1 \in 1..n + 1 /\ seqs[n + 1] = last
      BY DEF last
    <3>3. QED
      BY <3>1, <3>2
  <2>3. QED
    BY <2>1, <2>2
<1>7. off[0] = 0
  BY DEF Joins
<1>8. Joins(new, off, seqs, n + 1)
  BY <1>2, <1>4, <1>5, <1>6, <1>7 DEF Joins
<1>9. QED
  BY <1>8 DEF new, last

\* What FlattenSeq joins.
LEMMA Flattens ==
  ASSUME NEW S, NEW seqs \in Seq(Seq(S))
  PROVE  /\ FlattenSeq(seqs) \in Seq(S)
         /\ \E off : /\ \A i \in 0..Len(seqs) : off[i] \in Nat
                     /\ Joins(FlattenSeq(seqs), off, seqs, Len(seqs))
<1> DEFINE N == Len(seqs)
           flat == CHOOSE flat : FlatEquation(seqs, flat)
           off == [i \in 0..N |-> IF i = 0 THEN 0 ELSE Len(flat[i])]
<1>1. N \in Nat /\ \A i \in 1..N : seqs[i] \in Seq(S)
  OBVIOUS
<1>2. CASE N = 0
  <2>1. FlattenSeq(seqs) = seqs /\ seqs \in Seq(S) /\ Len(seqs) = 0
    <3>1. seqs = <<>>
      BY <1>2, EmptySeq
    <3>2. QED
      BY <3>1 DEF FlattenSeq
  <2> DEFINE zero == [i \in 0..0 |-> 0]
  <2>2. \A i \in 0..0 : zero[i] \in Nat
    OBVIOUS
  <2>3. Joins(seqs, zero, seqs, 0)
    BY <2>1 DEF Joins
  <2>4. QED
    BY <2>1, <2>2, <2>3
<1>3. CASE N # 0
  <2>1. FlatEquation(seqs, flat)
    BY FlatExists
  <2>2. FlattenSeq(seqs) = flat[N]
    BY <1>3 DEF FlattenSeq, FlatEquation
  <2> HIDE DEF flat, N
  <2>3. \A i \in 1..N : flat[i] = FlatStep(seqs, flat, i)
    <3>1. flat = [i \in 1..N |-> FlatStep(seqs, flat, i)]
      BY <2>1 DEF FlatEquation, FlatStep, N
    <3>2. QED
      BY <3>1, Zenon
  <2>4. off[0] = 0 /\ \A i \in 1..N : off[i] = Len(flat[i])
    BY <1>1
  <2> HIDE DEF off
  <2> DEFINE Joined(n) == /\ flat[n] \in Seq(S)
                          /\ \A i \in 0..n : off[i] \in Nat
                          /\ Joins(flat[n], off, seqs, n)
             T == {n \in 0..N : n = 0 \/ Joined(n)}
  <2>5. 0 \in T
    BY <1>1
  <2>6. ASSUME NEW n \in 0..N - 1, n \in T PROVE n + 1 \in T
    <3>1. /\ n \in Nat /\ n + 1 \in 1..N /\ n + 1 \in 0..N
          /\ \A i \in 1..n + 1 : i \in 1..N
      BY <1>1
    <3>2. CASE n = 0
      <4>1. flat[1] = seqs[1] /\ flat[1] \in Seq(S) /\ n + 1 = 1
        BY <1>1, <2>3, <3>1, <3>2 DEF FlatStep
      <4>2. /\ off[0] = 0 /\ off[1] = Len(seqs[1]) /\ Len(seqs[1]) \in Nat
            /\ \A i \in 1..1 : i = 1 /\ i - 1 = 0
        BY <2>4, <3>1, <4>1
      <4>3. Joins(flat[1], off, seqs, 1) /\ \A i \in 0..1 : off[i] \in Nat
        BY <4>1, <4>2 DEF Joins
      <4>4. QED
        BY <3>1, <4>1, <4>3
    <3>3. CASE n # 0
      <4>1. Joined(n) /\ n \in 1..N
        BY <2>6, <3>1, <3>3
      <4>2. n + 1 # 1 /\ (n + 1) - 1 = n
        BY <3>1, <3>3
      <4>3. flat[n + 1] = flat[n] \o seqs[n + 1] /\ seqs[n + 1] \in Seq(S)
        BY <1>1, <2>3, <3>1, <4>2 DEF FlatStep
      <4>4. flat[n + 1] \in Seq(S) /\ Len(flat[n + 1]) = Len(flat[n]) + Len(seqs[n + 1])
            /\ Len(flat[n + 1]) \in Nat
        <5>1. \A a, b \in Seq(S) : /\ a \o b \in Seq(S) /\ Len(a \o b) \in Nat
                                   /\ Len(a \o b) = Len(a) + Len(b)
          OBVIOUS
        <5>2. flat[n] \in Seq(S)
          BY <4>1
        <5> HIDE DEF Joined
        <5>3. QED
          BY <4>3, <5>1, <5>2
      <4>5. off[n + 1] = off[n] + Len(seqs[n + 1]) /\ off[n + 1] \in Nat
        BY <2>4, <3>1, <4>1, <4>4
      <4>6. \A i \in 0..n + 1 : off[i] \in Nat
        BY <3>1, <4>1, <4>5
      <4>7. \A i \in 1..n + 1 : seqs[i] \in Seq(S)
        BY <1>1, <3>1
      <4>8. Joins(flat[n] \o seqs[n + 1], off, seqs, n + 1)
        BY <3>1, <4>1, <4>5, <4>6, <4>7, JoinsOneMore
      <4>9. Joined(n + 1)
        BY <4>3, <4>4, <4>6, <4>8
      <4>10. QED
        BY <3>1, <4>9
    <3>4. QED
      BY <3>2, <3>3
  <2>7. N \in T
    <3> HIDE DEF T
    <3>1. \A n \in 0..N - 1 : n \in T => n + 1 \in T
      BY <2>6
    <3>2. \A n \in 0..N : n \in T
      BY <1>1, <2>5, <3>1, UpToIsReached
    <3>3. QED
      BY <1>1, <3>2
  <2>8. Joined(N)
    BY <1>3, <2>7
  <2> HIDE DEF Joined
  <2>9. QED
    BY <2>2, <2>8 DEF Joined, N
<1>4. QED
  BY <1>2, <1>3

\* Sequences of one member each are joined to the sequence of these members.
LEMMA FlattensSingletons ==
  ASSUME NEW S, NEW seqs \in Seq(Seq(S)), NEW n \in Nat, Len(seqs) = n, NEW member,
         \A i \in 1..n : Len(seqs[i]) = 1 /\ seqs[i][1] = member[i]
  PROVE  FlattenSeq(seqs) \in Seq(S) /\ Len(FlattenSeq(seqs)) = n
         /\ \A i \in 1..n : FlattenSeq(seqs)[i] = member[i]
<1> DEFINE all == FlattenSeq(seqs)
<1>3. PICK off : (\A i \in 0..n : off[i] \in Nat) /\ Joins(all, off, seqs, n)
  BY Flattens
<1>4. all \in Seq(S)
  BY Flattens
<1> HIDE DEF all
<1> DEFINE T == {m \in 0..n : off[m] = m}
<1>5. \A m \in 0..n : m \in T
  <2>1. 0 \in T
    BY <1>3 DEF Joins
  <2>2. ASSUME NEW m \in 0..n - 1, m \in T PROVE m + 1 \in T
    <3>1. m + 1 \in 1..n /\ (m + 1) - 1 = m /\ off[m] = m
      BY <2>2
    <3>2. off[m + 1] = off[m] + 1
      BY <1>3, <3>1 DEF Joins
    <3>3. QED
      BY <3>1, <3>2
  <2> HIDE DEF T
  <2>3. \A m \in 0..n - 1 : m \in T => m + 1 \in T
    BY <2>2
  <2>4. QED
    BY <2>1, <2>3, UpToIsReached
<1>6. Len(all) = n
  BY <1>3, <1>5 DEF Joins
<1>7. ASSUME NEW i \in 1..n PROVE all[i] = member[i]
  <2>1. i - 1 \in 0..n /\ off[i - 1] = i - 1 /\ (i - 1) + 1 = i
    BY <1>5
  <2>2. 1 \in 1..Len(seqs[i])
    OBVIOUS
  <2>3. all[off[i - 1] + 1] = seqs[i][1]
    BY <1>3, <2>2 DEF Joins
  <2>4. QED
    BY <2>1, <2>3
<1>8. QED
  BY <1>4, <1>6, <1>7 DEF all

-----------------------------------------------------------------------------
(* The levels of a recovered book *)

\* One more order in two totals.
LEMMA BothTotalsAdd ==
  ASSUME NEW left, NEW positions, Quantities(left, positions),
         NEW quantity, NEW orders, Quantities(quantity, orders),
         Total(left, positions) = Total(quantity, orders),
         NEW position, position \notin positions, NEW order, order \notin orders,
         quantity[order] \in Int, left[position] = quantity[order]
  PROVE  /\ Quantities(left, positions \cup {position})
         /\ Quantities(quantity, orders \cup {order})
         /\ Total(left, positions \cup {position}) = Total(quantity, orders \cup {order})
<1>1. Quantities(left, positions \cup {position}) /\ Quantities(quantity, orders \cup {order})
  BY FS_AddElement DEF Quantities
<1>2. Total(left, positions \cup {position}) = Total(left, positions) + left[position]
  BY TotalAdds
<1>3. Total(quantity, orders \cup {order}) = Total(quantity, orders) + quantity[order]
  BY TotalAdds
<1>4. QED
  BY <1>1, <1>2, <1>3

\* A total over the positions of a queue is the total over its orders.
LEMMA TotalOverPositions ==
  ASSUME NEW queue \in Seq(OrderId), NoDuplicates(queue), NEW quantity, NEW left,
         \A i \in 1..Len(queue) : quantity[queue[i]] \in Int /\ left[i] = quantity[queue[i]]
  PROVE  Total(left, 1..Len(queue)) = Total(quantity, Queued(queue))
<1> DEFINE n == Len(queue)
           First(m) == {queue[i] : i \in 1..m}
           Agree(m) == /\ Quantities(left, 1..m)
                       /\ Quantities(quantity, First(m))
                       /\ Total(left, 1..m) = Total(quantity, First(m))
           T == {m \in 0..n : Agree(m)}
<1>1. n \in Nat
  OBVIOUS
<1>2. 0 \in T
  <2>1. 1..0 = {} /\ First(0) = {}
    OBVIOUS
  <2>2. Quantities(left, {}) /\ Quantities(quantity, {})
    BY FS_EmptySet DEF Quantities
  <2>3. Total(left, {}) = 0 /\ Total(quantity, {}) = 0
    BY <2>2, TotalUnfolds
  <2> HIDE DEF First
  <2>4. Agree(0)
    BY <2>1, <2>2, <2>3
  <2>5. QED
    BY <1>1, <2>4
<1>3. ASSUME NEW m \in 0..n - 1, m \in T PROVE m + 1 \in T
  <2>1. Agree(m)
    BY <1>3
  <2>2. m + 1 \in 1..n /\ m + 1 \in 0..n /\ 1..m + 1 = (1..m) \cup {m + 1} /\ m + 1 \notin 1..m
        /\ \A i \in 1..m : i \in 1..n
    OBVIOUS
  <2>3. First(m + 1) = First(m) \cup {queue[m + 1]}
    BY <2>2
  <2>4. queue[m + 1] \notin First(m)
    BY <2>2 DEF NoDuplicates
  <2>5. quantity[queue[m + 1]] \in Int /\ left[m + 1] = quantity[queue[m + 1]]
    BY <2>2
  <2> HIDE DEF First
  <2>6. /\ Quantities(left, (1..m) \cup {m + 1})
        /\ Quantities(quantity, First(m) \cup {queue[m + 1]})
        /\ Total(left, (1..m) \cup {m + 1}) = Total(quantity, First(m) \cup {queue[m + 1]})
    <3> DEFINE positions == 1..m
               orders == First(m)
               position == m + 1
               order == queue[m + 1]
    <3>1. /\ Quantities(left, positions) /\ Quantities(quantity, orders)
          /\ Total(left, positions) = Total(quantity, orders)
          /\ position \notin positions /\ order \notin orders
          /\ quantity[order] \in Int /\ left[position] = quantity[order]
      BY <2>1, <2>2, <2>4, <2>5
    <3> HIDE DEF positions, orders, position, order
    <3>2. /\ Quantities(left, positions \cup {position})
          /\ Quantities(quantity, orders \cup {order})
          /\ Total(left, positions \cup {position}) = Total(quantity, orders \cup {order})
      BY <3>1, BothTotalsAdd
    <3>3. QED
      BY <3>2 DEF positions, orders, position, order
  <2>7. Agree(m + 1)
    BY <2>2, <2>3, <2>6
  <2> HIDE DEF Agree
  <2>8. QED
    BY <2>2, <2>7
<1>4. n \in T
  <2> HIDE DEF T
  <2>1. \A m \in 0..n - 1 : m \in T => m + 1 \in T
    BY <1>3
  <2>2. \A m \in 0..n : m \in T
    BY <1>1, <1>2, <2>1, UpToIsReached
  <2>3. QED
    BY <1>1, <2>2
<1>5. QED
  BY <1>4 DEF Queued

\* An order as it comes back.
Restored(id) == RestoreOrder(OrderSnapshot(id))

\* What the OrderNode is made of is what the resting order was made of.
LEMMA RestoredFields ==
  ASSUME IInv, NEW id \in DOMAIN ordersById
  PROVE  /\ Restored(id) \in Node
         /\ Restored(id).orderId = id
         /\ Restored(id).side = ordersById[id].side
         /\ Restored(id).priceTicks = ordersById[id].priceTicks
         /\ Restored(id).initialQuantity = ordersById[id].initialQuantity
         /\ Restored(id).remainingQuantity = ordersById[id].remainingQuantity
         /\ Restored(id).status = ordersById[id].status
         /\ OrderSnapshot(id).remainingQuantity > 0
<1> DEFINE order == ordersById[id]
<1>1. order \in RestingOrder /\ id \in OrderId
  BY DEF IInv, TypeOK, IsMap
<1>2. /\ order.side \in Side /\ order.priceTicks \in Nat /\ order.initialQuantity \in Nat \ {0}
      /\ order.remainingQuantity \in Nat /\ order.status \in Status
  BY <1>1 DEF RestingOrder
<1>3. order.remainingQuantity > 0
  BY <1>2 DEF IInv, BookInv, RestingIsActive
<1> HIDE DEF order
<1>4. OrderSnapshot(id) =
        [orderId |-> id, side |-> order.side, priceTicks |-> order.priceTicks,
         initialQuantity |-> order.initialQuantity,
         remainingQuantity |-> order.remainingQuantity, status |-> order.status]
  BY DEF OrderSnapshot, order
<1> DEFINE snapshot == OrderSnapshot(id)
           node == NewNode(snapshot.orderId, snapshot.side, "LIMIT", snapshot.priceTicks,
                           snapshot.initialQuantity)
<1>5. /\ snapshot.orderId = id /\ snapshot.side = order.side
      /\ snapshot.priceTicks = order.priceTicks
      /\ snapshot.initialQuantity = order.initialQuantity
      /\ snapshot.remainingQuantity = order.remainingQuantity
      /\ snapshot.status = order.status
  BY <1>4
<1>6. Restored(id) = [node EXCEPT !.remainingQuantity = snapshot.remainingQuantity,
                                  !.status = snapshot.status]
  BY DEF Restored, RestoreOrder
<1> HIDE DEF snapshot
<1>7. /\ node \in Node /\ node.orderId = id /\ node.side = order.side
      /\ node.priceTicks = order.priceTicks /\ node.initialQuantity = order.initialQuantity
  BY <1>1, <1>2, <1>5 DEF NewNode, Node, Status
<1> HIDE DEF node
<1> DEFINE new == Restored(id)
<1>8. /\ new \in Node /\ new.orderId = id /\ new.side = order.side
      /\ new.priceTicks = order.priceTicks /\ new.initialQuantity = order.initialQuantity
      /\ new.remainingQuantity = order.remainingQuantity /\ new.status = order.status
  BY <1>2, <1>5, <1>6, <1>7 DEF Node
<1>9. QED
  BY <1>3, <1>5, <1>8 DEF order, snapshot

LEMMA QueueOfLevel ==
  ASSUME IInv, NEW side \in Side, NEW price \in DOMAIN levels[side]
  PROVE  LET queue == levels[side][price].orders IN
         /\ levels[side][price] \in PriceLevel
         /\ price \in Nat \ {0}
         /\ queue \in Seq(OrderId) /\ Len(queue) \in Nat \ {0}
         /\ NoDuplicates(queue)
         /\ \A k \in 1..Len(queue) : /\ queue[k] \in DOMAIN ordersById
                                     /\ ordersById[queue[k]].side = side
                                     /\ ordersById[queue[k]].priceTicks = price
<1> DEFINE queue == levels[side][price].orders
<1>1. levels[side][price] \in PriceLevel /\ price \in Nat \ {0}
  BY DEF IInv, TypeOK, IsMap
<1>2. queue \in Seq(OrderId) /\ queue # <<>> /\ NoDuplicates(queue)
  BY <1>1 DEF PriceLevel, IInv, BookInv, IndexesAgree
<1>3. Len(queue) \in Nat \ {0}
  BY <1>2, EmptySeq
<1>4. \A k \in 1..Len(queue) : queue[k] \in Queued(queue)
  BY DEF Queued
<1>5. \A id \in Queued(queue) : /\ id \in DOMAIN ordersById
                               /\ ordersById[id].side = side
                               /\ ordersById[id].priceTicks = price
  BY InOneLevel DEF IInv, BookInv
<1> HIDE DEF queue
<1>6. QED
  BY <1>1, <1>2, <1>3, <1>4, <1>5 DEF queue

\* Every order of a level comes back, in its place: none has nothing left.
LEMMA RestoredOrdersOfLevel ==
  ASSUME IInv, NEW side \in Side, NEW price \in DOMAIN levels[side]
  PROVE  LET queue == levels[side][price].orders IN
         /\ RestoredOrders(LevelSnapshot(side, price))
              = [k \in 1..Len(queue) |-> Restored(queue[k])]
         /\ RestoredOrders(LevelSnapshot(side, price)) \in Seq(Node)
<1> DEFINE queue == levels[side][price].orders
           n == Len(queue)
           snapshot == LevelSnapshot(side, price)
           restored == [k \in 1..n |-> Restored(queue[k])]
<1>1. n \in Nat /\ \A k \in 1..n : queue[k] \in DOMAIN ordersById
  BY QueueOfLevel
<1>2. snapshot.orders = [k \in 1..n |-> OrderSnapshot(queue[k])] /\ Len(snapshot.orders) = n
  BY <1>1 DEF LevelSnapshot
<1> HIDE DEF queue, n, snapshot
<1>3. \A k \in 1..n : /\ snapshot.orders[k].remainingQuantity > 0
                      /\ RestoreOrder(snapshot.orders[k]) = restored[k]
                      /\ restored[k] \in Node
  BY <1>1, <1>2, RestoredFields DEF Restored
<1> HIDE DEF restored
<1>4. RestoredOrders(snapshot) = FlattenSeq([k \in 1..n |-> <<restored[k]>>])
  <2>1. [k \in 1..Len(snapshot.orders) |->
           IF snapshot.orders[k].remainingQuantity > 0
           THEN <<RestoreOrder(snapshot.orders[k])>> ELSE <<>>]
          = [k \in 1..n |-> <<restored[k]>>]
    BY <1>2, <1>3
  <2>2. QED
    BY <2>1 DEF RestoredOrders
<1>5. RestoredOrders(snapshot) = [k \in 1..n |-> restored[k]]
  <2>1. \A k \in 1..n : restored[k] \in Node
    BY <1>3
  <2> DEFINE seqs == [k \in 1..n |-> <<restored[k]>>]
             all == FlattenSeq(seqs)
  <2>2. /\ seqs \in Seq(Seq(Node)) /\ Len(seqs) = n
        /\ \A k \in 1..n : Len(seqs[k]) = 1 /\ seqs[k][1] = restored[k]
    BY <1>1, <2>1
  <2> HIDE DEF seqs
  <2>3. all \in Seq(Node) /\ Len(all) = n /\ \A k \in 1..n : all[k] = restored[k]
    BY <1>1, <2>1, <2>2, FlattensSingletons
  <2>4. RestoredOrders(snapshot) = all
    BY <1>4 DEF seqs
  <2> HIDE DEF all
  <2>5. all = [k \in 1..n |-> restored[k]]
    BY <2>3
  <2>6. QED
    BY <2>4, <2>5
<1>6. RestoredOrders(snapshot) \in Seq(Node)
  BY <1>1, <1>3, <1>5
<1>7. QED
  BY <1>5, <1>6 DEF restored, queue, n, snapshot

\* A level is built again as it was.
LEMMA RestoredLevelIsLevel ==
  ASSUME IInv, TotalsMatch, NEW side \in Side, NEW price \in DOMAIN levels[side]
  PROVE  RestoredLevel(LevelSnapshot(side, price)) = levels[side][price]
<1> DEFINE level == levels[side][price]
           queue == level.orders
           n == Len(queue)
           snapshot == LevelSnapshot(side, price)
           orders == RestoredOrders(snapshot)
           left == [k \in 1..Len(orders) |-> orders[k].remainingQuantity]
<1>1. /\ level \in PriceLevel /\ queue \in Seq(OrderId) /\ NoDuplicates(queue)
      /\ n \in Nat /\ \A k \in 1..n : queue[k] \in DOMAIN ordersById
  BY QueueOfLevel
<1>2. orders = [k \in 1..n |-> Restored(queue[k])] /\ Len(orders) = n
  <2>1. orders = [k \in 1..n |-> Restored(queue[k])] /\ orders \in Seq(Node)
    BY RestoredOrdersOfLevel
  <2>2. QED
    BY <1>1, <2>1
<1>3. level.totalQuantity = Total(Remaining, Queued(queue))
  BY TotalsAreTotals
<1>4. RestoredLevel(snapshot) = [orders |-> [k \in 1..Len(orders) |-> orders[k].orderId],
                                 totalQuantity |-> Total(left, 1..Len(orders))]
  BY DEF RestoredLevel, Total
<1> HIDE DEF level, orders, snapshot
<1>5. \A k \in 1..n : /\ orders[k].orderId = queue[k]
                      /\ orders[k].remainingQuantity = Remaining[queue[k]]
                      /\ Remaining[queue[k]] \in Int
  BY <1>1, <1>2, RestoredFields DEF Remaining, Node
<1>6. Total(left, 1..Len(orders)) = Total(Remaining, Queued(queue))
  <2>1. \A k \in 1..Len(queue) : Remaining[queue[k]] \in Int /\ left[k] = Remaining[queue[k]]
    BY <1>2, <1>5
  <2> HIDE DEF left, queue
  <2>2. Total(left, 1..Len(queue)) = Total(Remaining, Queued(queue))
    BY <1>1, <2>1, TotalOverPositions
  <2>3. QED
    BY <1>2, <2>2
<1>7. [k \in 1..Len(orders) |-> orders[k].orderId] = queue
  <2> HIDE DEF queue, left
  <2>1. queue = [k \in 1..n |-> queue[k]]
    BY <1>1
  <2>2. [k \in 1..Len(orders) |-> orders[k].orderId] = [k \in 1..n |-> queue[k]]
    BY <1>2, <1>5
  <2>3. QED
    BY <2>1, <2>2
<1>8. level = [orders |-> level.orders, totalQuantity |-> level.totalQuantity]
  BY <1>1 DEF PriceLevel
<1>9. QED
  BY <1>3, <1>4, <1>6, <1>7, <1>8 DEF level, snapshot

\* A finite number of orders has a finite number of prices.
LEMMA PricesAreFinite ==
  ASSUME IInv, IsFiniteSet(DOMAIN ordersById), NEW side \in Side
  PROVE  IsFiniteSet(DOMAIN levels[side])
<1> DEFINE own == {id \in DOMAIN ordersById : ordersById[id].side = side}
           f == [id \in own |-> ordersById[id].priceTicks]
<1>1. IsFiniteSet(own)
  BY FS_Subset
<1>2. \A id \in own : f[id] \in DOMAIN levels[side]
  BY DEF IInv, BookInv, IndexesAgree
<1>3. ASSUME NEW price \in DOMAIN levels[side] PROVE \E id \in own : f[id] = price
  <2> DEFINE first == levels[side][price].orders[1]
  <2>1. 1 \in 1..Len(levels[side][price].orders)
    BY QueueOfLevel
  <2>2. first \in DOMAIN ordersById /\ ordersById[first].side = side
        /\ ordersById[first].priceTicks = price
    BY <2>1, QueueOfLevel
  <2> HIDE DEF first
  <2>3. QED
    BY <2>2
<1>4. f \in Surjection(own, DOMAIN levels[side])
  BY <1>2, <1>3 DEF Surjection
<1>5. QED
  BY <1>1, <1>4, FS_Surjection

\* The snapshot of a side lists each of its levels once.
Lists(snapshot, prices, n, side) ==
  /\ n \in Nat /\ Len(snapshot) = n
  /\ \A i \in 1..n : prices[i] \in DOMAIN levels[side]
                     /\ snapshot[i] = LevelSnapshot(side, prices[i])
  /\ \A price \in DOMAIN levels[side] : \E i \in 1..n : prices[i] = price
  /\ \A i, j \in 1..n : prices[i] = prices[j] => i = j

LEMMA SnapshotListsLevels ==
  ASSUME IInv, IsFiniteSet(DOMAIN ordersById), NEW side \in Side
  PROVE  \E prices, n : /\ Lists(BookSideSnapshot(side), prices, n, side)
                        /\ BookSideSnapshot(side) = [i \in 1..n |-> LevelSnapshot(side, prices[i])]
<1> DEFINE S == DOMAIN levels[side]
           best == [price \in S |-> IF side = "BUY" THEN -price ELSE price]
           prices == SortedBy(S, best)
           n == Cardinality(S)
<1>1. IsFiniteSet(S) /\ n \in Nat
  BY PricesAreFinite, FS_CardinalityType
<1>2. \A price \in S : price \in Nat \ {0}
  BY QueueOfLevel
<1>3. Keys(S, best)
  BY <1>1, <1>2 DEF Keys
<1>4. Enumerates(prices, S, best)
  BY <1>3, SortedByEnumerates
<1>5. \A price \in S : best[price] \in Int
  BY <1>3 DEF Keys
<1>6. BookSideSnapshot(side) = [i \in 1..Len(prices) |-> LevelSnapshot(side, prices[i])]
  BY DEF BookSideSnapshot
<1> HIDE DEF best, prices, n, S
<1>7. prices \in [1..n -> S] /\ (\A price \in S : \E i \in 1..n : prices[i] = price)
      /\ \A i, j \in 1..n : i < j => best[prices[i]] < best[prices[j]]
  BY <1>4 DEF Enumerates, n
<1>8. Len(prices) = n
  BY <1>1, <1>7, LenProperties
<1>9. ASSUME NEW i \in 1..n, NEW j \in 1..n, prices[i] = prices[j] PROVE i = j
  <2>1. best[prices[i]] \in Int
    BY <1>5, <1>7
  <2>2. ~(i < j) /\ ~(j < i)
    BY <1>7, <1>9, <2>1
  <2>3. QED
    BY <1>1, <2>2
<1>10. Lists(BookSideSnapshot(side), prices, n, side)
  <2> DEFINE snapshot == BookSideSnapshot(side)
  <2>1. /\ snapshot = [i \in 1..n |-> LevelSnapshot(side, prices[i])]
        /\ Len(snapshot) = n
    BY <1>1, <1>6, <1>8
  <2> HIDE DEF snapshot
  <2>2. Lists(snapshot, prices, n, side)
    BY <1>1, <1>7, <1>9, <2>1 DEF Lists, S
  <2>3. QED
    BY <2>2 DEF snapshot
<1>11. QED
  BY <1>6, <1>8, <1>10

\* A side is built again as it was, level for level.
LEMMA RestoredSideIsSide ==
  ASSUME IInv, TotalsMatch, IsFiniteSet(DOMAIN ordersById), NEW side \in Side
  PROVE  RestoredSide(BookSideSnapshot(side)) = levels[side]
<1> DEFINE snapshot == BookSideSnapshot(side)
           kept == {i \in 1..Len(snapshot) : RestoredOrders(snapshot[i]) # <<>>}
           At(price) == CHOOSE i \in kept : snapshot[i].priceTicks = price
<1>1. PICK prices, n : Lists(snapshot, prices, n, side)
  BY SnapshotListsLevels
<1>2. RestoredSide(snapshot) = [price \in {snapshot[i].priceTicks : i \in kept} |->
                                  RestoredLevel(snapshot[At(price)])]
  BY DEF RestoredSide
<1> HIDE DEF snapshot
<1>3. /\ n \in Nat /\ Len(snapshot) = n
      /\ \A i \in 1..n : prices[i] \in DOMAIN levels[side]
                         /\ snapshot[i] = LevelSnapshot(side, prices[i])
  BY <1>1 DEF Lists
<1>4. \A price \in DOMAIN levels[side] : \E i \in 1..n : prices[i] = price
  BY <1>1 DEF Lists
<1>5. \A i, j \in 1..n : prices[i] = prices[j] => i = j
  BY <1>1 DEF Lists
<1>6. ASSUME NEW i \in 1..n
      PROVE  snapshot[i].priceTicks = prices[i] /\ RestoredOrders(snapshot[i]) # <<>>
  <2> DEFINE queue == levels[side][prices[i]].orders
  <2>1. snapshot[i] = LevelSnapshot(side, prices[i]) /\ prices[i] \in DOMAIN levels[side]
    BY <1>3
  <2>2. Len(queue) \in Nat \ {0}
    BY <2>1, QueueOfLevel
  <2>3. RestoredOrders(snapshot[i]) = [k \in 1..Len(queue) |-> Restored(queue[k])]
    BY <2>1, RestoredOrdersOfLevel
  <2>4. snapshot[i].priceTicks = prices[i]
    BY <2>1 DEF LevelSnapshot
  <2> HIDE DEF queue
  <2>5. QED
    BY <2>2, <2>3, <2>4
<1>7. kept = 1..n
  BY <1>3, <1>6
<1> HIDE DEF kept
<1>8. {snapshot[i].priceTicks : i \in kept} = DOMAIN levels[side]
  BY <1>3, <1>4, <1>6, <1>7
<1>9. ASSUME NEW price \in DOMAIN levels[side]
      PROVE  RestoredLevel(snapshot[At(price)]) = levels[side][price]
  <2>1. \E i \in kept : snapshot[i].priceTicks = price
    BY <1>4, <1>6, <1>7
  <2>2. At(price) \in kept /\ snapshot[At(price)].priceTicks = price
    BY <2>1
  <2> HIDE DEF At
  <2>3. snapshot[At(price)] = LevelSnapshot(side, price)
    BY <1>3, <1>6, <1>7, <2>2
  <2>4. QED
    BY <2>3, RestoredLevelIsLevel
<1>10. levels[side] = [price \in DOMAIN levels[side] |-> levels[side][price]]
  BY DEF IInv, TypeOK, IsMap
<1>11. RestoredSide(snapshot) = [price \in DOMAIN levels[side] |-> levels[side][price]]
  BY <1>2, <1>8, <1>9
<1>12. QED
  BY <1>10, <1>11 DEF snapshot

-----------------------------------------------------------------------------
(* The orders of a recovered book *)

\* The i-th level listed is that at prices[i] on sides[i]; every level is listed once.
ListsBook(all, sides, prices, m) ==
  /\ m \in Nat /\ Len(all) = m
  /\ \A i \in 1..m : /\ sides[i] \in Side /\ prices[i] \in DOMAIN levels[sides[i]]
                     /\ all[i] = LevelSnapshot(sides[i], prices[i])
  /\ \A side \in Side : \A price \in DOMAIN levels[side] :
       \E i \in 1..m : sides[i] = side /\ prices[i] = price
  /\ \A i, j \in 1..m : sides[i] = sides[j] /\ prices[i] = prices[j] => i = j

LEMMA SnapshotListsBook ==
  ASSUME IInv, IsFiniteSet(DOMAIN ordersById)
  PROVE  \E sides, prices, m :
           ListsBook(BookSideSnapshot("BUY") \o BookSideSnapshot("SELL"), sides, prices, m)
<1> DEFINE bids == BookSideSnapshot("BUY")
           asks == BookSideSnapshot("SELL")
           all == bids \o asks
<1>1. PICK bidPrices, b : Lists(bids, bidPrices, b, "BUY")
                          /\ bids = [i \in 1..b |-> LevelSnapshot("BUY", bidPrices[i])]
  BY SnapshotListsLevels DEF Side
<1>2. PICK askPrices, a : Lists(asks, askPrices, a, "SELL")
                          /\ asks = [i \in 1..a |-> LevelSnapshot("SELL", askPrices[i])]
  BY SnapshotListsLevels DEF Side
<1> DEFINE m == b + a
           sides == [i \in 1..m |-> IF i <= b THEN "BUY" ELSE "SELL"]
           prices == [i \in 1..m |-> IF i <= b THEN bidPrices[i] ELSE askPrices[i - b]]
           Snapshot == {LevelSnapshot(side, price) : side \in Side, price \in Nat}
<1> HIDE DEF bids, asks
<1>3. a \in Nat /\ b \in Nat /\ m \in Nat
  BY <1>1, <1>2 DEF Lists
<1>4. /\ \A i \in 1..b : bidPrices[i] \in DOMAIN levels["BUY"]
                         /\ bids[i] = LevelSnapshot("BUY", bidPrices[i])
      /\ \A price \in DOMAIN levels["BUY"] : \E i \in 1..b : bidPrices[i] = price
      /\ \A i, j \in 1..b : bidPrices[i] = bidPrices[j] => i = j
  BY <1>1 DEF Lists
<1>5. /\ \A i \in 1..a : askPrices[i] \in DOMAIN levels["SELL"]
                         /\ asks[i] = LevelSnapshot("SELL", askPrices[i])
      /\ \A price \in DOMAIN levels["SELL"] : \E i \in 1..a : askPrices[i] = price
      /\ \A i, j \in 1..a : askPrices[i] = askPrices[j] => i = j
  BY <1>2 DEF Lists
<1>6. /\ Len(all) = m
      /\ \A i \in 1..b : all[i] = bids[i]
      /\ \A i \in 1..a : all[b + i] = asks[i]
  <2> DEFINE S == {bids[i] : i \in 1..b} \cup {asks[i] : i \in 1..a}
  <2>1. bids \in Seq(S) /\ asks \in Seq(S) /\ Len(bids) = b /\ Len(asks) = a
    BY <1>1, <1>2, <1>3
  <2> HIDE DEF S
  <2>2. QED
    BY <1>3, <2>1
<1> HIDE DEF all
<1>7. ASSUME NEW i \in 1..m
      PROVE  \/ i \in 1..b /\ sides[i] = "BUY" /\ prices[i] = bidPrices[i]
             \/ i - b \in 1..a /\ b + (i - b) = i /\ sides[i] = "SELL" /\ prices[i] = askPrices[i - b]
  BY <1>3
<1>8. /\ \A i \in 1..b : i \in 1..m /\ sides[i] = "BUY" /\ prices[i] = bidPrices[i]
      /\ \A i \in 1..a : b + i \in 1..m /\ sides[b + i] = "SELL" /\ prices[b + i] = askPrices[i]
  BY <1>3
<1> HIDE DEF sides, prices, m
<1>9. ASSUME NEW i \in 1..m
      PROVE  /\ sides[i] \in Side /\ prices[i] \in DOMAIN levels[sides[i]]
             /\ all[i] = LevelSnapshot(sides[i], prices[i])
  <2>1. CASE i \in 1..b /\ sides[i] = "BUY" /\ prices[i] = bidPrices[i]
    BY <1>4, <1>6, <2>1 DEF Side
  <2>2. CASE i - b \in 1..a /\ b + (i - b) = i /\ sides[i] = "SELL" /\ prices[i] = askPrices[i - b]
    <3>1. all[b + (i - b)] = asks[i - b]
      BY <1>6, <2>2
    <3>2. all[i] = asks[i - b]
      BY <2>2, <3>1
    <3>3. QED
      BY <1>5, <2>2, <3>2 DEF Side
  <2>3. QED
    BY <1>7, <2>1, <2>2
<1>10. ASSUME NEW side \in Side, NEW price \in DOMAIN levels[side]
       PROVE  \E i \in 1..m : sides[i] = side /\ prices[i] = price
  <2>1. CASE side = "BUY"
    BY <1>4, <1>8, <2>1
  <2>2. CASE side = "SELL"
    <3>1. PICK i \in 1..a : askPrices[i] = price
      BY <1>5, <2>2
    <3>2. QED
      BY <1>8, <2>2, <3>1
  <2>3. QED
    BY <2>1, <2>2 DEF Side
<1>11. ASSUME NEW i \in 1..m, NEW j \in 1..m, sides[i] = sides[j], prices[i] = prices[j]
       PROVE  i = j
  <2>1. CASE i \in 1..b /\ sides[i] = "BUY" /\ prices[i] = bidPrices[i]
    <3>1. j \in 1..b /\ prices[j] = bidPrices[j]
      BY <1>7, <1>11, <2>1
    <3>2. QED
      BY <1>4, <1>11, <2>1, <3>1
  <2>2. CASE i - b \in 1..a /\ b + (i - b) = i /\ sides[i] = "SELL" /\ prices[i] = askPrices[i - b]
    <3>1. j - b \in 1..a /\ b + (j - b) = j /\ prices[j] = askPrices[j - b]
      BY <1>7, <1>11, <2>2
    <3>2. i - b = j - b
      BY <1>5, <1>11, <2>2, <3>1
    <3>3. QED
      BY <2>2, <3>1, <3>2
  <2>3. QED
    BY <1>7, <2>1, <2>2
<1>12. ListsBook(all, sides, prices, m)
  BY <1>3, <1>6, <1>9, <1>10, <1>11 DEF ListsBook, m
<1>13. QED
  BY <1>12 DEF all, bids, asks

\* Every resting order is restored once, at place[id] of `orders', and those of
\* one queue in the order of the queue.
Places(orders, place) ==
  /\ Len(orders) \in Nat
  /\ \A id \in DOMAIN ordersById : place[id] \in 1..Len(orders) /\ orders[place[id]] = Restored(id)
  /\ \A p \in 1..Len(orders) : \E id \in DOMAIN ordersById : place[id] = p
  /\ \A side \in Side : \A price \in DOMAIN levels[side] :
       LET queue == levels[side][price].orders IN
       \A i, j \in 1..Len(queue) : i < j => place[queue[i]] < place[queue[j]]

LEMMA AllOrdersPlaced ==
  ASSUME IInv, IsFiniteSet(DOMAIN ordersById)
  PROVE  \E place : Places(AllOrders(RecoverySnapshot), place)
<1> DEFINE all == BookSideSnapshot("BUY") \o BookSideSnapshot("SELL")
           seqs == [i \in 1..Len(all) |-> RestoredOrders(all[i])]
           orders == FlattenSeq(seqs)
<1>1. AllOrders(RecoverySnapshot) = orders
  BY DEF AllOrders, RecoverySnapshot
<1>2. PICK sides, prices, m : ListsBook(all, sides, prices, m)
  BY SnapshotListsBook
<1> HIDE DEF all
<1> DEFINE queue(i) == levels[sides[i]][prices[i]].orders
<1>3. /\ m \in Nat /\ Len(all) = m
      /\ \A i \in 1..m : /\ sides[i] \in Side /\ prices[i] \in DOMAIN levels[sides[i]]
                         /\ all[i] = LevelSnapshot(sides[i], prices[i])
  BY <1>2 DEF ListsBook
<1>4. ASSUME NEW i \in 1..m
      PROVE  /\ seqs[i] = [k \in 1..Len(queue(i)) |-> Restored(queue(i)[k])]
             /\ seqs[i] \in Seq(Node) /\ Len(seqs[i]) = Len(queue(i))
             /\ Len(queue(i)) \in Nat
             /\ \A k \in 1..Len(queue(i)) : /\ queue(i)[k] \in DOMAIN ordersById
                                            /\ ordersById[queue(i)[k]].side = sides[i]
                                            /\ ordersById[queue(i)[k]].priceTicks = prices[i]
  <2>1. sides[i] \in Side /\ prices[i] \in DOMAIN levels[sides[i]]
        /\ seqs[i] = RestoredOrders(LevelSnapshot(sides[i], prices[i]))
    BY <1>3
  <2>2. seqs[i] = [k \in 1..Len(queue(i)) |-> Restored(queue(i)[k])] /\ seqs[i] \in Seq(Node)
    BY <2>1, RestoredOrdersOfLevel
  <2>3. /\ Len(queue(i)) \in Nat
        /\ \A k \in 1..Len(queue(i)) : /\ queue(i)[k] \in DOMAIN ordersById
                                       /\ ordersById[queue(i)[k]].side = sides[i]
                                       /\ ordersById[queue(i)[k]].priceTicks = prices[i]
    BY <2>1, QueueOfLevel
  <2> HIDE DEF queue, seqs
  <2>4. Len(seqs[i]) = Len(queue(i))
    BY <2>2, <2>3
  <2>5. QED
    BY <2>2, <2>3, <2>4
<1>5. seqs \in Seq(Seq(Node)) /\ Len(seqs) = m
  BY <1>3, <1>4
<1> HIDE DEF seqs
<1>6. PICK off : (\A i \in 0..m : off[i] \in Nat) /\ Joins(orders, off, seqs, m)
  BY <1>5, Flattens
<1>7. orders \in Seq(Node) /\ Len(orders) \in Nat
  BY <1>5, Flattens
<1> HIDE DEF orders
<1>8. ASSUME NEW i \in 1..m, NEW k \in 1..Len(queue(i))
      PROVE  off[i - 1] + k \in 1..Len(orders) /\ orders[off[i - 1] + k] = Restored(queue(i)[k])
  <2>1. k \in 1..Len(seqs[i]) /\ seqs[i][k] = Restored(queue(i)[k])
    BY <1>4
  <2> HIDE DEF queue
  <2>2. off[i - 1] + k \in 1..Len(orders) /\ orders[off[i - 1] + k] = seqs[i][k]
    BY <1>6, <2>1 DEF Joins
  <2>3. QED
    BY <2>1, <2>2
<1>9. ASSUME NEW p \in 1..Len(orders)
      PROVE  \E i \in 1..m : \E k \in 1..Len(queue(i)) : p = off[i - 1] + k
  <2>1. PICK i \in 1..m : \E k \in 1..Len(seqs[i]) : p = off[i - 1] + k
    BY <1>6 DEF Joins
  <2>2. QED
    BY <1>4, <2>1
<1>10. ASSUME NEW i \in 1..m, NEW k \in 1..Len(queue(i)), NEW j \in 1..m, NEW l \in 1..Len(queue(j)),
              queue(i)[k] = queue(j)[l]
       PROVE  i = j /\ k = l
  <2>1. sides[i] = sides[j] /\ prices[i] = prices[j]
    <3>1. ordersById[queue(i)[k]].side = sides[i] /\ ordersById[queue(i)[k]].priceTicks = prices[i]
      BY <1>4
    <3>2. ordersById[queue(j)[l]].side = sides[j] /\ ordersById[queue(j)[l]].priceTicks = prices[j]
      BY <1>4
    <3> HIDE DEF queue
    <3>3. QED
      BY <1>10, <3>1, <3>2
  <2>2. i = j
    BY <1>2, <2>1 DEF ListsBook
  <2>3. NoDuplicates(queue(i))
    BY <1>3, QueueOfLevel
  <2>4. QED
    BY <1>10, <2>2, <2>3 DEF NoDuplicates
<1>11. ASSUME NEW id \in DOMAIN ordersById
       PROVE  \E i \in 1..m : \E k \in 1..Len(queue(i)) : queue(i)[k] = id
  <2> DEFINE side == ordersById[id].side
             price == ordersById[id].priceTicks
  <2>1. side \in Side /\ price \in DOMAIN levels[side]
    BY LevelOfOrder DEF IInv, BookInv
  <2>2. id \in Queued(levels[side][price].orders)
    BY <2>1 DEF IInv, BookInv, IndexesAgree
  <2>3. PICK i \in 1..m : sides[i] = side /\ prices[i] = price
    BY <1>2, <2>1 DEF ListsBook
  <2>4. id \in Queued(queue(i))
    BY <2>2, <2>3
  <2>5. QED
    BY <2>4 DEF Queued
<1> DEFINE Is(p, id) == \E i \in 1..m : \E k \in 1..Len(queue(i)) :
                          p = off[i - 1] + k /\ queue(i)[k] = id
           place == [id \in DOMAIN ordersById |-> CHOOSE p \in 1..Len(orders) : Is(p, id)]
<1>12. ASSUME NEW i \in 1..m, NEW k \in 1..Len(queue(i))
       PROVE  place[queue(i)[k]] = off[i - 1] + k
  <2> DEFINE id == queue(i)[k]
  <2>1. id \in DOMAIN ordersById
    BY <1>4
  <2>2. off[i - 1] + k \in 1..Len(orders) /\ Is(off[i - 1] + k, id)
    BY <1>8
  <2>3. ASSUME NEW p \in 1..Len(orders), Is(p, id) PROVE p = off[i - 1] + k
    <3>1. PICK j \in 1..m : \E l \in 1..Len(queue(j)) : p = off[j - 1] + l /\ queue(j)[l] = id
      BY <2>3
    <3>2. PICK l \in 1..Len(queue(j)) : p = off[j - 1] + l /\ queue(j)[l] = id
      BY <3>1
    <3>3. i = j /\ k = l
      BY <1>10, <3>2
    <3>4. QED
      BY <3>2, <3>3
  <2> HIDE DEF Is, queue
  <2>4. QED
    BY <2>1, <2>2, <2>3
<1> HIDE DEF place
<1>13. ASSUME NEW id \in DOMAIN ordersById
       PROVE  place[id] \in 1..Len(orders) /\ orders[place[id]] = Restored(id)
  <2>1. PICK i \in 1..m : \E k \in 1..Len(queue(i)) : queue(i)[k] = id
    BY <1>11
  <2>2. PICK k \in 1..Len(queue(i)) : queue(i)[k] = id
    BY <2>1
  <2>3. QED
    BY <1>8, <1>12, <2>2
<1>14. ASSUME NEW p \in 1..Len(orders) PROVE \E id \in DOMAIN ordersById : place[id] = p
  <2>1. PICK i \in 1..m : \E k \in 1..Len(queue(i)) : p = off[i - 1] + k
    BY <1>9
  <2>2. PICK k \in 1..Len(queue(i)) : p = off[i - 1] + k
    BY <2>1
  <2>3. place[queue(i)[k]] = p /\ queue(i)[k] \in DOMAIN ordersById
    BY <1>4, <1>12, <2>2
  <2>4. QED
    BY <2>3
<1>15. ASSUME NEW side \in Side, NEW price \in DOMAIN levels[side],
              NEW i \in 1..Len(levels[side][price].orders),
              NEW j \in 1..Len(levels[side][price].orders), i < j
       PROVE  place[levels[side][price].orders[i]] < place[levels[side][price].orders[j]]
  <2>1. PICK n \in 1..m : sides[n] = side /\ prices[n] = price
    BY <1>2 DEF ListsBook
  <2>2. queue(n) = levels[side][price].orders
    BY <2>1
  <2>3. place[queue(n)[i]] = off[n - 1] + i /\ place[queue(n)[j]] = off[n - 1] + j
    BY <1>12, <2>2
  <2>4. off[n - 1] \in Nat /\ i \in Nat /\ j \in Nat
    <3>1. Len(levels[side][price].orders) \in Nat
      BY QueueOfLevel
    <3>2. n - 1 \in 0..m
      BY <1>3
    <3>3. QED
      BY <1>6, <3>1, <3>2
  <2> HIDE DEF queue
  <2>5. QED
    BY <1>15, <2>2, <2>3, <2>4
<1>16. Places(orders, place)
  BY <1>7, <1>13, <1>14, <1>15 DEF Places
<1>17. QED
  BY <1>1, <1>16

\* The orders come back as they were, entered into the Map in the order of `place'.
LEMMA OrdersComeBack ==
  ASSUME IInv, NEW place, Places(AllOrders(RecoverySnapshot), place)
  PROVE  LET map == RestoredOrdersById(RecoverySnapshot) IN
         /\ map = [id \in DOMAIN map |-> map[id]] /\ DOMAIN map = DOMAIN ordersById
         /\ \A id \in DOMAIN ordersById :
              map[id] = [side |-> ordersById[id].side, priceTicks |-> ordersById[id].priceTicks,
                         initialQuantity |-> ordersById[id].initialQuantity,
                         remainingQuantity |-> ordersById[id].remainingQuantity,
                         status |-> ordersById[id].status, rank |-> place[id]]
<1> DEFINE orders == AllOrders(RecoverySnapshot)
           map == RestoredOrdersById(RecoverySnapshot)
           At(id) == CHOOSE k \in 1..Len(orders) : orders[k].orderId = id
           Ids == {orders[i].orderId : i \in 1..Len(orders)}
<1>1. map = [id \in Ids |->
               [side |-> orders[At(id)].side, priceTicks |-> orders[At(id)].priceTicks,
                initialQuantity |-> orders[At(id)].initialQuantity,
                remainingQuantity |-> orders[At(id)].remainingQuantity,
                status |-> orders[At(id)].status, rank |-> At(id)]]
  BY DEF RestoredOrdersById
<1> HIDE DEF orders, map
<1>2. /\ \A id \in DOMAIN ordersById : place[id] \in 1..Len(orders) /\ orders[place[id]] = Restored(id)
      /\ \A p \in 1..Len(orders) : \E id \in DOMAIN ordersById : place[id] = p
  BY DEF Places, orders
<1>3. \A id \in DOMAIN ordersById : orders[place[id]].orderId = id
  BY <1>2, RestoredFields
<1>4. Ids = DOMAIN ordersById
  <2>1. ASSUME NEW id \in DOMAIN ordersById PROVE id \in Ids
    BY <1>2, <1>3
  <2>2. ASSUME NEW p \in 1..Len(orders) PROVE orders[p].orderId \in DOMAIN ordersById
    BY <1>2, <1>3
  <2>3. QED
    BY <2>1, <2>2
<1>5. ASSUME NEW id \in DOMAIN ordersById PROVE At(id) = place[id]
  <2>1. ASSUME NEW k \in 1..Len(orders), orders[k].orderId = id PROVE k = place[id]
    BY <1>2, <1>3, <2>1
  <2>2. place[id] \in 1..Len(orders) /\ orders[place[id]].orderId = id
    BY <1>2, <1>3
  <2>3. QED
    BY <2>1, <2>2
<1> HIDE DEF At, Ids
<1>6. ASSUME NEW id \in DOMAIN ordersById
      PROVE  map[id] = [side |-> ordersById[id].side, priceTicks |-> ordersById[id].priceTicks,
                        initialQuantity |-> ordersById[id].initialQuantity,
                        remainingQuantity |-> ordersById[id].remainingQuantity,
                        status |-> ordersById[id].status, rank |-> place[id]]
  <2>1. orders[At(id)] = Restored(id) /\ At(id) = place[id]
    BY <1>2, <1>5
  <2>2. QED
    BY <1>1, <1>4, <2>1, RestoredFields
<1>7. DOMAIN map = DOMAIN ordersById /\ map = [id \in DOMAIN map |-> map[id]]
  BY <1>1, <1>4
<1>8. QED
  BY <1>6, <1>7 DEF map

\* Two resting orders with the same fields differ at most in their ranks.
LEMMA SameFields ==
  ASSUME NEW order \in RestingOrder, NEW rank,
         NEW new, new = [side |-> order.side, priceTicks |-> order.priceTicks,
                         initialQuantity |-> order.initialQuantity,
                         remainingQuantity |-> order.remainingQuantity,
                         status |-> order.status, rank |-> rank]
  PROVE  SameButRank(order, new)
<1> DEFINE none == [side |-> order.side, priceTicks |-> order.priceTicks,
                    initialQuantity |-> order.initialQuantity,
                    remainingQuantity |-> order.remainingQuantity,
                    status |-> order.status, rank |-> 0]
<1>1. [order EXCEPT !.rank = 0] = none
  BY DEF RestingOrder
<1>2. [new EXCEPT !.rank = 0] = none
  OBVIOUS
<1>3. QED
  BY <1>1, <1>2 DEF SameButRank

-----------------------------------------------------------------------------
(* The stop orders of a recovered book *)

\* No two entries of the Map of stop orders have the same rank, and the next
\* one is behind them all.
StopsAreRanked ==
  /\ IsFiniteSet(DOMAIN stopOrdersById)
  /\ \A id \in DOMAIN stopOrdersById : stopOrdersById[id].rank < clock
  /\ \A a, b \in DOMAIN stopOrdersById :
       stopOrdersById[a].rank = stopOrdersById[b].rank => a = b

\* The stop orders come back as they were, in the order of their Map.
ComesBackAs(old, map, n) ==
  /\ map = [id \in DOMAIN map |-> map[id]] /\ DOMAIN map = DOMAIN old
  /\ \A id \in DOMAIN old : \E rank \in 1..n : map[id] = [old[id] EXCEPT !.rank = rank]
  /\ \A id \in DOMAIN old : map[id].rank \in 1..n
  /\ \A a, b \in DOMAIN old : old[a].rank < old[b].rank <=> map[a].rank < map[b].rank

LEMMA StopsComeBack ==
  ASSUME IInv, StopsAreRanked
  PROVE  /\ Len(StopOrderSnapshots) \in Nat
         /\ ComesBackAs(stopOrdersById, RestoredStops(StopOrderSnapshots), Len(StopOrderSnapshots))
<1> DEFINE S == DOMAIN stopOrdersById
           ranks == [id \in S |-> stopOrdersById[id].rank]
           ids == SortedBy(S, ranks)
           n == Cardinality(S)
           stops == StopOrderSnapshots
           map == RestoredStops(stops)
           At(id) == CHOOSE k \in 1..Len(stops) : stops[k].orderId = id
           Ids == {stops[i].orderId : i \in 1..Len(stops)}
<1>1. /\ n \in Nat /\ \A id \in S : stopOrdersById[id] \in StopOrder
      /\ \A id \in S : stopOrdersById[id].rank \in Nat
  BY FS_CardinalityType DEF StopsAreRanked, IInv, TypeOK, IsMap, StopOrder
<1>2. Keys(S, ranks)
  BY <1>1 DEF Keys, StopsAreRanked
<1>3. Enumerates(ids, S, ranks)
  BY <1>2, SortedByEnumerates
<1>4. stops = [i \in 1..Len(ids) |-> [orderId |-> ids[i], stop |-> stopOrdersById[ids[i]]]]
  BY DEF StopOrderSnapshots
<1>5. map = [id \in Ids |-> [stops[At(id)].stop EXCEPT !.rank = At(id)]]
  BY DEF RestoredStops
<1> HIDE DEF ids, stops, map, n
<1>6. /\ ids \in [1..n -> S] /\ (\A id \in S : \E i \in 1..n : ids[i] = id)
      /\ \A i, j \in 1..n : i < j => ranks[ids[i]] < ranks[ids[j]]
  BY <1>3 DEF Enumerates, n
<1>7. Len(ids) = n /\ Len(stops) = n
      /\ \A i \in 1..n : stops[i].orderId = ids[i] /\ stops[i].stop = stopOrdersById[ids[i]]
  BY <1>1, <1>4, <1>6
<1>8. ASSUME NEW i \in 1..n, NEW j \in 1..n
      PROVE  /\ i < j <=> ranks[ids[i]] < ranks[ids[j]]
             /\ ids[i] = ids[j] => i = j
  <2>1. ranks[ids[i]] \in Nat /\ ranks[ids[j]] \in Nat
    BY <1>1, <1>6
  <2>2. i < j \/ i = j \/ j < i
    BY <1>1
  <2> HIDE DEF ranks
  <2>3. QED
    BY <1>6, <2>1, <2>2
<1>9. Ids = S
  <2>1. \A i \in 1..n : stops[i].orderId \in S
    BY <1>6, <1>7
  <2>2. ASSUME NEW id \in S PROVE \E i \in 1..n : stops[i].orderId = id
    BY <1>6, <1>7
  <2> HIDE DEF S
  <2>3. QED
    BY <1>7, <2>1, <2>2
<1>10. ASSUME NEW id \in S PROVE At(id) \in 1..n /\ ids[At(id)] = id
  BY <1>6, <1>7
<1> HIDE DEF At, Ids
<1>11. DOMAIN map = S /\ map = [id \in DOMAIN map |-> map[id]]
  BY <1>5, <1>9
<1>12. ASSUME NEW id \in S
       PROVE  /\ map[id] = [stopOrdersById[id] EXCEPT !.rank = At(id)]
              /\ map[id].rank = At(id)
  <2>1. stops[At(id)].stop = stopOrdersById[id]
    BY <1>7, <1>10
  <2>2. map[id] = [stopOrdersById[id] EXCEPT !.rank = At(id)]
    BY <1>5, <1>9, <2>1
  <2>3. QED
    BY <1>1, <2>2 DEF StopOrder
<1>13. ASSUME NEW a \in S, NEW b \in S
       PROVE  stopOrdersById[a].rank < stopOrdersById[b].rank <=> map[a].rank < map[b].rank
  <2>1. At(a) < At(b) <=> ranks[ids[At(a)]] < ranks[ids[At(b)]]
    BY <1>8, <1>10
  <2>2. QED
    BY <1>10, <1>12, <2>1
<1>14. ComesBackAs(stopOrdersById, map, n)
  BY <1>10, <1>11, <1>12, <1>13 DEF ComesBackAs
<1>15. QED
  BY <1>1, <1>7, <1>14 DEF map, stops

-----------------------------------------------------------------------------
(* The recovered book *)

Entries == IsFiniteSet(DOMAIN ordersById) /\ StopsAreRanked

RInv == PInv /\ TotalsMatch /\ Entries

\* What a recovery changes.
Replaces(place, n) ==
  /\ UNCHANGED <<levels, sequence, lastTradePriceTicks>>
  /\ ordersById' = [id \in DOMAIN ordersById |-> ordersById'[id]]
  /\ \A id \in DOMAIN ordersById :
       ordersById'[id] = [side |-> ordersById[id].side, priceTicks |-> ordersById[id].priceTicks,
                          initialQuantity |-> ordersById[id].initialQuantity,
                          remainingQuantity |-> ordersById[id].remainingQuantity,
                          status |-> ordersById[id].status, rank |-> place[id]]
  /\ \A id \in DOMAIN ordersById : place[id] \in 1..clock' - 1
  /\ \A side \in Side : \A price \in DOMAIN levels[side] :
       LET queue == levels[side][price].orders IN
       \A i, j \in 1..Len(queue) : i < j => place[queue[i]] < place[queue[j]]
  /\ n \in Nat /\ n < clock' /\ clock' \in Nat
  /\ ComesBackAs(stopOrdersById, stopOrdersById', n)

LEMMA RecoverReplaces ==
  ASSUME RInv, Recover
  PROVE  \E place, n : Replaces(place, n)
<1> DEFINE orders == AllOrders(RecoverySnapshot)
           n == Len(StopOrderSnapshots)
<1>1. /\ levels' = [side \in Side |-> RestoredSide(IF side = "BUY" THEN BookSideSnapshot("BUY")
                                                                 ELSE BookSideSnapshot("SELL"))]
      /\ ordersById' = RestoredOrdersById(RecoverySnapshot)
      /\ stopOrdersById' = RestoredStops(StopOrderSnapshots)
      /\ sequence' = sequence /\ lastTradePriceTicks' = lastTradePriceTicks
      /\ clock' = 1 + Len(orders) + n
  BY DEF Recover, RecoverySnapshot
<1>2. PICK place : Places(orders, place)
  BY AllOrdersPlaced DEF RInv, PInv, Entries
<1>3. levels' = levels
  <2>1. \A side \in Side : RestoredSide(BookSideSnapshot(side)) = levels[side]
    BY RestoredSideIsSide DEF RInv, PInv, Entries
  <2>2. \A side \in Side : levels'[side] = levels[side]
    BY <1>1, <2>1 DEF Side
  <2>3. levels = [side \in Side |-> levels[side]]
    BY DEF RInv, PInv, IInv, TypeOK
  <2>4. levels' = [side \in Side |-> levels'[side]]
    BY <1>1
  <2>5. QED
    BY <2>2, <2>3, <2>4
<1>4. n \in Nat /\ ComesBackAs(stopOrdersById, stopOrdersById', n)
  BY <1>1, StopsComeBack DEF RInv, PInv, Entries
<1>5. /\ DOMAIN ordersById' = DOMAIN ordersById
      /\ ordersById' = [id \in DOMAIN ordersById' |-> ordersById'[id]]
      /\ \A id \in DOMAIN ordersById :
           ordersById'[id] = [side |-> ordersById[id].side, priceTicks |-> ordersById[id].priceTicks,
                              initialQuantity |-> ordersById[id].initialQuantity,
                              remainingQuantity |-> ordersById[id].remainingQuantity,
                              status |-> ordersById[id].status, rank |-> place[id]]
  BY <1>1, <1>2, OrdersComeBack DEF RInv, PInv
<1> HIDE DEF orders, n
<1>6. Len(orders) \in Nat /\ \A id \in DOMAIN ordersById : place[id] \in 1..Len(orders)
  BY <1>2 DEF Places
<1>7. clock' \in Nat /\ n < clock' /\ \A id \in DOMAIN ordersById : place[id] \in 1..clock' - 1
  BY <1>1, <1>4, <1>6
<1>8. \A side \in Side : \A price \in DOMAIN levels[side] :
        LET queue == levels[side][price].orders IN
        \A i, j \in 1..Len(queue) : i < j => place[queue[i]] < place[queue[j]]
  BY <1>2 DEF Places
<1>9. Replaces(place, n)
  BY <1>1, <1>3, <1>4, <1>5, <1>7, <1>8 DEF Replaces
<1>10. QED
  BY <1>9

\* The recovered orders have their types and, but for the ranks, their values.
LEMMA ReplacedOrders ==
  ASSUME IInv, NEW place, NEW n, Replaces(place, n)
  PROVE  /\ DOMAIN ordersById' = DOMAIN ordersById
         /\ IsMap(ordersById', OrderId, RestingOrder)
         /\ \A id \in DOMAIN ordersById :
              /\ ordersById'[id].side = ordersById[id].side
              /\ ordersById'[id].priceTicks = ordersById[id].priceTicks
              /\ ordersById'[id].initialQuantity = ordersById[id].initialQuantity
              /\ ordersById'[id].remainingQuantity = ordersById[id].remainingQuantity
              /\ ordersById'[id].status = ordersById[id].status
              /\ ordersById'[id].rank = place[id] /\ place[id] \in 1..clock' - 1
              /\ SameButRank(ordersById[id], ordersById'[id])
<1>1. DOMAIN ordersById' = DOMAIN ordersById
  BY DEF Replaces
<1>2. ASSUME NEW id \in DOMAIN ordersById
      PROVE  /\ ordersById'[id] \in RestingOrder
             /\ ordersById'[id].side = ordersById[id].side
             /\ ordersById'[id].priceTicks = ordersById[id].priceTicks
             /\ ordersById'[id].initialQuantity = ordersById[id].initialQuantity
             /\ ordersById'[id].remainingQuantity = ordersById[id].remainingQuantity
             /\ ordersById'[id].status = ordersById[id].status
             /\ ordersById'[id].rank = place[id] /\ place[id] \in 1..clock' - 1
             /\ SameButRank(ordersById[id], ordersById'[id])
  <2> DEFINE order == ordersById[id]
             new == ordersById'[id]
  <2>1. new = [side |-> order.side, priceTicks |-> order.priceTicks,
               initialQuantity |-> order.initialQuantity,
               remainingQuantity |-> order.remainingQuantity,
               status |-> order.status, rank |-> place[id]]
    BY DEF Replaces
  <2>2. place[id] \in 1..clock' - 1 /\ clock' \in Nat
    BY DEF Replaces
  <2>3. order \in RestingOrder
    BY DEF IInv, TypeOK, IsMap
  <2> HIDE DEF order, new
  <2>4. new \in RestingOrder
    BY <2>1, <2>2, <2>3 DEF RestingOrder
  <2>5. SameButRank(order, new)
    BY <2>1, <2>3, SameFields
  <2>6. QED
    BY <2>1, <2>2, <2>4, <2>5 DEF order, new
<1>3. IsMap(ordersById', OrderId, RestingOrder)
  <2>1. ordersById' = [id \in DOMAIN ordersById' |-> ordersById'[id]]
    BY <1>1 DEF Replaces
  <2>2. DOMAIN ordersById \subseteq OrderId
    BY DEF IInv, TypeOK, IsMap
  <2>3. QED
    BY <1>1, <1>2, <2>1, <2>2 DEF IsMap
<1>4. QED
  BY <1>1, <1>2, <1>3

\* The recovered stop orders have their types and, but for the ranks, their values.
LEMMA ReplacedStops ==
  ASSUME IInv, StopsAreRanked, NEW place, NEW n, Replaces(place, n)
  PROVE  /\ DOMAIN stopOrdersById' = DOMAIN stopOrdersById
         /\ IsMap(stopOrdersById', OrderId, StopOrder)
         /\ \A id \in DOMAIN stopOrdersById :
              /\ stopOrdersById'[id].side = stopOrdersById[id].side
              /\ stopOrdersById'[id].type = stopOrdersById[id].type
              /\ stopOrdersById'[id].triggerPriceTicks = stopOrdersById[id].triggerPriceTicks
              /\ stopOrdersById'[id].trailingAmountTicks = stopOrdersById[id].trailingAmountTicks
              /\ stopOrdersById'[id].watermark = stopOrdersById[id].watermark
         /\ SameMap(stopOrdersById, stopOrdersById')
         /\ StopsAreRanked'
<1>1. /\ DOMAIN stopOrdersById' = DOMAIN stopOrdersById
      /\ stopOrdersById' = [id \in DOMAIN stopOrdersById' |-> stopOrdersById'[id]]
      /\ \A id \in DOMAIN stopOrdersById :
           \E rank \in 1..n : stopOrdersById'[id] = [stopOrdersById[id] EXCEPT !.rank = rank]
      /\ \A id \in DOMAIN stopOrdersById : stopOrdersById'[id].rank \in 1..n
      /\ \A a, b \in DOMAIN stopOrdersById :
           stopOrdersById[a].rank < stopOrdersById[b].rank
             <=> stopOrdersById'[a].rank < stopOrdersById'[b].rank
      /\ n \in Nat /\ n < clock' /\ clock' \in Nat
  BY DEF Replaces, ComesBackAs
<1>2. \A id \in DOMAIN stopOrdersById : id \in OrderId /\ stopOrdersById[id] \in StopOrder
  BY DEF IInv, TypeOK, IsMap
<1>3. ASSUME NEW id \in DOMAIN stopOrdersById
      PROVE  /\ stopOrdersById'[id] \in StopOrder
             /\ stopOrdersById'[id].side = stopOrdersById[id].side
             /\ stopOrdersById'[id].type = stopOrdersById[id].type
             /\ stopOrdersById'[id].triggerPriceTicks = stopOrdersById[id].triggerPriceTicks
             /\ stopOrdersById'[id].trailingAmountTicks = stopOrdersById[id].trailingAmountTicks
             /\ stopOrdersById'[id].watermark = stopOrdersById[id].watermark
             /\ SameButRank(stopOrdersById[id], stopOrdersById'[id])
  <2> DEFINE old == stopOrdersById[id]
             new == stopOrdersById'[id]
  <2>1. PICK rank \in 1..n : new = [old EXCEPT !.rank = rank]
    BY <1>1
  <2>2. old \in StopOrder /\ rank \in Nat
    BY <1>1, <1>2
  <2> HIDE DEF old, new
  <2>3. /\ new \in StopOrder /\ new.side = old.side /\ new.type = old.type
        /\ new.triggerPriceTicks = old.triggerPriceTicks
        /\ new.trailingAmountTicks = old.trailingAmountTicks /\ new.watermark = old.watermark
    BY <2>1, <2>2 DEF StopOrder
  <2>4. [old EXCEPT !.rank = 0] = [new EXCEPT !.rank = 0]
    BY <2>1, <2>2 DEF StopOrder
  <2>5. QED
    BY <2>3, <2>4 DEF SameButRank, old, new
<1>4. IsMap(stopOrdersById', OrderId, StopOrder)
  BY <1>1, <1>2, <1>3 DEF IsMap
<1>5. SameMap(stopOrdersById, stopOrdersById')
  BY <1>1, <1>3 DEF SameMap
<1>6. StopsAreRanked'
  <2>1. IsFiniteSet(DOMAIN stopOrdersById)'
    BY <1>1 DEF StopsAreRanked
  <2>2. \A id \in DOMAIN stopOrdersById : stopOrdersById'[id].rank < clock'
    BY <1>1
  <2>3. ASSUME NEW a \in DOMAIN stopOrdersById, NEW b \in DOMAIN stopOrdersById,
               stopOrdersById'[a].rank = stopOrdersById'[b].rank
        PROVE  a = b
    <3>1. stopOrdersById'[a].rank \in Nat /\ stopOrdersById'[b].rank \in Nat
      BY <1>1
    <3>2. ~(stopOrdersById[a].rank < stopOrdersById[b].rank)
          /\ ~(stopOrdersById[b].rank < stopOrdersById[a].rank)
      BY <1>1, <2>3, <3>1
    <3>3. stopOrdersById[a].rank \in Nat /\ stopOrdersById[b].rank \in Nat
      BY <1>2 DEF StopOrder
    <3>4. stopOrdersById[a].rank = stopOrdersById[b].rank
      BY <3>2, <3>3
    <3>5. QED
      BY <3>4 DEF StopsAreRanked
  <2>4. QED
    BY <1>1, <2>1, <2>2, <2>3 DEF StopsAreRanked
<1>7. QED
  BY <1>1, <1>3, <1>4, <1>5, <1>6

\* Nothing else of a call is left, and none is running.
LEMMA RecoverInv ==
  ASSUME RInv, Recover
  PROVE  RInv'
<1> USE DEF RInv, PInv
<1>1. PICK place, n : Replaces(place, n)
  BY RecoverReplaces
<1>2. /\ DOMAIN ordersById' = DOMAIN ordersById
      /\ IsMap(ordersById', OrderId, RestingOrder)
      /\ \A id \in DOMAIN ordersById :
           /\ ordersById'[id].side = ordersById[id].side
           /\ ordersById'[id].priceTicks = ordersById[id].priceTicks
           /\ ordersById'[id].initialQuantity = ordersById[id].initialQuantity
           /\ ordersById'[id].remainingQuantity = ordersById[id].remainingQuantity
           /\ ordersById'[id].status = ordersById[id].status
           /\ ordersById'[id].rank = place[id] /\ place[id] \in 1..clock' - 1
  BY <1>1, ReplacedOrders
<1>3. /\ DOMAIN stopOrdersById' = DOMAIN stopOrdersById
      /\ IsMap(stopOrdersById', OrderId, StopOrder)
      /\ StopsAreRanked'
  BY <1>1, ReplacedStops DEF Entries
<1>4. UNCHANGED <<levels, sequence, lastTradePriceTicks>> /\ clock' \in Nat
  BY <1>1 DEF Replaces
<1>5. /\ UNCHANGED <<phase, command, taker, trades, batch, eligible, cycles, triggeredEvents>>
      /\ events' = <<>> /\ outcome' = "none"
  BY DEF Recover
<1>6. TypeOK'
  BY <1>2, <1>3, <1>4, <1>5 DEF IInv, TypeOK
<1>7. BookInv'
  <2>1. Uncrossed'
    BY <1>4 DEF IInv, BookInv, Uncrossed
  <2>2. IndexesAgree'
    <3>1. ASSUME NEW side \in Side, NEW price \in DOMAIN levels[side]
          PROVE  {id \in DOMAIN ordersById : ordersById'[id].side = side
                                             /\ ordersById'[id].priceTicks = price}
                 = {id \in DOMAIN ordersById : ordersById[id].side = side
                                               /\ ordersById[id].priceTicks = price}
      BY <1>2
    <3>2. \A id \in DOMAIN ordersById' :
            ordersById'[id].priceTicks \in DOMAIN levels'[ordersById'[id].side]
      BY <1>2, <1>4 DEF IInv, BookInv, IndexesAgree
    <3>3. ASSUME NEW side \in Side, NEW price \in DOMAIN levels'[side]
          PROVE  LET queue == levels'[side][price].orders IN
                 /\ queue # <<>>
                 /\ NoDuplicates(queue)
                 /\ Queued(queue) = {id \in DOMAIN ordersById' :
                                       /\ ordersById'[id].side = side
                                       /\ ordersById'[id].priceTicks = price}
      BY <1>2, <1>4, <3>1 DEF IInv, BookInv, IndexesAgree
    <3>4. QED
      BY <3>2, <3>3 DEF IndexesAgree
  <2>3. RestingIsActive'
    BY <1>2 DEF IInv, BookInv, RestingIsActive
  <2>4. QED
    BY <2>1, <2>2, <2>3 DEF BookInv
<1>8. CallInv'
  BY <1>2, <1>3, <1>5 DEF IInv, CallInv, Control, TakerIsSound, IdsAreUnique
<1>9. TotalsMatch'
  <2>1. Remaining' = Remaining
    BY <1>2 DEF Remaining
  <2>2. QED
    BY <1>4, <2>1, TotalsAreTotals
<1>10. TimeInv'
  <2>1. ASSUME NEW side \in Side, NEW price \in DOMAIN levels[side]
        PROVE  Sorted(levels[side][price].orders, ordersById')
    <3> DEFINE queue == levels[side][price].orders
    <3>1. \A k \in 1..Len(queue) : queue[k] \in DOMAIN ordersById
      BY QueueOfLevel
    <3>2. \A i, j \in 1..Len(queue) : i < j => place[queue[i]] < place[queue[j]]
      BY <1>1 DEF Replaces
    <3> HIDE DEF queue
    <3>3. Sorted(queue, ordersById')
      BY <1>2, <3>1, <3>2 DEF Sorted
    <3>4. QED
      BY <3>3 DEF queue
  <2>2. QueuesAreSorted'
    BY <1>4, <2>1 DEF QueuesAreSorted
  <2>3. ClockIsAhead'
    BY <1>2, <1>4 DEF ClockIsAhead
  <2>4. QED
    BY <2>2, <2>3 DEF TimeInv
<1>11. Entries'
  BY <1>2, <1>3 DEF Entries
<1>12. QED
  BY <1>6, <1>7, <1>8, <1>9, <1>10, <1>11 DEF IInv

-----------------------------------------------------------------------------
(* The calls between two recoveries *)

\* A step adds one order at most, and the clock goes on by one at most.
AddsOne ==
  /\ clock' \in {clock, clock + 1}
  /\ \E id \in OrderId : DOMAIN ordersById' \subseteq DOMAIN ordersById \cup {id}

LEMMA StepsAddOne ==
  ASSUME IInv, [Next]_vars, OrderId # {}
  PROVE  AddsOne
<1>1. PICK any \in OrderId : TRUE
  OBVIOUS
<1>2. ASSUME UNCHANGED <<ordersById, clock>> PROVE AddsOne
  BY <1>1, <1>2 DEF AddsOne
<1>3. CASE Call
  <2>1. ASSUME NEW order \in Orders,
               \/ PlaceLimitOrder(order)
               \/ PlaceMarketOrder(order)
               \/ RefuseOrder(order)
        PROVE  AddsOne
    BY <1>2, <2>1 DEF PlaceLimitOrder, PlaceMarketOrder, StartMatching, RefuseOrder, Refuse,
                      bookVars
  <2>2. ASSUME NEW order \in Orders, PlaceStopOrder(order) \/ PlaceTrailingStopMarketOrder(order)
        PROVE  AddsOne
    BY <1>1, <2>2 DEF PlaceStopOrder, PlaceTrailingStopMarketOrder, AddStopOrder, AddsOne
  <2>3. ASSUME NEW id \in OrderId, CancelStopOrder(id) \/ RefuseCancel(id) PROVE AddsOne
    BY <1>2, <2>3 DEF CancelStopOrder, RefuseCancel, Refuse, bookVars
  <2>4. ASSUME NEW id \in OrderId, CancelRestingOrder(id) PROVE AddsOne
    BY <1>1, <2>4 DEF CancelRestingOrder, Without, AddsOne
  <2>5. QED
    BY <1>3, <2>1, <2>2, <2>3, <2>4 DEF Call
<1>4. CASE Step
  <2>1. CASE MatchOne
    <3>1. clock' = clock
      BY <2>1 DEF MatchOne
    <3>2. PICK price \in DOMAIN levels[Opposite(taker.side)] :
            \E resting : ordersById' = IF resting.status = "FILLED"
              THEN Without(ordersById, Head(levels[Opposite(taker.side)][price].orders))
              ELSE Put(ordersById, Head(levels[Opposite(taker.side)][price].orders), resting)
      BY <2>1 DEF MatchOne
    <3> DEFINE maker == Head(levels[Opposite(taker.side)][price].orders)
    <3>3. DOMAIN ordersById' \subseteq DOMAIN ordersById \cup {maker}
      BY <3>2 DEF Put, Without
    <3>4. maker \in OrderId
      <4>1. taker.side \in Side
        BY <2>1 DEF MatchOne, IInv, CallInv, Control, TypeOK, Node
      <4>2. Opposite(taker.side) \in Side
        BY <4>1 DEF Opposite, Side
      <4>3. Len(levels[Opposite(taker.side)][price].orders) \in Nat \ {0}
            /\ levels[Opposite(taker.side)][price].orders \in Seq(OrderId)
        BY <4>2, QueueOfLevel
      <4>4. QED
        BY <4>3
    <3> HIDE DEF maker
    <3>5. QED
      BY <3>1, <3>3, <3>4 DEF AddsOne
  <2>2. CASE EndMatching
    <3>1. CASE UNCHANGED bookVars
      BY <1>2, <3>1 DEF bookVars
    <3>2. CASE RestTaker
      <4>1. taker.orderId \in OrderId
        BY <2>2 DEF EndMatching, IInv, CallInv, Control, TypeOK, Node
      <4>2. DOMAIN ordersById' = DOMAIN ordersById \cup {taker.orderId} /\ clock' = clock + 1
        BY <3>2 DEF RestTaker, Put
      <4>3. QED
        BY <4>1, <4>2 DEF AddsOne
    <3>3. QED
      BY <2>2, <3>1, <3>2 DEF EndMatching
  <2>3. CASE NoNewTrades \/ StopCycle \/ CycleLimitExceeded \/ EndCycle \/ Finish
    BY <1>2, <2>3 DEF NoNewTrades, StopCycle, CycleLimitExceeded, EndCycle, Finish, bookVars
  <2>4. ASSUME NEW id \in OrderId, TriggerStopOrder(id) \/ TriggerThrows(id) PROVE AddsOne
    BY <1>2, <2>4 DEF TriggerStopOrder, TriggerThrows, bookVars
  <2>5. QED
    BY <1>4, <2>1, <2>2, <2>3, <2>4 DEF Step
<1>5. CASE UNCHANGED vars
  BY <1>2, <1>5 DEF vars
<1>6. QED
  BY <1>3, <1>4, <1>5 DEF Next

\* The Map of stop orders keeps its order.
LEMMA StopsStayRanked ==
  ASSUME IInv, IInv', StopsAreRanked, [Next]_vars, clock' \in {clock, clock + 1}
  PROVE  StopsAreRanked'
<1>1. /\ IsFiniteSet(DOMAIN stopOrdersById) /\ clock \in Nat
      /\ \A id \in DOMAIN stopOrdersById :
           stopOrdersById[id].rank < clock /\ stopOrdersById[id].rank \in Nat
      /\ \A a, b \in DOMAIN stopOrdersById :
           stopOrdersById[a].rank = stopOrdersById[b].rank => a = b
  BY DEF StopsAreRanked, IInv, TypeOK, IsMap, StopOrder
<1>2. ASSUME DOMAIN stopOrdersById' \in SUBSET DOMAIN stopOrdersById,
             \A id \in DOMAIN stopOrdersById' : stopOrdersById'[id].rank = stopOrdersById[id].rank
      PROVE  StopsAreRanked'
  <2>1. IsFiniteSet(DOMAIN stopOrdersById')
    BY <1>1, <1>2, FS_Subset
  <2>2. QED
    BY <1>1, <1>2, <2>1 DEF StopsAreRanked
<1>3. CASE LosesStops
  BY <1>2, <1>3 DEF LosesStops, Without
<1>4. CASE StopCycle
  <2>1. stopOrdersById' = [id \in DOMAIN stopOrdersById |->
                             UpdateTrailing(stopOrdersById[id], trades[Len(trades)].priceTicks)]
    BY <1>4 DEF StopCycle
  <2>2. ASSUME NEW stop \in StopOrder, NEW last PROVE UpdateTrailing(stop, last).rank = stop.rank
    BY DEF UpdateTrailing, StopOrder
  <2>3. \A id \in DOMAIN stopOrdersById : stopOrdersById[id] \in StopOrder
    BY DEF IInv, TypeOK, IsMap
  <2>4. QED
    BY <1>2, <2>1, <2>2, <2>3
<1>5. ASSUME NEW order \in Orders, PlaceStopOrder(order) \/ PlaceTrailingStopMarketOrder(order)
      PROVE  StopsAreRanked'
  <2> DEFINE id == order.orderId
  <2>1. PICK stop : stopOrdersById' = Put(stopOrdersById, id, stop) /\ stop.rank = clock
    BY <1>5 DEF PlaceStopOrder, PlaceTrailingStopMarketOrder, AddStopOrder
  <2>2. clock' = clock + 1
    BY <1>5 DEF PlaceStopOrder, PlaceTrailingStopMarketOrder, AddStopOrder
  <2> HIDE DEF id
  <2>3. DOMAIN stopOrdersById' = DOMAIN stopOrdersById \cup {id}
        /\ \A other \in DOMAIN stopOrdersById' :
             \/ other = id /\ stopOrdersById'[other].rank = clock
             \/ other \in DOMAIN stopOrdersById /\ stopOrdersById'[other] = stopOrdersById[other]
    BY <2>1 DEF Put
  <2>4. IsFiniteSet(DOMAIN stopOrdersById')
    BY <1>1, <2>3, FS_AddElement
  <2>5. \A other \in DOMAIN stopOrdersById' : stopOrdersById'[other].rank < clock'
    BY <1>1, <2>2, <2>3
  <2>6. \A a, b \in DOMAIN stopOrdersById' :
          stopOrdersById'[a].rank = stopOrdersById'[b].rank => a = b
    BY <1>1, <2>3
  <2>7. QED
    BY <2>4, <2>5, <2>6 DEF StopsAreRanked
<1>6. QED
  BY <1>3, <1>4, <1>5, OtherStepsLoseStops

LEMMA InitRecovery == Init => RInv
<1>1. Init => Entries
  BY FS_EmptySet DEF Init, Entries, StopsAreRanked
<1>2. Init => TotalsMatch
  BY DEF Init, TotalsMatch
<1>3. QED
  BY <1>1, <1>2, InitInv, InitPriority DEF RInv, PInv

\* Every invariant of the book survives calls and recoveries.
LEMMA RecoveryNextInv == RInv /\ [RecoveryNext]_vars => RInv'
<1> SUFFICES ASSUME RInv, [RecoveryNext]_vars PROVE RInv'
  OBVIOUS
<1>1. CASE Recover
  BY <1>1, RecoverInv
<1>2. CASE [Next]_vars
  <2>1. PInv' /\ TotalsMatch'
    BY <1>2, NextPriority, NextTotals DEF RInv, PInv
  <2>2. IsFiniteSet(DOMAIN ordersById)'
    <3>1. CASE OrderId = {}
      <4>1. DOMAIN ordersById' = {}
        BY <2>1, <3>1 DEF PInv, IInv, TypeOK, IsMap
      <4>2. QED
        BY <4>1, FS_EmptySet
    <3>2. CASE OrderId # {}
      <4>1. PICK id \in OrderId : DOMAIN ordersById' \subseteq DOMAIN ordersById \cup {id}
        BY <1>2, <3>2, StepsAddOne DEF RInv, PInv, AddsOne
      <4>2. IsFiniteSet(DOMAIN ordersById \cup {id})
        BY FS_AddElement DEF RInv, Entries
      <4>3. QED
        BY <4>1, <4>2, FS_Subset
    <3>3. QED
      BY <3>1, <3>2
  <2>3. StopsAreRanked'
    <3>1. CASE OrderId = {}
      <4>1. DOMAIN stopOrdersById' = {}
        BY <2>1, <3>1 DEF PInv, IInv, TypeOK, IsMap
      <4>2. QED
        BY <4>1, FS_EmptySet DEF StopsAreRanked
    <3>2. CASE OrderId # {}
      BY <1>2, <2>1, <3>2, StepsAddOne, StopsStayRanked DEF RInv, PInv, Entries, AddsOne
    <3>3. QED
      BY <3>1, <3>2
  <2>4. QED
    BY <2>1, <2>2, <2>3 DEF RInv, Entries
<1>3. QED
  BY <1>1, <1>2 DEF RecoveryNext

\* Whatever calls and recoveries a book goes through, what it is built from stays
\* sound: types, the agreement of levels and orders, totals, the order of the
\* queues and of the stop orders (toRecoverySnapshot, fromRecoverySnapshot).
THEOREM RecoveryInvariance == RecoverySpec => []RInv
  BY InitRecovery, RecoveryNextInv, PTL DEF RecoverySpec

\* A recovered book is a sound book: never crossed, its indexes agree, the totals
\* of its levels are right and every order at rest has something left.
THEOREM BookSurvivesRecovery ==
  RecoverySpec => [](Uncrossed /\ IndexesAgree /\ TotalsMatch /\ RestingIsActive /\ IdsAreUnique)
<1>1. RInv => Uncrossed /\ IndexesAgree /\ TotalsMatch /\ RestingIsActive /\ IdsAreUnique
  BY DEF RInv, PInv, IInv, BookInv, CallInv
<1>2. QED
  BY <1>1, RecoveryInvariance, PTL

\* Time priority survives recoveries.
THEOREM QueuesAlwaysInOrder == RecoverySpec => []QueuesAreInOrder
<1>1. RInv => QueuesAreInOrder
  BY DEF RInv, PInv, TimeInv, QueuesAreSorted, Sorted, QueuesAreInOrder
<1>2. QED
  BY <1>1, RecoveryInvariance, PTL

\* A call that has ended is not unmade: only a recovery makes it so.
LEMMA CallsAreNotUnmade ==
  ASSUME [Next]_vars, outcome # "none"
  PROVE  outcome' # "none"
<1>1. CASE Call
  BY <1>1 DEF Call, PlaceLimitOrder, PlaceMarketOrder, StartMatching, PlaceStopOrder,
              PlaceTrailingStopMarketOrder, AddStopOrder, RefuseOrder, Refuse,
              CancelStopOrder, CancelRestingOrder, RefuseCancel
<1>2. CASE Step
  BY <1>2 DEF Step, MatchOne, EndMatching, NoNewTrades, StopCycle, CycleLimitExceeded,
              TriggerStopOrder, TriggerThrows, EndCycle, Finish, Throw, EndCall
<1>3. CASE UNCHANGED vars
  BY <1>3 DEF vars
<1>4. QED
  BY <1>1, <1>2, <1>3 DEF Next

\* A recovery loses nothing: the book that is built from the snapshot is the one
\* the snapshot was taken of.
THEOREM RecoveryAlwaysFaithful == RecoverySpec => RecoveryIsFaithful
<1> DEFINE Faithful ==
      outcome' = "none" /\ outcome # "none" =>
        /\ levels' = levels
        /\ DOMAIN ordersById' = DOMAIN ordersById
        /\ \A id \in DOMAIN ordersById : SameButRank(ordersById[id], ordersById'[id])
        /\ SameMap(stopOrdersById, stopOrdersById')
        /\ UNCHANGED <<sequence, lastTradePriceTicks>>
<1>1. RInv /\ [RecoveryNext]_vars => [Faithful]_vars
  <2> SUFFICES ASSUME RInv, [RecoveryNext]_vars PROVE Faithful
    OBVIOUS
  <2>1. CASE Recover
    <3>1. PICK place, n : Replaces(place, n)
      BY <2>1, RecoverReplaces
    <3>2. levels' = levels /\ UNCHANGED <<sequence, lastTradePriceTicks>>
      BY <3>1 DEF Replaces
    <3>3. /\ DOMAIN ordersById' = DOMAIN ordersById
          /\ \A id \in DOMAIN ordersById : SameButRank(ordersById[id], ordersById'[id])
      BY <3>1, ReplacedOrders DEF RInv, PInv
    <3>4. SameMap(stopOrdersById, stopOrdersById')
      BY <3>1, ReplacedStops DEF RInv, PInv, Entries
    <3>5. QED
      BY <3>2, <3>3, <3>4
  <2>2. CASE [Next]_vars
    BY <2>2, CallsAreNotUnmade
  <2>3. QED
    BY <2>1, <2>2 DEF RecoveryNext
<1>2. QED
  BY <1>1, RecoveryInvariance, PTL DEF RecoverySpec, RecoveryIsFaithful

\* The stop orders that come back are where they were, and so is the market.
LEMMA RecoverKeepsTriggers ==
  ASSUME RInv, Recover
  PROVE  StepRatchets /\ (TrailsTheMarket => TrailsTheMarket')
<1>1. PICK place, n : Replaces(place, n)
  BY RecoverReplaces
<1>2. /\ DOMAIN stopOrdersById' = DOMAIN stopOrdersById
      /\ \A id \in DOMAIN stopOrdersById :
           /\ stopOrdersById'[id].side = stopOrdersById[id].side
           /\ stopOrdersById'[id].type = stopOrdersById[id].type
           /\ stopOrdersById'[id].triggerPriceTicks = stopOrdersById[id].triggerPriceTicks
           /\ stopOrdersById'[id].trailingAmountTicks = stopOrdersById[id].trailingAmountTicks
           /\ stopOrdersById'[id].watermark = stopOrdersById[id].watermark
  BY <1>1, ReplacedStops DEF RInv, PInv, Entries
<1>3. lastTradePriceTicks' = lastTradePriceTicks
  BY <1>1 DEF Replaces
<1>4. StepRatchets
  BY <1>2, UnchangedRatchets DEF RInv, PInv
<1>5. TrailsTheMarket => TrailsTheMarket'
  BY <1>2, <1>3 DEF TrailsTheMarket
<1>6. QED
  BY <1>4, <1>5

\* Trailing stop orders follow the market through recoveries.
THEOREM TrailsThroughRecovery == RecoverySpec => []TrailsTheMarket
<1>1. Init => TrailsTheMarket
  BY DEF Init, TrailsTheMarket
<1>2. RInv /\ TrailsTheMarket /\ [RecoveryNext]_vars => TrailsTheMarket'
  BY NextTrails, RecoverKeepsTriggers DEF RInv, PInv, RecoveryNext
<1>3. QED
  BY <1>1, <1>2, RecoveryInvariance, PTL DEF RecoverySpec

\* No recovery moves a trigger away from the market either.
THEOREM RatchetsThroughRecovery == RecoverySpec => TriggerRatchets
<1>1. RInv /\ TrailsTheMarket /\ [RecoveryNext]_vars => StepRatchets
  BY NextRatchets, RecoverKeepsTriggers DEF RInv, PInv, RecoveryNext
<1>2. QED
  BY <1>1, RatchetsAsStated, RecoveryInvariance, TrailsThroughRecovery, PTL
     DEF RecoverySpec, TriggerRatchets
=============================================================================
