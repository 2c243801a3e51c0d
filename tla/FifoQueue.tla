----------------------------- MODULE FifoQueue -----------------------------
(***************************************************************************)
(* What a price level promises: the orders of each level wait in the order *)
(* in which they came, the first of them is served, any of them may leave. *)
(***************************************************************************)
EXTENDS Naturals, Sequences, SequencesExt

CONSTANTS Level, Order

VARIABLES
  queue,     \* level -> the orders that wait there, the first one first
  quantity   \* order -> what it has left, 0 when it waits nowhere

vars == <<queue, quantity>>

Waiting(order) == \E level \in Level : order \in ToSet(queue[level])

Init ==
  /\ queue = [level \in Level |-> <<>>]
  /\ quantity = [order \in Order |-> 0]

Join(level, order) ==
  /\ ~Waiting(order)
  /\ queue' = [queue EXCEPT ![level] = Append(@, order)]
  /\ quantity' \in {[quantity EXCEPT ![order] = q] : q \in {quantity'[order]} \ {0}}

\* The first order gives up some of its quantity, and its place with the last.
Serve(level) ==
  /\ queue[level] # <<>>
  /\ LET first == Head(queue[level]) IN
     /\ quantity'[first] < quantity[first]
     /\ quantity' = [quantity EXCEPT ![first] = quantity'[first]]
     /\ queue' = IF quantity'[first] = 0 THEN [queue EXCEPT ![level] = Tail(@)]
                                         ELSE queue

Leave(level, order) ==
  /\ \E i \in DOMAIN queue[level] :
       /\ queue[level][i] = order
       /\ queue' = [queue EXCEPT ![level] = RemoveAt(@, i)]
  /\ quantity' = [quantity EXCEPT ![order] = 0]

Next ==
  \E level \in Level :
    \/ Serve(level)
    \/ \E order \in Order : Join(level, order) \/ Leave(level, order)

Spec == Init /\ [][Next]_vars
=============================================================================
