----------------------------- MODULE MarketFeed -----------------------------
(***************************************************************************)
(* The market data feed of one symbol: the workers of CommandWorker publish *)
(* what became of a command on Redis Pub/Sub once they have acknowledged    *)
(* it, the WebSocket process (apps/websocket.js, api/websocket/            *)
(* socketServer.js) is subscribed and passes it on to the clients in the    *)
(* symbol's room.  Pub/Sub keeps nothing for a subscriber that is away.     *)
(*                                                                         *)
(* A client subscribes first and reads the book from the API afterwards.    *)
(***************************************************************************)
EXTENDS CommandWorker

CONSTANTS
  Client,
  MaxDrops  \* bound on the connections that are lost: a client's or the subscriber's

VARIABLES
  pending,   \* per process: publications that are on their way to Redis
  linked,    \* the subscriber's connection to Redis stands
  inbox,     \* publications on their way to the WebSocket process
  joined,    \* per client: its socket is in the room
  fetched,   \* per client: the book it has read since it joined, or Nobody
  seen,      \* per client: the commands it has been told of since it joined
  told,      \* history: the announcements that have been broadcast
  drops

feedVars == <<inbox, joined, fetched, seen, told>>
linkVars == <<linked, drops>>
allVars == <<vars, pending, feedVars, linkVars>>

-----------------------------------------------------------------------------
(* The worker's publication *)

\* Slip: a command's events are published as soon as it has been executed.
AnnouncesExecuted(p) == At(p, "checkAfterExecution")

\* Slip: nobody is told of a rejection.
AnnouncesProcessed(p) == At(p, "checkBeforeAck")

\* The handler is about to acknowledge a command that it has processed or rejected,
\* not one that it has skipped.
Announces(p) ==
  At(p, "checkBeforeAck") \/ (At(p, "ack") /\ status[delivery[p]] = "REJECTED")

Announcement(p) == [command |-> delivery[p], done |-> ~At(p, "ack")]

\* void publishMarketEvents: nobody waits for it.
HandlerWithFeed(p) ==
  /\ HandlerNext(p)
  /\ pending' = IF Announces(p) THEN [pending EXCEPT ![p] = Append(@, Announcement(p))]
                                ELSE pending
  /\ UNCHANGED <<feedVars, linkVars>>

NextAnnouncement(p) ==
  /\ pending[p] # <<>>
  /\ pending' = [pending EXCEPT ![p] = Tail(@)]

\* PUBLISH reaches whoever is subscribed at the moment.
PublishMarketEvents(p) ==
  /\ NextAnnouncement(p)
  /\ inbox' = IF linked THEN Append(inbox, Head(pending[p])) ELSE inbox
  /\ UNCHANGED <<vars, joined, fetched, seen, told, linkVars>>

\* The catch block of publishMarketEvents logs the error and goes on.
PublicationFails(p) ==
  /\ NextAnnouncement(p)
  /\ failures < MaxFailures
  /\ failures' = failures + 1
  /\ UNCHANGED <<apiVars, brokerVars, storeVars, processVars, crashes, doubts, feedVars,
                 linkVars>>

\* What a process has not yet published goes with it.
CrashWithFeed(p) ==
  /\ Crash(p)
  /\ pending' = [pending EXCEPT ![p] = <<>>]
  /\ UNCHANGED <<feedVars, linkVars>>

-----------------------------------------------------------------------------
(* The WebSocket process *)

\* broadcastDomainEvents, to the sockets of the room
Broadcast ==
  /\ inbox # <<>>
  /\ inbox' = Tail(inbox)
  /\ seen' = [k \in Client |->
                IF joined[k] THEN Append(seen[k], Head(inbox).command) ELSE seen[k]]
  /\ told' = told \cup {Head(inbox)}
  /\ UNCHANGED <<vars, pending, joined, fetched, linkVars>>

\* The subscriber's connection breaks; the client library connects it again.
LinkBreaks ==
  /\ linked
  /\ drops < MaxDrops
  /\ drops' = drops + 1
  /\ linked' = FALSE
  /\ inbox' = <<>>
  /\ UNCHANGED <<vars, pending, joined, fetched, seen, told>>

LinkReturns ==
  /\ ~linked
  /\ linked' = TRUE
  /\ UNCHANGED <<vars, pending, feedVars, drops>>

\* subscribe:book
Join(k) ==
  /\ ~joined[k]
  /\ joined' = [joined EXCEPT ![k] = TRUE]
  /\ UNCHANGED <<vars, pending, inbox, fetched, seen, told, linkVars>>

\* unsubscribe:book, or a socket that is lost and with it its rooms
Leave(k) ==
  /\ joined[k]
  /\ drops < MaxDrops
  /\ drops' = drops + 1
  /\ joined' = [joined EXCEPT ![k] = FALSE]
  /\ fetched' = [fetched EXCEPT ![k] = Nobody]
  /\ seen' = [seen EXCEPT ![k] = <<>>]
  /\ UNCHANGED <<vars, pending, inbox, told, linked>>

\* GET /books/:symbol
Fetch(k) ==
  /\ joined[k] /\ fetched[k] = Nobody
  /\ fetched' = [fetched EXCEPT ![k] = readModel]
  /\ UNCHANGED <<vars, pending, inbox, joined, seen, told, linkVars>>

-----------------------------------------------------------------------------
FeedInit ==
  /\ Init
  /\ pending = [p \in Process |-> <<>>]
  /\ linked = TRUE
  /\ inbox = <<>>
  /\ joined = [k \in Client |-> FALSE]
  /\ fetched = [k \in Client |-> Nobody]
  /\ seen = [k \in Client |-> <<>>]
  /\ told = {}
  /\ drops = 0

\* The steps of CommandWorker that the feed has no part in.
WorkerStep ==
  /\ \/ Api
     \/ \E p \in Process : Deliver(p) \/ CallFails(p) \/ RejectFails(p) \/ Start(p)
  /\ UNCHANGED <<pending, feedVars, linkVars>>

FeedNext ==
  \/ WorkerStep
  \/ \E p \in Process :
       HandlerWithFeed(p) \/ PublishMarketEvents(p) \/ PublicationFails(p) \/ CrashWithFeed(p)
  \/ Broadcast \/ LinkBreaks \/ LinkReturns
  \/ \E k \in Client : Join(k) \/ Leave(k) \/ Fetch(k)

FeedSpec == FeedInit /\ [][FeedNext]_allVars

\* Handlers go on, what is written to Redis is sent, what is received is handled.
FairFeedSpec ==
  /\ FeedSpec
  /\ \A p \in Process :
       WF_allVars(HandlerWithFeed(p)) /\ WF_allVars(PublishMarketEvents(p))
  /\ WF_allVars(Broadcast)

-----------------------------------------------------------------------------
(* Properties *)

\* A client is told of a command once however often it is delivered and, as long
\* as the partition changes hands by crashes only, in the order of the queue.  A
\* worker that reports a loss may still have a publication on its way when its
\* successor publishes.
ToldOnceInOrder ==
  \A k \in Client :
    /\ Promise!Distinct(seen[k])
    /\ doubts = 0 => Promise!KeepsOrder(seen[k], sent)

\* A client that subscribes and then reads the book misses nothing of what has been
\* broadcast: a command whose events came before it had subscribed is in the book it
\* reads, since the read model is saved before the events are published.
NoGap ==
  \A k \in Client : fetched[k] # Nobody =>
    \A m \in told : m.done => m.command \in ToSet(fetched[k]) \cup ToSet(seen[k])

Untold(c) == \A m \in told : m.command # c

\* What a command has come to, its rejection included, is broadcast in the end to
\* whoever is in the room, unless a crash, a failing call or a broken connection
\* comes in between: a handover does not lose it.
OutcomeIsTold ==
  \A k \in Client, c \in Command :
    status[c] \in {"PROCESSED", "REJECTED"} /\ joined[k] /\ Untold(c)
      ~> c \in ToSet(seen[k]) \/ crashes + failures + drops > 0
=============================================================================
