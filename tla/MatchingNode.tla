---------------------------- MODULE MatchingNode ----------------------------
(***************************************************************************)
(* The processes of one partition with leader election instead of turns    *)
(* (application/replication/MatchingNode.js, StandbyReplica.js and          *)
(* infrastructure/redis/RedisLeaderElection.js): a node recovers, replays  *)
(* the command log as a standby, promotes itself when the leader key is    *)
(* free, and is demoted when it finds out that it lost the key.            *)
(*                                                                         *)
(* Three things run side by side in a process and meet at their awaits:    *)
(* the promotion or demotion in progress (stage), the standby's replay     *)
(* loop (replicating) and stop() (stopping); the handler of a delivery is  *)
(* a fourth.  At most one handler runs in a process: prefetch(1), and a     *)
(* consumer that a failed promotion has left behind shares it with the next *)
(* one of its process.                                                     *)
(***************************************************************************)
EXTENDS CommandWorker

CONSTANTS
  MaxLosses,           \* bound on the leader keys a live holder loses: expiries in
                       \* use and graceful stops together
  MaxFailedPromotions, \* bound on the promotions in which a call fails
  MaxFaults,           \* bound on the faults that meet
  GraveWeight          \* how many of them a lost key, a consumer left behind or a
                       \* failing call counts for

VARIABLES
  stage,        \* what the node awaits in a start, a promotion or a demotion, or
                \* "down", "standby" or "active"
  checkpoint,   \* the snapshot that a recovery in progress started from
  replayed,     \* lastReplayedStreamIds of the symbol
  replicating,  \* the replay loop runs
  renewing,     \* the heartbeat renews the leader key
  lossNoted,    \* leadershipLostDuringTransition
  stopping,     \* what stop() awaits: "no", "stopReplica", "release" or "exit"
  reported,     \* leadershipLossReported of the consumer that is registered
  orphan,       \* a consumer is registered whose handle has been overwritten
  expiries, stops, failedPromotions,
  leftovers     \* failed promotions that have left their consumer behind

nodeFaults == <<expiries, stops, failedPromotions, leftovers>>
consumerVars == <<reported, orphan>>
nodeVars == <<stage, checkpoint, replayed, replicating, renewing, lossNoted, stopping,
              consumerVars>>
allVars == <<vars, nodeVars, nodeFaults>>

Promoting == {"stopReplica", "catchUp", "verify", "startConsumer", "confirm", "release"}
Demoting == {"cancelConsumer", "loadSnapshot", "replayRest"}

Enter(p, s) == stage' = [stage EXCEPT ![p] = s]

\* What a step of a node alone leaves as it is.
QuietStores == UNCHANGED <<apiVars, brokerVars, storeVars, handler, entry, faultVars>>

-----------------------------------------------------------------------------
(* Recovery: replayAllSymbolsFromCommandLog({ reset: true }) *)

\* A handler that has executed its command keeps the book it has executed it on.
Detach(p) ==
  held' = IF held[p] = Nobody
             /\ handler[p] \in {"checkAfterExecution"} \cup DOMAIN Following
          THEN [held EXCEPT ![p] = book[p]]
          ELSE held

SetBook(p, b) == book' = [book EXCEPT ![p] = b] /\ Detach(p)

\* An operator starts the process again.
Boot(p) ==
  /\ stage[p] = "down"
  /\ Enter(p, "loadSnapshot")
  /\ SetBook(p, <<>>)
  /\ QuietStores
  /\ UNCHANGED <<leader, consuming, checkpoint, replayed, replicating, renewing,
                 lossNoted, stopping, consumerVars, nodeFaults>>

\* Slip: a node that was demoted goes on with the book it has.
KeepBook(p) == UNCHANGED <<book, held>>

\* bookRegistry.reset()
ResetRegistry(p) == SetBook(p, <<>>)

\* The consumer is cancelled; initialize() empties the registry.
Reset(p) ==
  /\ stage[p] = "cancelConsumer"
  /\ Enter(p, "loadSnapshot")
  /\ ResetRegistry(p)
  /\ QuietStores
  /\ UNCHANGED <<leader, consuming, checkpoint, replayed, replicating, renewing,
                 lossNoted, stopping, consumerVars, nodeFaults>>

\* Without a snapshot the whole log is replayed on the book that is there.
LoadSnapshot(p) ==
  /\ stage[p] = "loadSnapshot"
  /\ Enter(p, "replayRest")
  /\ checkpoint' = [checkpoint EXCEPT ![p] = snapshot.id]
  /\ IF snapshot.id = 0 THEN UNCHANGED <<book, held>> ELSE SetBook(p, snapshot.book)
  /\ QuietStores
  /\ UNCHANGED <<leader, consuming, replayed, replicating, renewing, lossNoted,
                 stopping, consumerVars, nodeFaults>>

\* lastCommandStreamId
LastEntry == Len(log)

ReplayRest(p) ==
  /\ stage[p] = "replayRest"
  /\ Enter(p, "standby")
  /\ book' = [book EXCEPT ![p] =
                ApplyAll(@, SubSeq(log, checkpoint[p] + 1, Len(log)))]
  /\ replayed' = [replayed EXCEPT ![p] = LastEntry]
  /\ replicating' = [replicating EXCEPT ![p] = @ \/ stopping[p] = "no"]
  /\ QuietStores
  /\ UNCHANGED <<leader, consuming, held, checkpoint, renewing, lossNoted, stopping,
                 consumerVars, nodeFaults>>

-----------------------------------------------------------------------------
(* StandbyReplica.replayAvailableCommands, from the loop or from catchUp() *)

Replay(p) ==
  /\ replicating[p] \/ stage[p] = "catchUp"
  /\ replayed[p] < Len(log)
  /\ book' = [book EXCEPT ![p] = Apply(@, log[replayed[p] + 1])]
  /\ replayed' = [replayed EXCEPT ![p] = @ + 1]
  /\ QuietStores
  /\ UNCHANGED <<leader, consuming, held, stage, checkpoint, replicating, renewing,
                 lossNoted, stopping, consumerVars, nodeFaults>>

-----------------------------------------------------------------------------
(* Promotion: checkForPromotion and attemptPromotion *)

\* Slip: SET without NX.
KeyIsSettable == TRUE

KeyIsFree == leader = Nobody

\* SET NX; an attempt that fails changes nothing.
TryAcquire(p) ==
  /\ stage[p] = "standby"
  /\ stopping[p] = "no"
  /\ KeyIsFree
  /\ leader' = p
  /\ Enter(p, "stopReplica")
  /\ lossNoted' = [lossNoted EXCEPT ![p] = FALSE]
  /\ QuietStores
  /\ UNCHANGED <<consuming, book, held, checkpoint, replayed, replicating, renewing,
                 stopping, consumerVars, nodeFaults>>

\* The replay loop has ended its round; the heartbeat starts.
ReplicaStopped(p) ==
  /\ stage[p] = "stopReplica"
  /\ Enter(p, "catchUp")
  /\ replicating' = [replicating EXCEPT ![p] = FALSE]
  /\ renewing' = [renewing EXCEPT ![p] = TRUE]
  /\ QuietStores
  /\ UNCHANGED <<leader, consuming, book, held, checkpoint, replayed, lossNoted,
                 stopping, consumerVars, nodeFaults>>

\* Slip: the promotion does not wait for the rest of the log.
AnyTime(p) == TRUE

NothingLeftToReplay(p) == replayed[p] = Len(log)

CaughtUp(p) ==
  /\ stage[p] = "catchUp"
  /\ NothingLeftToReplay(p)
  /\ Enter(p, "verify")
  /\ QuietStores
  /\ UNCHANGED <<leader, consuming, book, held, checkpoint, replayed, replicating,
                 renewing, lossNoted, stopping, consumerVars, nodeFaults>>

Verify(p) ==
  /\ stage[p] = "verify"
  /\ Enter(p, IF leader = p THEN "startConsumer" ELSE "release")
  /\ QuietStores
  /\ UNCHANGED <<leader, consuming, book, held, checkpoint, replayed, replicating,
                 renewing, lossNoted, stopping, consumerVars, nodeFaults>>

\* The handle of a consumer that is there already is overwritten.  A loss that was
\* noted on the way stops the new consumer as soon as it is there.
StartConsumer(p) ==
  /\ stage[p] = "startConsumer"
  /\ IF lossNoted[p]
     THEN Enter(p, "release") /\ UNCHANGED <<consuming, reported>>
     ELSE /\ Enter(p, "confirm")
          /\ consuming' = [consuming EXCEPT ![p] = TRUE]
          /\ reported' = [reported EXCEPT ![p] = FALSE]
  /\ orphan' = [orphan EXCEPT ![p] = consuming[p]]
  /\ QuietStores
  /\ UNCHANGED <<leader, book, held, checkpoint, replayed, replicating, renewing,
                 lossNoted, stopping, nodeFaults>>

\* Slip: the key that was there before the consumer started is still there.
AssumeHeld(p) == TRUE

\* hasLeadership
HoldsKey(p) == leader = p

\* consumerHandle.stop()
StopConsumer(p) == consuming' = [consuming EXCEPT ![p] = orphan[p]]

Confirm(p) ==
  /\ stage[p] = "confirm"
  /\ IF HoldsKey(p)
     THEN Enter(p, "active") /\ UNCHANGED consuming
     ELSE Enter(p, "release") /\ StopConsumer(p)
  /\ QuietStores
  /\ UNCHANGED <<leader, book, held, checkpoint, replayed, replicating, renewing,
                 lossNoted, stopping, consumerVars, nodeFaults>>

\* A call of the promotion fails before the consumer is started.
PromotionFails(p) ==
  /\ stage[p] \in {"catchUp", "verify", "startConsumer"}
  /\ failedPromotions < MaxFailedPromotions
  /\ failedPromotions' = failedPromotions + 1
  /\ Enter(p, "release")
  /\ QuietStores
  /\ UNCHANGED <<leader, consuming, book, held, checkpoint, replayed, replicating,
                 renewing, lossNoted, stopping, consumerVars, expiries, stops,
                 leftovers>>

\* The last check of the promotion fails: nobody stops the consumer.
ConfirmFails(p) ==
  /\ stage[p] = "confirm"
  /\ failedPromotions < MaxFailedPromotions
  /\ failedPromotions' = failedPromotions + 1
  /\ leftovers' = leftovers + 1
  /\ Enter(p, "release")
  /\ QuietStores
  /\ UNCHANGED <<leader, consuming, book, held, checkpoint, replayed, replicating,
                 renewing, lossNoted, stopping, consumerVars, expiries, stops>>

\* The release script deletes the key only of its own holder.
ReleaseKey(p) == leader' = IF leader = p THEN Nobody ELSE leader

\* An error of the release is logged, and the key then expires.
TryRelease(p) == ReleaseKey(p) \/ UNCHANGED leader

\* The catch block of a promotion, and back to standby.
GiveUpPromotion(p) ==
  /\ stage[p] = "release"
  /\ TryRelease(p)
  /\ Enter(p, "standby")
  /\ renewing' = [renewing EXCEPT ![p] = FALSE]
  /\ replicating' = [replicating EXCEPT ![p] = @ \/ stopping[p] = "no"]
  /\ QuietStores
  /\ UNCHANGED <<consuming, book, held, checkpoint, replayed, lossNoted, stopping,
                 consumerVars, nodeFaults>>

-----------------------------------------------------------------------------
(* Loss of leadership *)

\* handleLeadershipLost: noted during a transition, ignored while stopping, and
\* otherwise the start of a demotion, whose first act is to stop the consumer.
HandleLeadershipLost(p, heartbeat) ==
  IF stage[p] \in Promoting \cup Demoting
  THEN /\ lossNoted' = [lossNoted EXCEPT ![p] = TRUE]
       /\ renewing' = heartbeat
       /\ UNCHANGED <<stage, consuming>>
  ELSE IF stopping[p] # "no"
  THEN renewing' = heartbeat /\ UNCHANGED <<lossNoted, stage, consuming>>
  ELSE /\ Enter(p, "cancelConsumer")
       /\ StopConsumer(p)
       /\ renewing' = [renewing EXCEPT ![p] = FALSE]
       /\ UNCHANGED lossNoted

\* A renewal that finds another holder, or none, ends the heartbeat.
RenewalFails(p) ==
  /\ renewing[p]
  /\ leader # p
  /\ HandleLeadershipLost(p, [renewing EXCEPT ![p] = FALSE])
  /\ QuietStores
  /\ UNCHANGED <<leader, book, held, checkpoint, replayed, replicating, stopping,
                 consumerVars, nodeFaults>>

\* reportLeadershipLost: a consumer reports a loss once.
HandlerReports(p) ==
  /\ ReportingStep(p)
  /\ IF reported[p]
     THEN UNCHANGED <<consuming, stage, renewing, lossNoted>>
     ELSE HandleLeadershipLost(p, renewing)
  /\ reported' = [reported EXCEPT ![p] = consuming'[p]]
  /\ UNCHANGED <<leader, book, held, checkpoint, replayed, replicating, stopping, orphan,
                 nodeFaults>>

-----------------------------------------------------------------------------
(* stop(), and the exit of the process that follows it *)

Stop(p) ==
  /\ stage[p] # "down" /\ stopping[p] = "no"
  /\ expiries + stops < MaxLosses
  /\ stops' = stops + 1
  /\ stopping' = [stopping EXCEPT ![p] = "stopReplica"]
  /\ renewing' = [renewing EXCEPT ![p] = FALSE]
  /\ StopConsumer(p)
  /\ QuietStores
  /\ UNCHANGED <<leader, book, held, stage, checkpoint, replayed, replicating,
                 lossNoted, consumerVars, expiries, failedPromotions, leftovers>>

StopReplica(p) ==
  /\ stopping[p] = "stopReplica"
  /\ stopping' = [stopping EXCEPT ![p] = "release"]
  /\ replicating' = [replicating EXCEPT ![p] = FALSE]
  /\ QuietStores
  /\ UNCHANGED <<leader, consuming, book, held, stage, checkpoint, replayed, renewing,
                 lossNoted, consumerVars, nodeFaults>>

StopRelease(p) ==
  /\ stopping[p] = "release"
  /\ TryRelease(p)
  /\ stopping' = [stopping EXCEPT ![p] = "exit"]
  /\ QuietStores
  /\ UNCHANGED <<consuming, book, held, stage, checkpoint, replayed, replicating,
                 renewing, lossNoted, consumerVars, nodeFaults>>

EndProcess(p) ==
  /\ Enter(p, "down")
  /\ checkpoint' = [checkpoint EXCEPT ![p] = 0]
  /\ replayed' = [replayed EXCEPT ![p] = 0]
  /\ replicating' = [replicating EXCEPT ![p] = FALSE]
  /\ renewing' = [renewing EXCEPT ![p] = FALSE]
  /\ lossNoted' = [lossNoted EXCEPT ![p] = FALSE]
  /\ stopping' = [stopping EXCEPT ![p] = "no"]
  /\ reported' = [reported EXCEPT ![p] = FALSE]
  /\ orphan' = [orphan EXCEPT ![p] = FALSE]
  /\ UNCHANGED <<leader, nodeFaults>>

Exit(p) == stopping[p] = "exit" /\ LoseMemory(p) /\ UNCHANGED crashes /\ EndProcess(p)

\* A crash leaves the leader key until it expires.
NodeCrash(p) == stage[p] # "down" /\ LoseProcess(p) /\ EndProcess(p)

-----------------------------------------------------------------------------
(* The leader key's time to live *)

LoseKey ==
  /\ leader' = Nobody
  /\ UNCHANGED <<apiVars, brokerVars, storeVars, consuming, book, handler, held, entry,
                 faultVars, nodeVars, stops, failedPromotions, leftovers>>

\* Slip: the key is set without an expiry.
Persistent == TRUE

\* The holder renews the key, or is about to start.
InUse == renewing[leader] \/ stage[leader] = "stopReplica"

Expire == leader # Nobody /\ ~InUse /\ LoseKey /\ UNCHANGED expiries

\* The holder is late: a long pause, a slow Redis, a long round of replay.
ExpireInUse ==
  /\ leader # Nobody /\ InUse
  /\ expiries + stops < MaxLosses
  /\ expiries' = expiries + 1
  /\ LoseKey

-----------------------------------------------------------------------------
\* Every node has been started (docker compose up) and begins with its recovery.
NodeInit ==
  /\ Init
  /\ stage = [p \in Process |-> "loadSnapshot"]
  /\ checkpoint = [p \in Process |-> 0]
  /\ replayed = [p \in Process |-> 0]
  /\ replicating = [p \in Process |-> FALSE]
  /\ renewing = [p \in Process |-> FALSE]
  /\ lossNoted = [p \in Process |-> FALSE]
  /\ stopping = [p \in Process |-> "no"]
  /\ reported = [p \in Process |-> FALSE]
  /\ orphan = [p \in Process |-> FALSE]
  /\ expiries = 0 /\ stops = 0 /\ failedPromotions = 0 /\ leftovers = 0

\* The steps a node takes by itself.
NodeStep(p) ==
  \/ Reset(p) \/ LoadSnapshot(p) \/ ReplayRest(p) \/ Replay(p)
  \/ TryAcquire(p) \/ ReplicaStopped(p) \/ CaughtUp(p) \/ Verify(p)
  \/ StartConsumer(p) \/ Confirm(p) \/ GiveUpPromotion(p) \/ RenewalFails(p)
  \/ StopReplica(p) \/ StopRelease(p) \/ Exit(p)

\* One connection to Redis answers in order: the handler of a new consumer is
\* behind the check with which its promotion ends.
HandlerStepOrReport(p) ==
  /\ stage[p] # "confirm"
  /\ \/ QuietStep(p) /\ UNCHANGED <<nodeVars, nodeFaults>>
     \/ HandlerReports(p)

HandlerFails(p) ==
  /\ stage[p] # "confirm"
  /\ CallFails(p) \/ RejectFails(p)
  /\ UNCHANGED <<nodeVars, nodeFaults>>

\* Faults of either kind, together up to MaxFaults.
Bounded ==
  LET light == crashes' + doubts' + failedPromotions' - leftovers'
      grave == expiries' + stops' + leftovers' + failures'
  IN  light + GraveWeight * grave <= MaxFaults

NodeAction ==
  \/ Expire \/ ExpireInUse
  \/ Api /\ UNCHANGED <<nodeVars, nodeFaults>>
  \/ \E p \in Process :
       \/ Deliver(p) /\ UNCHANGED <<nodeVars, nodeFaults>>
       \/ HandlerStepOrReport(p) \/ HandlerFails(p)
       \/ NodeStep(p) \/ PromotionFails(p) \/ ConfirmFails(p)
       \/ Stop(p) \/ NodeCrash(p) \/ Boot(p)

NodeNext == NodeAction /\ Bounded

NodeSpec == NodeInit /\ [][NodeNext]_allVars

\* A process makes progress in each of its activities, and a key that nobody
\* renews expires.  Nothing starts a process again that has ended.
FairNodeSpec ==
  /\ NodeSpec
  /\ \A p \in Process :
       /\ WF_allVars(Deliver(p) /\ UNCHANGED <<nodeVars, nodeFaults>>)
       /\ WF_allVars(HandlerStepOrReport(p))
       /\ WF_allVars(NodeStep(p))
  /\ WF_allVars(Expire)

-----------------------------------------------------------------------------
(* Properties *)

\* No holder has lost its key by an expiry in use or a stop, and no promotion has
\* left its consumer behind.
NoLoss == expiries = 0 /\ stops = 0 /\ leftovers = 0

\* "Each partition queue has only one active consumer" (README.md:489).
OneConsumer == \A p, q \in Process : consuming[p] /\ consuming[q] => p = q

\* The leader key gives a partition one consumer, through crashes, failed checks,
\* demotions, and promotions that fail anywhere but at their last check, as long as
\* no key expires in use and no node is stopped.
KeyGivesOneConsumer == NoLoss => OneConsumer

\* The book of a standby with no handler left is the log up to where its replay
\* has come, after a demotion too: "Rebuild from the durable source before
\* resuming replica mode in case leadership was lost while a command was in
\* flight" (MatchingNode.js:188-189).  It is so as long as nobody has consumed
\* without the key (a handler that has not executed its command when the loss is
\* noticed executes it on the new book) and no call has failed.
StandbyFollowsLog ==
  NoLoss /\ failures = 0 =>
    \A p \in Process :
      stage[p] = "standby" /\ handler[p] = "idle" => book[p] = SubSeq(log, 1, replayed[p])

\* As long as that is so, the nodes are processes that take turns as in
\* CommandWorker: whoever consumes has the turn and starts from the book that a
\* recovery gives.  Up to the first loss, consumer left behind or failing call, the
\* safety properties of CommandWorker therefore hold of the nodes.
TurnLeader ==
  IF \E p \in Process : consuming[p] THEN CHOOSE p \in Process : consuming[p] ELSE Nobody

TurnBook == [p \in Process |-> IF consuming[p] THEN book[p] ELSE <<>>]

Turns == INSTANCE CommandWorker WITH leader <- TurnLeader, book <- TurnBook

ImplementsTurns ==
  /\ Turns!Init
  /\ [][(NoLoss /\ failures = 0)' => Turns!Next \/ UNCHANGED Turns!vars]_allVars

\* A consumer whose key is gone does not stay one: it finds out and stops.  One that
\* a failed promotion has left behind may report its loss in vain, and stay.
LossIsNoticed ==
  \A p \in Process :
    consuming[p] /\ leader # p ~> ~consuming[p] \/ leader = p \/ leftovers > 0

\* As long as a node runs, a partition is never left without an active one for good,
\* whatever was lost on the way ("If a leader dies, its lock expires. The standby
\* for that partition can acquire the lock and promote itself", README.md:480).
SomeNodeLeads ==
  []<>(\/ \E p \in Process : stage[p] = "active" /\ leader = p
       \/ \A p \in Process : stage[p] = "down")
=============================================================================
