------------------------------ MODULE GoWorker ------------------------------
(***************************************************************************)
(* The Go worker of a partition (go-worker/internal/service, worker and    *)
(* broker).  Its handler takes the steps of CommandWorker's, and differs in *)
(* what surrounds them: one context per run, which a signal or a lost key   *)
(* cancels and without which every call to Redis fails at once, and no      *)
(* standby: a worker waits for the key, recovers, consumes, and ends its    *)
(* process when its turn is over, to be restarted by its container.         *)
(***************************************************************************)
EXTENDS CommandWorker, FiniteSets

CONSTANT
  MaxFaults  \* bound on signals, keys that expire in use, crashes and failing
             \* calls together

VARIABLES
  stage,       \* how far service.Run has come: "waiting", a member of Leading or
               \* "leaving"; "stopped" by an operator; "down" until its container
               \* restarts it
  checkpoint,  \* the snapshot that a recovery in progress started from
  cancelled,   \* runCtx is done
  signalled,   \* SIGINT or SIGTERM has come
  requeued,    \* the broker has put the message in hand back into the queue
  stops, expiries

runVars == <<stage, checkpoint, cancelled, signalled, requeued>>
runFaults == <<stops, expiries>>
goVars == <<vars, runVars, runFaults>>

Leading == {"recovering", "replaying", "connecting", "consuming"}

Enter(p, s) == stage' = [stage EXCEPT ![p] = s]

\* What the steps of service.Run outside its consumer leave as it is.
QuietStores == UNCHANGED <<apiVars, brokerVars, storeVars, handler, held, entry>>

-----------------------------------------------------------------------------
(* service.Run up to the consumer *)

Boot(p) ==
  /\ Enter(p, "waiting")
  /\ QuietStores
  /\ UNCHANGED <<leader, consuming, book, faultVars, checkpoint, cancelled, signalled,
                 requeued, runFaults>>

Restart(p) == stage[p] = "down" /\ Boot(p)

StartAgain(p) == stage[p] = "stopped" /\ Boot(p)

\* waitForLeadership: SET NX with a time to live
Acquire(p) ==
  /\ stage[p] = "waiting"
  /\ leader = Nobody
  /\ leader' = p
  /\ Enter(p, "recovering")
  /\ QuietStores
  /\ UNCHANGED <<consuming, book, faultVars, checkpoint, cancelled, signalled,
                 requeued, runFaults>>

\* Slip: the leadership check is made with a context of its own.
CheckOutlivesContext(p) == At(p, "checkLeadership") \/ ~cancelled[p]

\* A call is made with runCtx.
ContextIsLive(p) == ~cancelled[p]

LoadSnapshot(p) ==
  /\ stage[p] = "recovering"
  /\ ContextIsLive(p)
  /\ Enter(p, "replaying")
  /\ checkpoint' = [checkpoint EXCEPT ![p] = snapshot.id]
  /\ book' = [book EXCEPT ![p] = snapshot.book]
  /\ QuietStores
  /\ UNCHANGED <<leader, consuming, faultVars, cancelled, signalled, requeued, runFaults>>

ReplayRest(p) ==
  /\ stage[p] = "replaying"
  /\ ContextIsLive(p)
  /\ Enter(p, "connecting")
  /\ book' = [book EXCEPT ![p] =
                ApplyAll(@, SubSeq(log, checkpoint[p] + 1, Len(log)))]
  /\ QuietStores
  /\ UNCHANGED <<leader, consuming, faultVars, checkpoint, cancelled, signalled,
                 requeued, runFaults>>

\* RabbitMQ's calls take no context: the consumer may start after a cancellation.
Connect(p) ==
  /\ stage[p] = "connecting"
  /\ Enter(p, "consuming")
  /\ consuming' = [consuming EXCEPT ![p] = TRUE]
  /\ QuietStores
  /\ UNCHANGED <<leader, book, faultVars, checkpoint, cancelled, signalled,
                 requeued, runFaults>>

\* Run returns, and its deferred calls close the channel and cancel the context.
Leave(p) ==
  /\ Enter(p, "leaving")
  /\ consuming' = [consuming EXCEPT ![p] = FALSE]
  /\ cancelled' = [cancelled EXCEPT ![p] = TRUE]
  /\ requeued' = [requeued EXCEPT ![p] = FALSE]
  /\ UNCHANGED <<leader, book, held, checkpoint, signalled, runFaults>>

\* A call fails: it meets the cancelled context, or has an error of its own.
Errs(p) ==
  \/ cancelled[p] /\ UNCHANGED failures
  \/ failures < MaxFailures /\ failures' = failures + 1

\* A call before the consumer is there fails.
GiveUp(p) ==
  /\ stage[p] \in Leading \ {"consuming"}
  /\ Errs(p)
  /\ Leave(p)
  /\ UNCHANGED <<apiVars, brokerVars, storeVars, handler, entry, crashes, doubts>>

-----------------------------------------------------------------------------
(* broker.Consume and Processor.Handle *)

\* The partition is checked before the leadership, without a call.
RejectForeign(p) ==
  /\ At(p, "checkLeadership") /\ ~requeued[p]
  /\ delivery[p] \in Foreign
  /\ DeadLetter(p)
  /\ GoTo(p, "idle")
  /\ UNCHANGED <<apiVars, queue, storeVars, leader, consuming, book, held, entry,
                 faultVars, runVars, runFaults>>

HandlerGoesOn(p) ==
  /\ \/ ContextIsLive(p) /\ StoreStep(p)
     \/ Acknowledge(p) /\ (At(p, "ack") \/ ContextIsLive(p)) /\ ~requeued[p]
  /\ UNCHANGED <<runVars, runFaults>>

\* HasLeadership does not confirm the leadership.
SaysNo(p) == CheckSaysNo(p) \/ (cancelled[p] /\ UNCHANGED doubts)

\* NackRequeue or Ack with LeadershipLost: the consumer returns.
LeadershipLost(p) ==
  /\ ~requeued[p]
  /\ \/ HandBack(p) /\ delivery[p] \notin Foreign
     \/ AcknowledgeLast(p)
  /\ SaysNo(p)
  /\ Leave(p)

\* A call inside the handler fails.  Whether the status of a command that is in
\* the log already could be saved makes no difference to its acknowledgement.
HandlerFails(p) ==
  /\ handler[p] \in Fallible
  /\ Errs(p)
  /\ GoTo(p, IF At(p, "skip") THEN "ack" ELSE "reject")
  /\ UNCHANGED <<apiVars, brokerVars, storeVars, leader, consuming, book, held, entry,
                 crashes, doubts, runVars, runFaults>>

\* Processor.reject fails to save the status, or the call's answer is lost: the
\* command is dead-lettered.
RejectionFails(p) ==
  /\ At(p, "reject") /\ ~requeued[p]
  /\ Errs(p)
  /\ status' = status \/ (status' = Rejection(p) /\ failures' > failures)
  /\ DeadLetter(p)
  /\ GoTo(p, "idle")
  /\ UNCHANGED <<apiVars, queue, log, eventLog, readModel, snapshot, leader, consuming,
                 book, held, entry, crashes, doubts, runVars, runFaults>>

\* The end of the consumer: a delivery that is not settled goes back.
Abandon(p) ==
  /\ ~requeued[p]
  /\ IF delivery[p] = Nobody THEN UNCHANGED <<delivery, queue>> ELSE Requeue(p)
  /\ GoTo(p, "idle")
  /\ Leave(p)
  /\ UNCHANGED <<apiVars, dlq, storeVars, entry, crashes, doubts>>

\* select takes the cancellation, though it may take a delivery first.
Done(p) ==
  /\ consuming[p] /\ cancelled[p]
  /\ handler[p] \in {"idle", "checkLeadership"}
  /\ Abandon(p)
  /\ UNCHANGED failures

\* The connection to RabbitMQ is found lost, in the loop or by an Ack or a Nack.  At
\* "reject" the status cannot be saved either: together they count as one failure.
ConnectionLost(p) ==
  /\ consuming[p]
  /\ handler[p] \in {"idle", "checkLeadership", "checkBeforeAck", "ack", "reject"}
  /\ failures < MaxFailures
  /\ failures' = failures + 1
  /\ Abandon(p)

\* The connection is lost while the handler works, and the broker has the message
\* for others.  As long as p holds the key there are none: then it makes no
\* difference whether the message goes back now or when the handler has ended.
\* Otherwise its key has expired in use, which bounds how often this can happen.
LosesDelivery(p) ==
  /\ consuming[p] /\ leader # p
  /\ delivery[p] # Nobody /\ ~requeued[p]
  /\ queue' = <<delivery[p]>> \o queue
  /\ requeued' = [requeued EXCEPT ![p] = TRUE]
  /\ UNCHANGED <<apiVars, dlq, delivery, storeVars, processVars, faultVars, stage,
                 checkpoint, cancelled, signalled, runFaults>>

\* The handler that has lost its message ends, and its Ack or Nack fails.
SettleFails(p) ==
  /\ requeued[p]
  /\ \/ handler[p] \in {"checkBeforeAck", "ack"} /\ UNCHANGED <<failures, doubts>>
     \/ At(p, "checkLeadership") /\ delivery[p] \in Foreign /\ UNCHANGED <<failures, doubts>>
     \/ handler[p] \in {"checkLeadership", "checkAfterExecution"} /\ SaysNo(p)
          /\ UNCHANGED failures
     \/ At(p, "reject") /\ Errs(p) /\ UNCHANGED doubts
  /\ Settle(p)
  /\ GoTo(p, "idle")
  /\ Leave(p)
  /\ UNCHANGED <<apiVars, queue, dlq, storeVars, entry, crashes>>

-----------------------------------------------------------------------------
(* The heartbeat, signals and the end of the process *)

\* The heartbeat renews the key; an error of a renewal is logged and passed over.
Beats(p) == stage[p] \in Leading /\ ~cancelled[p]

NoticeLoss(p) ==
  /\ Beats(p)
  /\ leader # p
  /\ cancelled' = [cancelled EXCEPT ![p] = TRUE]
  /\ QuietStores
  /\ UNCHANGED <<leader, consuming, book, faultVars, stage, checkpoint, signalled, requeued,
                 runFaults>>

\* An operator leaves one worker of the partition alone.
Signal(p) ==
  /\ \E q \in Process \ {p} : stage[q] # "stopped" /\ ~signalled[q]
  /\ stage[p] \in Leading \cup {"waiting"}
  /\ ~signalled[p]
  /\ stops' = stops + 1
  /\ IF stage[p] = "waiting"
     THEN Enter(p, "stopped") /\ UNCHANGED <<cancelled, signalled>>
     ELSE /\ cancelled' = [cancelled EXCEPT ![p] = TRUE]
          /\ signalled' = [signalled EXCEPT ![p] = TRUE]
          /\ UNCHANGED stage
  /\ QuietStores
  /\ UNCHANGED <<leader, consuming, book, faultVars, checkpoint, requeued, expiries>>

EndRun(p, s) ==
  /\ Enter(p, s)
  /\ checkpoint' = [checkpoint EXCEPT ![p] = 0]
  /\ cancelled' = [cancelled EXCEPT ![p] = FALSE]
  /\ signalled' = [signalled EXCEPT ![p] = FALSE]
  /\ requeued' = [requeued EXCEPT ![p] = FALSE]
  /\ UNCHANGED runFaults

\* Slip: the key is released by whoever holds it.
DropKey(p) == leader' = Nobody

\* The release script deletes the key only of its own holder.
ReleaseKey(p) == leader' = IF leader = p THEN Nobody ELSE leader

\* The last deferred call; its error is ignored, and the key then expires.
Release(p) ==
  /\ stage[p] = "leaving"
  /\ \/ ReleaseKey(p) /\ UNCHANGED failures
     \/ failures < MaxFailures /\ failures' = failures + 1 /\ UNCHANGED leader
  /\ book' = [book EXCEPT ![p] = <<>>]
  /\ EndRun(p, IF signalled[p] THEN "stopped" ELSE "down")
  /\ QuietStores
  /\ UNCHANGED <<consuming, crashes, doubts>>

\* The process ends at once, or its wait for the key fails: the key stays.
GoCrash(p) ==
  /\ stage[p] \notin {"stopped", "down"} /\ ~requeued[p]
  /\ LoseProcess(p)
  /\ EndRun(p, "down")
  /\ UNCHANGED leader

\* The same after its message has gone back already: at most once for each key that
\* expires in use, so that it needs no bound.
CrashEmptyHanded(p) ==
  /\ requeued[p]
  /\ Settle(p)
  /\ GoTo(p, "idle")
  /\ consuming' = [consuming EXCEPT ![p] = FALSE]
  /\ book' = [book EXCEPT ![p] = <<>>]
  /\ EndRun(p, "down")
  /\ UNCHANGED <<apiVars, queue, dlq, storeVars, leader, held, entry, faultVars>>

LoseKey ==
  /\ leader' = Nobody
  /\ QuietStores
  /\ UNCHANGED <<consuming, book, faultVars, runVars, stops>>

\* Of a holder that has returned or is gone.
Expire == leader # Nobody /\ stage[leader] \notin Leading /\ LoseKey /\ UNCHANGED expiries

\* Renewals come too late, or fail, or have ended with the context while a handler
\* still is on its way out, for as long as the key lives.
ExpireInUse ==
  /\ leader # Nobody /\ stage[leader] \in Leading
  /\ expiries' = expiries + 1
  /\ LoseKey

-----------------------------------------------------------------------------
GoInit ==
  /\ Init
  /\ stage = [p \in Process |-> "waiting"]
  /\ checkpoint = [p \in Process |-> 0]
  /\ cancelled = [p \in Process |-> FALSE]
  /\ signalled = [p \in Process |-> FALSE]
  /\ requeued = [p \in Process |-> FALSE]
  /\ stops = 0 /\ expiries = 0

RunStep(p) ==
  \/ Restart(p) \/ Acquire(p) \/ LoadSnapshot(p) \/ ReplayRest(p) \/ Connect(p)
  \/ GiveUp(p) /\ cancelled[p]
  \/ NoticeLoss(p) \/ Release(p)

ConsumerStep(p) ==
  \/ RejectForeign(p) \/ HandlerGoesOn(p) \/ LeadershipLost(p) \/ Done(p)
  \/ SettleFails(p) /\ UNCHANGED failures
  \/ (HandlerFails(p) \/ RejectionFails(p)) /\ cancelled[p]

Fault(p) ==
  \/ GiveUp(p) \/ HandlerFails(p) \/ RejectionFails(p) \/ ConnectionLost(p)
  \/ LosesDelivery(p) \/ SettleFails(p) \/ Signal(p) \/ GoCrash(p) \/ CrashEmptyHanded(p)

Bounded == stops' + expiries' + crashes' + failures' <= MaxFaults

GoStep ==
  \/ Expire \/ ExpireInUse
  \/ Api /\ UNCHANGED <<runVars, runFaults>>
  \/ \E p \in Process :
       \/ Deliver(p) /\ UNCHANGED <<runVars, runFaults>>
       \/ RunStep(p) \/ ConsumerStep(p) \/ Fault(p) \/ StartAgain(p)

GoNext == GoStep /\ Bounded

GoSpec == GoInit /\ [][GoNext]_goVars

\* Every goroutine goes on, the container restarts what was not stopped, and a
\* key that is not renewed expires.  An operator need not start anything again.
FairGoSpec ==
  /\ GoSpec
  /\ \A p \in Process :
       /\ WF_goVars(Deliver(p) /\ UNCHANGED <<runVars, runFaults>>)
       /\ WF_goVars(RunStep(p))
       /\ WF_goVars(ConsumerStep(p))
  /\ WF_goVars(Expire)

-----------------------------------------------------------------------------
(* Properties *)

\* As long as no key expires in use, a partition passes from one worker to the next
\* without harm, through every signal, crash, lost connection and failing call: the
\* log and the event stream are in the queue's order without repetitions, what is
\* stored is a replay of the log, and a recovery builds a book with every PROCESSED
\* command in it.  A worker gives up its consumer before its key.
HandoversAreSafe ==
  expiries = 0 => Promise!Once /\ Promise!InOrder /\ SnapshotIsReplay /\ ProcessedSurvives

\* A worker that ends for a signal or a lost key costs the partition one command
\* at most: the one in hand, whose calls then fail, and which is dead-lettered
\* without a status (Processor.reject under the cancelled context).
EndCostsOneCommand ==
  failures = 0 => Cardinality(dlq \ Foreign) <= stops + expiries

\* Every command that entered the queue is decided in the end, though its status
\* may never say so: it is in the log, rejected or dead-lettered.
EveryCommandIsDecided ==
  \A c \in Command :
    c \in ToSet(sent) ~> c \in ToSet(log) \/ status[c] = "REJECTED" \/ c \in dlq
=============================================================================
