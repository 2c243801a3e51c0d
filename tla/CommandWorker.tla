--------------------------- MODULE CommandWorker ---------------------------
(***************************************************************************)
(* The command worker of one partition (workers/orderCommanderWorker.js)   *)
(* with what it reads and writes: the RabbitMQ queue of the partition, the *)
(* Redis stores, and the order book of one symbol in the memory of each    *)
(* process.  The handler of a delivery is modelled with one step per await; *)
(* everything between two awaits happens at once.                          *)
(*                                                                         *)
(* A book is the sequence of the commands that have changed it: executing  *)
(* the same commands in the same order gives the same book.                *)
(*                                                                         *)
(* Spec has the processes take turns: one starts when no other consumes.   *)
(* MatchingNode replaces these turns by leader election.                   *)
(***************************************************************************)
EXTENDS Naturals, Sequences, SequencesExt

CONSTANTS
  Process,      \* worker processes
  Command,
  Nobody,       \* no process, or no command
  Refused,      \* commands that throw and change nothing
  HalfApplied,  \* commands that throw after they have changed the book
  Foreign,      \* messages of another partition's symbol, or that do not parse
  MaxCrashes,   \* bound on the number of crashes
  MaxFailures,  \* bound on the number of calls that fail
  MaxDoubts     \* bound on the number of leadership checks that fail

ASSUME CommandAssumption ==
  /\ Refused \cup HalfApplied \cup Foreign \subseteq Command
  /\ Nobody \notin Process \cup Command

ASSUME BoundsAssumption == MaxCrashes \in Nat /\ MaxFailures \in Nat /\ MaxDoubts \in Nat

VARIABLES
  request,      \* per command: where the API's request stands
  status,       \* per command: the stored command status
  sent,         \* history: the commands in the order they entered the queue
  queue,        \* ready messages of the partition's queue
  dlq,          \* dead-letter queue, as a set
  delivery,     \* per process: the message that is delivered and not settled
  log,          \* command stream, and with it the set of processed ids
  eventLog,     \* event stream: the commands whose events it holds
  readModel,    \* the book that the API serves
  snapshot,     \* recovery snapshot: a book and the length of the log it is at
  leader,       \* value of the partition's leader key
  consuming,    \* per process: its consumer is registered and not stopped
  book,         \* per process: the book in its registry
  handler,      \* per process: what the delivery's handler awaits
  held,         \* per process: the book its handler holds, Nobody when that is
                \* the one in the registry
  entry,        \* per process: stream id of the command the handler appended
  crashes, failures, doubts

apiVars == <<request, sent>>
brokerVars == <<queue, dlq, delivery>>
storeVars == <<log, eventLog, readModel, snapshot, status>>
processVars == <<leader, consuming, book, handler, held, entry>>
faultVars == <<crashes, failures, doubts>>
vars == <<apiVars, brokerVars, storeVars, processVars, faultVars>>

HandlerStep ==
  {"idle", "checkLeadership", "isCommandProcessed", "checkAfterExecution",
   "appendCommand", "appendEvents", "saveReadModel", "saveSnapshot",
   "saveProcessed", "checkBeforeAck", "skip", "reject", "ack"}

CommandStatus == {"none", "QUEUED", "PROCESSED", "REJECTED"}

-----------------------------------------------------------------------------
(* The API: a status first, then the message (bookRoutes.js) *)

SaveQueued(c) ==
  /\ request[c] = "none"
  /\ request' = [request EXCEPT ![c] = "saved"]
  /\ status' = [status EXCEPT ![c] = "QUEUED"]
  /\ UNCHANGED <<sent, brokerVars, log, eventLog, readModel, snapshot,
                 processVars, faultVars>>

\* sendToQueue may queue the message and still report a full write buffer.
Publish(c) ==
  /\ request[c] = "saved"
  /\ \/ request' = [request EXCEPT ![c] = "accepted"] /\ UNCHANGED failures
     \/ /\ failures < MaxFailures
        /\ request' = [request EXCEPT ![c] = "failed"]
        /\ failures' = failures + 1
  /\ queue' = Append(queue, c)
  /\ sent' = Append(sent, c)
  /\ UNCHANGED <<dlq, delivery, storeVars, processVars, crashes, doubts>>

PublishFails(c) ==
  /\ request[c] = "saved"
  /\ failures < MaxFailures
  /\ request' = [request EXCEPT ![c] = "failed"]
  /\ failures' = failures + 1
  /\ UNCHANGED <<sent, brokerVars, storeVars, processVars, crashes, doubts>>

-----------------------------------------------------------------------------
(* RabbitMQ, as the channel's calls use it *)

\* The broker forgets the delivery: ack, or part of a nack.
Settle(p) == delivery' = [delivery EXCEPT ![p] = Nobody]

\* nack without requeue: the queue's dead-letter exchange gets the message.
DeadLetter(p) == Settle(p) /\ dlq' = dlq \cup {delivery[p]}

\* nack with requeue puts the message back where it was: at the head.
Requeue(p) == Settle(p) /\ queue' = <<delivery[p]>> \o queue

\* The consumer gets the next message once its last one is settled: prefetch(1).
Deliver(p) ==
  /\ consuming[p]
  /\ delivery[p] = Nobody
  /\ handler[p] = "idle"
  /\ queue # <<>>
  /\ delivery' = [delivery EXCEPT ![p] = Head(queue)]
  /\ queue' = Tail(queue)
  /\ handler' = [handler EXCEPT ![p] = "checkLeadership"]
  /\ UNCHANGED <<apiVars, dlq, storeVars, leader, consuming, book, held, entry,
                 faultVars>>

-----------------------------------------------------------------------------
(* The handler, one action per await *)

\* checkLeadership
Leads(p) == consuming[p] /\ leader = p

At(p, step) == handler[p] = step

GoTo(p, step) == handler' = [handler EXCEPT ![p] = step]

\* The process is not the leader any more, or the check itself fails.
CheckSaysNo(p) ==
  \/ ~Leads(p) /\ UNCHANGED doubts
  \/ /\ doubts < MaxDoubts
     /\ doubts' = doubts + 1

\* Slip: the message is published again, behind the ones that wait.
Republish(p) == Settle(p) /\ queue' = Append(queue, delivery[p])

\* channel.nack(message, false, true)
NackAndRequeue(p) == Requeue(p)

\* Not the leader, before or after the execution: the message goes back and the
\* loss is reported.  What the process makes of the report, here and after an
\* acknowledgement, is said by leader', consuming', book' and held'.
HandBack(p) ==
  /\ At(p, "checkLeadership") \/ At(p, "checkAfterExecution")
  /\ NackAndRequeue(p)
  /\ GoTo(p, "idle")
  /\ UNCHANGED <<apiVars, dlq, storeVars, entry, crashes, failures>>

GiveBack(p) == HandBack(p) /\ CheckSaysNo(p)

Accept(p) ==
  /\ At(p, "checkLeadership")
  /\ Leads(p)
  /\ delivery[p] \notin Foreign
  /\ GoTo(p, "isCommandProcessed")
  /\ UNCHANGED <<apiVars, brokerVars, storeVars, leader, consuming, book, held,
                 entry, faultVars>>

RefuseForeign(p) ==
  /\ At(p, "checkLeadership")
  /\ Leads(p)
  /\ delivery[p] \in Foreign
  /\ DeadLetter(p)
  /\ GoTo(p, "idle")
  /\ UNCHANGED <<apiVars, queue, storeVars, leader, consuming, book, held,
                 entry, faultVars>>

\* Slip: nothing is ever found in the set of processed ids.
NeverProcessed(c) == FALSE

\* isCommandProcessed
IsProcessed(c) == c \in ToSet(log)

Throws(c) == c \in Refused \cup HalfApplied

\* executeOrderCommand
Apply(old, c) == IF c \in Refused THEN old ELSE Append(old, c)

SkipProcessed(p) ==
  /\ At(p, "isCommandProcessed")
  /\ IsProcessed(delivery[p])
  /\ GoTo(p, "skip")
  /\ UNCHANGED <<apiVars, brokerVars, storeVars, leader, consuming, book, held,
                 entry, faultVars>>

Execute(p) ==
  /\ At(p, "isCommandProcessed")
  /\ ~IsProcessed(delivery[p])
  /\ book' = [book EXCEPT ![p] = Apply(@, delivery[p])]
  /\ held' = [held EXCEPT ![p] = Nobody]
  /\ GoTo(p, IF Throws(delivery[p]) THEN "reject" ELSE "checkAfterExecution")
  /\ UNCHANGED <<apiVars, brokerVars, storeVars, leader, consuming, entry,
                 faultVars>>

\* Slip: the status is written as soon as the command has been executed.
StatusFirst ==
  [checkAfterExecution |-> "saveProcessed", saveProcessed |-> "appendCommand",
   appendCommand |-> "appendEvents", appendEvents |-> "saveReadModel",
   saveReadModel |-> "saveSnapshot", saveSnapshot |-> "checkBeforeAck"]

\* Slip: the events are written before the command is logged.
EventsFirst ==
  [checkAfterExecution |-> "appendEvents", appendEvents |-> "appendCommand",
   appendCommand |-> "saveReadModel", saveReadModel |-> "saveSnapshot",
   saveSnapshot |-> "saveProcessed", saveProcessed |-> "checkBeforeAck"]

\* The order of the handler's awaits after the execution.
Following ==
  [checkAfterExecution |-> "appendCommand", appendCommand |-> "appendEvents",
   appendEvents |-> "saveReadModel", saveReadModel |-> "saveSnapshot",
   saveSnapshot |-> "saveProcessed", saveProcessed |-> "checkBeforeAck"]

StillLeads(p) ==
  /\ At(p, "checkAfterExecution")
  /\ Leads(p)
  /\ GoTo(p, Following["checkAfterExecution"])
  /\ UNCHANGED <<apiVars, brokerVars, storeVars, leader, consuming, book, held,
                 entry, faultVars>>

\* A call to Redis returns and the handler goes on, or the call takes effect and
\* fails nevertheless, and the handler's catch block is next.
CallReturns(p, step) ==
  \/ GoTo(p, Following[step]) /\ UNCHANGED failures
  \/ failures < MaxFailures /\ failures' = failures + 1 /\ GoTo(p, "reject")

\* Slip: the id of the entry that comes after the new one.
EntryAfterNew == Len(log) + 2

\* Slip: the command before the one that was appended.
PreviousEntry == Len(log)

\* appendProcessedCommand returns the id of the new entry.
NewEntry == Len(log) + 1

AppendCommand(p) ==
  /\ At(p, "appendCommand")
  /\ log' = Append(log, delivery[p])
  /\ entry' = [entry EXCEPT ![p] = NewEntry]
  /\ CallReturns(p, "appendCommand")
  /\ UNCHANGED <<apiVars, brokerVars, eventLog, readModel, snapshot, status,
                 leader, consuming, book, held, crashes, doubts>>

AppendEvents(p) ==
  /\ At(p, "appendEvents")
  /\ eventLog' = Append(eventLog, delivery[p])
  /\ CallReturns(p, "appendEvents")
  /\ UNCHANGED <<apiVars, brokerVars, log, readModel, snapshot, status, leader,
                 consuming, book, held, entry, crashes, doubts>>

HeldBook(p) == IF held[p] = Nobody THEN book[p] ELSE held[p]

\* persistReadModel awaits the read model's snapshot and then the recent trades: one
\* step, as the trades are left out.
SaveReadModel(p) ==
  /\ At(p, "saveReadModel")
  /\ readModel' = HeldBook(p)
  /\ CallReturns(p, "saveReadModel")
  /\ UNCHANGED <<apiVars, brokerVars, log, eventLog, snapshot, status, leader,
                 consuming, book, held, entry, crashes, doubts>>

SaveSnapshot(p) ==
  /\ At(p, "saveSnapshot")
  /\ snapshot' = [book |-> HeldBook(p), id |-> entry[p]]
  /\ CallReturns(p, "saveSnapshot")
  /\ UNCHANGED <<apiVars, brokerVars, log, eventLog, readModel, status, leader,
                 consuming, book, held, entry, crashes, doubts>>

SaveProcessed(p) ==
  /\ At(p, "saveProcessed")
  /\ status' = [status EXCEPT ![delivery[p]] = "PROCESSED"]
  /\ CallReturns(p, "saveProcessed")
  /\ UNCHANGED <<apiVars, brokerVars, log, eventLog, readModel, snapshot,
                 leader, consuming, book, held, entry, crashes, doubts>>

EndDelivery(p) ==
  /\ Settle(p)
  /\ GoTo(p, "idle")
  /\ UNCHANGED <<apiVars, queue, dlq, storeVars, entry, crashes, failures>>

Acknowledge(p) ==
  /\ At(p, "ack") \/ (At(p, "checkBeforeAck") /\ Leads(p))
  /\ EndDelivery(p)
  /\ UNCHANGED <<leader, consuming, book, held, doubts>>

\* The last check does not hold up the acknowledgement; then the loss is reported.
AcknowledgeLast(p) == At(p, "checkBeforeAck") /\ EndDelivery(p)

AcknowledgeAndReport(p) == AcknowledgeLast(p) /\ CheckSaysNo(p)

\* A command that is in the log already: only its status is written.
SaveSkipped(p) ==
  /\ At(p, "skip")
  /\ status' = [status EXCEPT ![delivery[p]] = "PROCESSED"]
  /\ GoTo(p, "ack")
  /\ UNCHANGED <<apiVars, brokerVars, log, eventLog, readModel, snapshot,
                 leader, consuming, book, held, entry, faultVars>>

\* Slip: the catch block returns without an acknowledgement.
NoAckAfterRejection == "idle"

AfterRejection == "ack"

Rejection(p) == [status EXCEPT ![delivery[p]] = "REJECTED"]

\* The catch block: every error of the handler rejects the command.
SaveRejected(p) ==
  /\ At(p, "reject")
  /\ status' = Rejection(p)
  /\ GoTo(p, AfterRejection)
  /\ UNCHANGED <<apiVars, brokerVars, log, eventLog, readModel, snapshot,
                 leader, consuming, book, held, entry, faultVars>>

\* What the handler awaits inside its try block, leadership checks apart.
Fallible == {"isCommandProcessed", "skip"} \cup (DOMAIN Following \ {"checkAfterExecution"})

\* A call fails without effect, or its effect does not matter.
CallFails(p) ==
  /\ handler[p] \in Fallible
  /\ failures < MaxFailures
  /\ failures' = failures + 1
  /\ GoTo(p, "reject")
  /\ UNCHANGED <<apiVars, brokerVars, storeVars, leader, consuming, book, held,
                 entry, crashes, doubts>>

\* Even the rejection cannot be stored, or its answer is lost: the message is
\* dead-lettered.
RejectFails(p) ==
  /\ At(p, "reject")
  /\ status' \in {status, Rejection(p)}
  /\ failures < MaxFailures
  /\ failures' = failures + 1
  /\ DeadLetter(p)
  /\ GoTo(p, "idle")
  /\ UNCHANGED <<apiVars, queue, log, eventLog, readModel, snapshot, leader, consuming,
                 book, held, entry, crashes, doubts>>

\* The steps of a handler that come of a call to Redis that succeeds.
StoreStep(p) ==
  \/ Accept(p) \/ SkipProcessed(p) \/ Execute(p) \/ StillLeads(p)
  \/ AppendCommand(p) \/ AppendEvents(p) \/ SaveReadModel(p) \/ SaveSnapshot(p)
  \/ SaveProcessed(p) \/ SaveSkipped(p) \/ SaveRejected(p)

\* The steps that never report a loss of leadership.
QuietStep(p) == StoreStep(p) \/ RefuseForeign(p) \/ Acknowledge(p)

ReportingStep(p) == GiveBack(p) \/ AcknowledgeAndReport(p)

-----------------------------------------------------------------------------
(* Processes that take turns *)

\* Slip: the entry of the checkpoint itself is replayed.
ReplayFromCheckpoint == SubSeq(log, IF snapshot.id = 0 THEN 1 ELSE snapshot.id, Len(log))

\* getProcessedCommandsAfter: the range excludes the checkpoint.
AfterCheckpoint == SubSeq(log, snapshot.id + 1, Len(log))

\* The replay of commands on an old book, one after the other.
ApplyAll(old, commands) ==
  LET after[n \in 0..Len(commands)] ==
        IF n = 0 THEN old ELSE Apply(after[n - 1], commands[n])
  IN  after[Len(commands)]

\* recoverSymbolFromCommandLog: the snapshot and the commands after it.
RecoveredBook == ApplyAll(snapshot.book, AfterCheckpoint)

\* A process takes over from none: it recovers, then it consumes.
Start(p) ==
  /\ \A q \in Process : ~consuming[q]
  /\ leader' = p
  /\ consuming' = [consuming EXCEPT ![p] = TRUE]
  /\ book' = [book EXCEPT ![p] = RecoveredBook]
  /\ UNCHANGED <<apiVars, brokerVars, storeVars, handler, held, entry,
                 faultVars>>

\* A process that has reported the loss of its leadership is out of its turn.
StepDown(p) ==
  /\ leader' = Nobody
  /\ consuming' = [consuming EXCEPT ![p] = FALSE]
  /\ book' = [book EXCEPT ![p] = <<>>]
  /\ UNCHANGED held

HandlerNext(p) == QuietStep(p) \/ (ReportingStep(p) /\ StepDown(p))

\* The end of a process: its memory is lost, its channel closes.
LoseMemory(p) ==
  /\ consuming' = [consuming EXCEPT ![p] = FALSE]
  /\ book' = [book EXCEPT ![p] = <<>>]
  /\ held' = [held EXCEPT ![p] = Nobody]
  /\ GoTo(p, "idle")
  /\ IF delivery[p] = Nobody THEN UNCHANGED <<delivery, queue>> ELSE Requeue(p)
  /\ UNCHANGED <<apiVars, dlq, storeVars, entry, failures, doubts>>

LoseProcess(p) ==
  /\ crashes < MaxCrashes
  /\ crashes' = crashes + 1
  /\ LoseMemory(p)

Crash(p) == LoseProcess(p) /\ leader' = IF leader = p THEN Nobody ELSE leader

-----------------------------------------------------------------------------
Init ==
  /\ request = [c \in Command |-> "none"]
  /\ status = [c \in Command |-> "none"]
  /\ sent = <<>>
  /\ queue = <<>> /\ dlq = {}
  /\ delivery = [p \in Process |-> Nobody]
  /\ log = <<>> /\ eventLog = <<>> /\ readModel = <<>>
  /\ snapshot = [book |-> <<>>, id |-> 0]
  /\ leader = Nobody
  /\ consuming = [p \in Process |-> FALSE]
  /\ book = [p \in Process |-> <<>>]
  /\ handler = [p \in Process |-> "idle"]
  /\ held = [p \in Process |-> Nobody]
  /\ entry = [p \in Process |-> 0]
  /\ crashes = 0 /\ failures = 0 /\ doubts = 0

Api == \E c \in Command : SaveQueued(c) \/ Publish(c) \/ PublishFails(c)

Next ==
  \/ Api
  \/ \E p \in Process :
       \/ Deliver(p) \/ HandlerNext(p) \/ CallFails(p) \/ RejectFails(p)
       \/ Start(p) \/ Crash(p)

Spec == Init /\ [][Next]_vars

\* The event loop goes on with every handler, RabbitMQ delivers to a consumer,
\* and some process takes the turn that is free: the standby promotes itself, or
\* an operator starts a worker again.
FairSpec ==
  /\ Spec
  /\ \A p \in Process : WF_vars(Deliver(p)) /\ WF_vars(HandlerNext(p))
  /\ WF_vars(\E p \in Process : Start(p))

-----------------------------------------------------------------------------
(* Properties *)

\* Every variable has its type.
TypeOK ==
  /\ request \in [Command -> {"none", "saved", "accepted", "failed"}]
  /\ status \in [Command -> CommandStatus]
  /\ sent \in Seq(Command) /\ queue \in Seq(Command) /\ dlq \subseteq Command
  /\ delivery \in [Process -> Command \cup {Nobody}]
  /\ log \in Seq(Command) /\ eventLog \in Seq(Command) /\ readModel \in Seq(Command)
  /\ snapshot \in [book : Seq(Command), id : 0..Len(log)]
  /\ leader \in Process \cup {Nobody}
  /\ consuming \in [Process -> BOOLEAN]
  /\ book \in [Process -> Seq(Command)]
  /\ handler \in [Process -> HandlerStep]
  /\ held \in [Process -> Seq(Command) \cup {Nobody}]
  /\ entry \in [Process -> Nat]
  /\ crashes \in 0..MaxCrashes
  /\ failures \in 0..MaxFailures
  /\ doubts \in 0..MaxDoubts

\* A command is applied once however often it is delivered: the command log
\* holds it at most once (isCommandProcessed, appendProcessedCommand).  Neither
\* turns nor leadership are needed for this: it is enough that the broker has a
\* message in one place at a time.
LoggedOnce == \A i, j \in 1..Len(log) : log[i] = log[j] => i = j

\* The log and the event stream keep the promise of PartitionLog: crashes,
\* redeliveries and failing calls neither repeat a command nor let it overtake
\* another ("Same-symbol commands are processed sequentially", README.md:487).
Promise == INSTANCE PartitionLog

ImplementsLog == Promise!Spec

\* As long as no call has failed, the book of a consuming process is the replay
\* of the log, but for the command in hand once that has been executed and until
\* it is logged.
LiveBookIsReplay ==
  failures = 0 => \A p \in Process : consuming[p] =>
    book[p] = IF handler[p] \in {"checkAfterExecution", "appendCommand"}
              THEN Append(log, delivery[p]) ELSE log

\* As long as no call has failed, the recovery snapshot is the replay of the log
\* up to its checkpoint, and the read model is that of some part of the log:
\* neither mixes in a command that is not logged or leaves one out.
SnapshotIsReplay ==
  failures = 0 =>
    /\ snapshot.book = SubSeq(log, 1, snapshot.id)
    /\ \E n \in 0..Len(log) : readModel = SubSeq(log, 1, n)

\* A status tells what has happened to the book: PROCESSED commands are in the
\* log for good and, as long as no call has failed, REJECTED ones are not and
\* never will be (updateCommandStatus).
StatusIsTrue ==
  \A c \in Command :
    /\ status[c] = "PROCESSED" => c \in ToSet(log)
    /\ status[c] = "REJECTED" /\ failures = 0 => c \notin ToSet(log)

\* What was reported as processed survives: a recovery at any time builds a book
\* with every PROCESSED command in it ("zero-data-loss failover", README.md:2).
ProcessedSurvives ==
  \A c \in Command : status[c] = "PROCESSED" => c \in ToSet(RecoveredBook)

\* Every command that entered the queue is settled in the end: processed,
\* rejected or dead-lettered.
EveryCommandSettles ==
  \A c \in Command :
    c \in ToSet(sent) ~> status[c] \in {"PROCESSED", "REJECTED"} \/ c \in dlq

\* What the book holds between two commands is what a recovery would build:
\* "Order book state can be recovered from Redis command streams and recovery
\* snapshots" (README.md:492).
BookIsRecoverable ==
  \A p \in Process : consuming[p] /\ handler[p] = "idle" => book[p] = RecoveredBook
=============================================================================
