------------------------ MODULE CommandWorkerProofs ------------------------
(***************************************************************************)
(* The command worker of a partition implements the promise of             *)
(* PartitionLog, and the promise comes to no repetition and no overtaking; *)
(* a status tells what has happened; no command is logged twice; what the  *)
(* worker stores is a replay of its log, and what it has reported survives *)
(* a recovery.  For any processes and commands and without any bound on    *)
(* crashes, failing calls and doubtful leadership checks.                  *)
(***************************************************************************)
EXTENDS CommandWorker, SequenceTheorems, TLAPS
WellFounded == INSTANCE WellFoundedInduction

-----------------------------------------------------------------------------
(* What the promise comes to *)

\* What done says of source: taken from it, each at most once, in its order.
Follows(done, source) ==
  /\ Promise!Distinct(done)
  /\ Promise!KeepsOrder(done, source)
  /\ Promise!Elements(done) \subseteq Promise!Elements(source)

PromiseInv ==
  /\ sent \in Seq(Command) /\ log \in Seq(Command) /\ eventLog \in Seq(Command)
  /\ Follows(log, sent)
  /\ Follows(eventLog, log)

\* A sequence that takes what is open in its source goes on following it.
LEMMA TakingOpenFollows ==
  ASSUME NEW S, NEW source \in Seq(S), NEW done \in Seq(S), Follows(done, source),
         NEW c \in Promise!Open(source, done)
  PROVE  Append(done, c) \in Seq(S) /\ Follows(Append(done, c), source)
<1> DEFINE new == Append(done, c)
<1>1. PICK n \in 1..Len(source) :
        c = source[n] /\ \A m \in n..Len(source) : source[m] \notin Promise!Elements(done)
  BY DEF Promise!Open
<1>2. c \in S
  BY <1>1, ElementOfSeq
<1>3. /\ new \in Seq(S) /\ Len(new) = Len(done) + 1
      /\ new[Len(done) + 1] = c
      /\ \A i \in 1..Len(done) : new[i] = done[i]
  BY <1>2
<1>4. c \notin Promise!Elements(done)
  BY <1>1, LenProperties
<1> HIDE DEF new
<1>5. Promise!Distinct(new)
  BY <1>3, <1>4, LenProperties DEF Promise!Distinct, Promise!Elements, Follows
<1>6. Promise!Elements(new) \subseteq Promise!Elements(source)
  <2>1. \A i \in 1..Len(new) : i \in 1..Len(done) \/ i = Len(done) + 1
    BY <1>3, LenProperties
  <2>2. \A i \in 1..Len(done) : done[i] \in Promise!Elements(source)
    BY DEF Promise!Elements, Follows
  <2>3. c \in Promise!Elements(source)
    BY <1>1 DEF Promise!Elements
  <2>4. \A i \in 1..Len(new) : new[i] \in Promise!Elements(source)
    BY <1>3, <2>1, <2>2, <2>3
  <2>5. QED
    BY <2>4 DEF Promise!Elements
<1>7. Promise!KeepsOrder(new, source)
  <2> SUFFICES ASSUME NEW i \in 1..Len(new), NEW j \in 1..Len(new), i < j
               PROVE  \E k, m \in 1..Len(source) :
                        k < m /\ source[k] = new[i] /\ source[m] = new[j]
    BY DEF Promise!KeepsOrder
  <2>1. Len(done) \in Nat /\ Len(source) \in Nat
    BY LenProperties
  <2>2. CASE j <= Len(done)
    <3>1. i \in 1..Len(done) /\ j \in 1..Len(done)
      BY <1>3, <2>1, <2>2
    <3>2. \E k, m \in 1..Len(source) :
            k < m /\ source[k] = done[i] /\ source[m] = done[j]
      BY <3>1 DEF Follows, Promise!KeepsOrder
    <3>3. new[i] = done[i] /\ new[j] = done[j]
      BY <1>3, <3>1
    <3>4. QED
      BY <3>2, <3>3
  <2>3. CASE j = Len(done) + 1
    <3>1. i \in 1..Len(done) /\ new[i] = done[i] /\ new[j] = c
      <4>1. i \in 1..Len(done)
        <5>1. i \in Nat /\ 1 <= i /\ i < Len(done) + 1
          BY <1>3, <2>1, <2>3
        <5>2. QED
          BY <2>1, <5>1
      <4>2. QED
        BY <1>3, <2>3, <4>1
    <3>2. done[i] \in Promise!Elements(done)
      BY <3>1 DEF Promise!Elements
    <3>3. PICK k \in 1..Len(source) : source[k] = done[i]
      BY <3>2 DEF Follows, Promise!Elements
    <3>4. k < n
      BY <1>1, <2>1, <3>2, <3>3
    <3>5. QED
      BY <1>1, <3>1, <3>3, <3>4
  <2>4. QED
    BY <1>3, <2>1, <2>2, <2>3
<1>8. QED
  BY <1>3, <1>5, <1>6, <1>7 DEF Follows, new

\* Nothing that follows a source is disturbed when the source grows.
LEMMA LongerSource ==
  ASSUME NEW S, NEW source \in Seq(S), NEW done \in Seq(S), Follows(done, source),
         NEW c \in S
  PROVE  Follows(done, Append(source, c))
<1> DEFINE new == Append(source, c)
<1>1. /\ Len(source) \in Nat /\ Len(new) = Len(source) + 1
      /\ \A i \in 1..Len(source) : i \in 1..Len(new) /\ new[i] = source[i]
  BY LenProperties
<1> HIDE DEF new
<1>2. Promise!Elements(done) \subseteq Promise!Elements(new)
  BY <1>1 DEF Follows, Promise!Elements
<1>3. Promise!KeepsOrder(done, new)
  BY <1>1 DEF Follows, Promise!KeepsOrder
<1>4. QED
  BY <1>2, <1>3 DEF Follows, new

LEMMA PromiseInitially == Promise!Init => PromiseInv
<1> SUFFICES ASSUME Promise!Init PROVE PromiseInv
  OBVIOUS
<1>1. <<>> \in Seq(Command) /\ Len(<<>>) = 0
  BY EmptySeq
<1>2. QED
  BY <1>1 DEF Promise!Init, PromiseInv, Follows, Promise!Distinct, Promise!KeepsOrder,
              Promise!Elements

LEMMA PromiseKeeps ==
  ASSUME PromiseInv, [Promise!Next]_(Promise!vars)
  PROVE  PromiseInv'
<1>1. ASSUME NEW c \in Command, Promise!Send(c) PROVE PromiseInv'
  BY <1>1, LongerSource, AppendProperties DEF PromiseInv, Promise!Send
<1>2. ASSUME NEW c \in Command, Promise!Record(c) PROVE PromiseInv'
  BY <1>2, TakingOpenFollows, LongerSource DEF PromiseInv, Promise!Record
<1>3. ASSUME NEW c \in Command, Promise!Tell(c) PROVE PromiseInv'
  BY <1>3, TakingOpenFollows DEF PromiseInv, Promise!Tell
<1>4. CASE UNCHANGED Promise!vars
  BY <1>4 DEF PromiseInv, Promise!vars
<1>5. QED
  BY <1>1, <1>2, <1>3, <1>4 DEF Promise!Next

LEMMA PromiseComesTo == PromiseInv => Promise!Once /\ Promise!InOrder
  BY DEF PromiseInv, Follows, Promise!Once, Promise!InOrder

\* A partition that keeps its promise never repeats a command or lets one overtake
\* another, in its log or in its event stream ("Same-symbol commands are processed
\* sequentially", README.md:487).
THEOREM NoRepetitionNoOvertaking == Promise!Spec => [](Promise!Once /\ Promise!InOrder)
  BY PromiseInitially, PromiseKeeps, PromiseComesTo, PTL DEF Promise!Spec

-----------------------------------------------------------------------------
(* The inductive invariant of the worker *)

Shape ==
  /\ request \in [Command -> {"none", "saved", "accepted", "failed"}]
  /\ status \in [Command -> CommandStatus]
  /\ sent \in Seq(Command) /\ queue \in Seq(Command)
  /\ log \in Seq(Command) /\ eventLog \in Seq(Command)
  /\ delivery \in [Process -> Command \cup {Nobody}]
  /\ consuming \in [Process -> BOOLEAN]
  /\ handler \in [Process -> HandlerStep]
  /\ failures \in Nat

\* One process has the turn, and only that one has a delivery.
OneTurn ==
  /\ \A p, q \in Process : consuming[p] /\ consuming[q] => p = q
  /\ \A p \in Process :
       /\ handler[p] = "idle" <=> delivery[p] = Nobody
       /\ delivery[p] # Nobody => consuming[p]

InSent(c) == \E i \in 1..Len(sent) : sent[i] = c

InLog(c) == \E i \in 1..Len(log) : log[i] = c

InEventLog(c) == \E i \in 1..Len(eventLog) : eventLog[i] = c

\* How many messages have left the queue: those in front of what is left.
Taken == Len(sent) - Len(queue)

\* The queue is the end of what was sent; the message in hand is the one before it.
QueueIsEnd ==
  /\ \A c \in Command : request[c] \in {"none", "saved"} => ~InSent(c)
  /\ \A i, j \in 1..Len(sent) : sent[i] = sent[j] => i = j
  /\ Taken \in 0..Len(sent)
  /\ \A i \in 1..Len(queue) : queue[i] = sent[Taken + i]
  /\ \A p \in Process : delivery[p] # Nobody => Taken > 0 /\ delivery[p] = sent[Taken]

\* Nothing that waits in the queue is logged, but for a message that has come back.
LogIsBehind ==
  /\ \A i \in 1..Len(log) : InSent(log[i])
  /\ \A n \in 1..Len(sent) : n > Taken + 1 => ~InLog(sent[n])
  /\ \A p \in Process : delivery[p] # Nobody =>
       \A n \in 1..Len(sent) : n > Taken => ~InLog(sent[n])

\* What the handler knows of its command.
Progress ==
  /\ \A i \in 1..Len(eventLog) : InLog(eventLog[i])
  /\ \A p \in Process :
       /\ handler[p] \in {"checkAfterExecution", "appendCommand"} => ~InLog(delivery[p])
       /\ handler[p] = "appendEvents" =>
            /\ log # <<>> /\ log[Len(log)] = delivery[p]
            /\ ~InEventLog(delivery[p])

IInv == Shape /\ OneTurn /\ QueueIsEnd /\ LogIsBehind /\ Progress

-----------------------------------------------------------------------------
(* The steps, by what they do to the message in hand *)

\* The handler goes on with its command.
Moves(p) ==
  /\ p \in Process /\ handler[p] # "idle"
  /\ \E s \in HandlerStep \ {"idle"} : GoTo(p, s)
  /\ UNCHANGED <<request, sent, queue, delivery, consuming>>

\* It goes on without writing to either stream, and not to where it would.
MovesQuietly(p) ==
  /\ Moves(p)
  /\ UNCHANGED <<log, eventLog>>
  /\ handler'[p] = "appendCommand" => handler[p] = "checkAfterExecution"
  /\ handler'[p] = "checkAfterExecution" =>
       handler[p] = "isCommandProcessed" /\ ~InLog(delivery[p])
  /\ handler'[p] # "appendEvents"

\* The message leaves the process: it is settled for good, or goes back.
Parts(p) ==
  /\ p \in Process
  /\ GoTo(p, "idle")
  /\ consuming' = consuming \/ consuming' = [consuming EXCEPT ![p] = FALSE]
  /\ UNCHANGED <<request, sent, log, eventLog>>

Settles(p) == Parts(p) /\ delivery[p] # Nobody /\ Settle(p) /\ UNCHANGED queue

Returns(p) == Parts(p) /\ delivery[p] # Nobody /\ Requeue(p)

Leaves(p) == Parts(p) /\ delivery[p] = Nobody /\ UNCHANGED <<delivery, queue>>

LEMMA QuietMoves ==
  ASSUME IInv, NEW p \in Process,
         \/ Accept(p) \/ SkipProcessed(p) \/ Execute(p) \/ StillLeads(p)
         \/ SaveReadModel(p) \/ SaveSnapshot(p) \/ SaveProcessed(p)
         \/ SaveSkipped(p) \/ SaveRejected(p) \/ CallFails(p)
  PROVE  MovesQuietly(p)
<1>1. handler \in [Process -> HandlerStep]
  BY DEF IInv, Shape
<1>2. CASE Accept(p)
  BY <1>1, <1>2 DEF Accept, MovesQuietly, Moves, At, GoTo, HandlerStep, apiVars, brokerVars,
                    storeVars
<1>3. CASE SkipProcessed(p)
  BY <1>1, <1>3 DEF SkipProcessed, MovesQuietly, Moves, At, GoTo, HandlerStep, apiVars,
                    brokerVars, storeVars
<1>4. CASE Execute(p)
  <2>1. ~InLog(delivery[p])
    BY <1>4 DEF Execute, IsProcessed, ToSet, InLog, IInv, Shape
  <2>2. QED
    BY <1>1, <1>4, <2>1 DEF Execute, MovesQuietly, Moves, At, GoTo, HandlerStep, apiVars,
                            brokerVars, storeVars
<1>5. CASE StillLeads(p)
  BY <1>1, <1>5 DEF StillLeads, MovesQuietly, Moves, At, GoTo, HandlerStep, Following,
                    apiVars, brokerVars, storeVars
<1>6. CASE SaveReadModel(p)
  BY <1>1, <1>6 DEF SaveReadModel, CallReturns, MovesQuietly, Moves, At, GoTo, HandlerStep,
                    Following, apiVars, brokerVars
<1>7. CASE SaveSnapshot(p)
  BY <1>1, <1>7 DEF SaveSnapshot, CallReturns, MovesQuietly, Moves, At, GoTo, HandlerStep,
                    Following, apiVars, brokerVars
<1>8. CASE SaveProcessed(p)
  BY <1>1, <1>8 DEF SaveProcessed, CallReturns, MovesQuietly, Moves, At, GoTo, HandlerStep,
                    Following, apiVars, brokerVars
<1>9. CASE SaveSkipped(p) \/ SaveRejected(p)
  BY <1>1, <1>9 DEF SaveSkipped, SaveRejected, AfterRejection, MovesQuietly, Moves, At, GoTo,
                    HandlerStep, apiVars, brokerVars
<1>10. CASE CallFails(p)
  <2>1. handler[p] # "idle"
    BY <1>10 DEF CallFails, Fallible, Following
  <2>2. QED
    BY <1>1, <1>10, <2>1 DEF CallFails, MovesQuietly, Moves, GoTo, HandlerStep, apiVars,
                             brokerVars, storeVars
<1>11. QED
  BY <1>2, <1>3, <1>4, <1>5, <1>6, <1>7, <1>8, <1>9, <1>10

LEMMA Departures ==
  ASSUME IInv, NEW p \in Process,
         \/ RefuseForeign(p) \/ Acknowledge(p) \/ RejectFails(p)
         \/ (ReportingStep(p) /\ StepDown(p)) \/ Crash(p)
  PROVE  Settles(p) \/ Returns(p) \/ Leaves(p)
<1>1. handler[p] # "idle" => delivery[p] # Nobody
  BY DEF IInv, OneTurn
<1>2. CASE RefuseForeign(p)
  BY <1>1, <1>2 DEF RefuseForeign, DeadLetter, At, Settles, Parts, apiVars, storeVars
<1>3. CASE Acknowledge(p)
  BY <1>1, <1>3 DEF Acknowledge, EndDelivery, At, Settles, Parts, apiVars, storeVars
<1>4. CASE RejectFails(p)
  BY <1>1, <1>4 DEF RejectFails, DeadLetter, At, Settles, Parts, apiVars, storeVars
<1>5. CASE GiveBack(p) /\ StepDown(p)
  BY <1>1, <1>5 DEF GiveBack, HandBack, NackAndRequeue, StepDown, At, Returns, Parts, apiVars,
                    storeVars
<1>6. CASE AcknowledgeAndReport(p) /\ StepDown(p)
  BY <1>1, <1>6 DEF AcknowledgeAndReport, AcknowledgeLast, EndDelivery, StepDown, At, Settles,
                    Parts, apiVars, storeVars
<1>7. CASE Crash(p)
  BY <1>7 DEF Crash, LoseProcess, LoseMemory, Returns, Leaves, Parts, apiVars, storeVars
<1>8. QED
  BY <1>2, <1>3, <1>4, <1>5, <1>6, <1>7 DEF ReportingStep

\* Every step is of a kind that the lemmas below treat.
LEMMA StepKinds ==
  ASSUME IInv, [Next]_vars
  PROVE  \/ \E c \in Command : SaveQueued(c) \/ Publish(c) \/ PublishFails(c)
         \/ \E p \in Process :
              \/ Deliver(p) \/ Start(p) \/ AppendCommand(p) \/ AppendEvents(p)
              \/ MovesQuietly(p) \/ Settles(p) \/ Returns(p) \/ Leaves(p)
         \/ UNCHANGED vars
<1>1. CASE Api
  BY <1>1 DEF Api
<1>2. ASSUME NEW p \in Process,
             \/ Deliver(p) \/ HandlerNext(p) \/ CallFails(p) \/ RejectFails(p)
             \/ Start(p) \/ Crash(p)
      PROVE  \/ Deliver(p) \/ Start(p) \/ AppendCommand(p) \/ AppendEvents(p)
             \/ MovesQuietly(p) \/ Settles(p) \/ Returns(p) \/ Leaves(p)
  BY <1>2, QuietMoves, Departures DEF HandlerNext, QuietStep, StoreStep
<1>3. QED
  BY <1>1, <1>2 DEF Next

-----------------------------------------------------------------------------
(* The queue, the log and the message in hand under each kind of step *)

LEMMA TakenIsNat ==
  ASSUME Shape, QueueIsEnd
  PROVE  Len(sent) \in Nat /\ Len(queue) \in Nat /\ Taken \in Nat
         /\ Len(log) \in Nat /\ Len(eventLog) \in Nat
  BY LenProperties DEF Shape, QueueIsEnd

LEMMA MovingKeeps ==
  ASSUME IInv, NEW p \in Process, Moves(p)
  PROVE  OneTurn' /\ QueueIsEnd'
<1>1. PICK s \in HandlerStep \ {"idle"} : handler' = [handler EXCEPT ![p] = s]
  BY DEF Moves, GoTo
<1>2. OneTurn'
  BY <1>1 DEF IInv, Shape, OneTurn, Moves
<1>3. QueueIsEnd'
  BY DEF IInv, QueueIsEnd, Taken, InSent, Moves
<1>4. QED
  BY <1>2, <1>3

\* The handler writes to neither stream.
LEMMA QuietMoveKeeps ==
  ASSUME IInv, NEW p \in Process, MovesQuietly(p)
  PROVE  OneTurn' /\ QueueIsEnd' /\ LogIsBehind' /\ Progress'
<1>1. OneTurn' /\ QueueIsEnd'
  BY MovingKeeps DEF MovesQuietly
<1>2. LogIsBehind'
  BY DEF IInv, LogIsBehind, Taken, InSent, InLog, MovesQuietly, Moves
<1>3. PICK s \in HandlerStep \ {"idle"} : handler' = [handler EXCEPT ![p] = s]
  BY DEF MovesQuietly, Moves, GoTo
<1>4. Progress'
  <2>1. \A i \in 1..Len(eventLog)' : InLog(eventLog[i])'
    BY DEF IInv, Progress, InLog, MovesQuietly
  <2> SUFFICES ASSUME NEW q \in Process
               PROVE  /\ handler'[q] \in {"checkAfterExecution", "appendCommand"}
                           => ~InLog(delivery[q])'
                      /\ handler'[q] = "appendEvents" =>
                           /\ log' # <<>> /\ log'[Len(log')] = delivery'[q]
                           /\ ~InEventLog(delivery[q])'
    BY <2>1 DEF Progress
  <2>2. CASE q = p
    BY <1>3, <2>2 DEF IInv, Shape, Progress, InLog, MovesQuietly, Moves
  <2>3. CASE q # p
    <3>1. handler'[q] = handler[q]
      BY <1>3, <2>3 DEF IInv, Shape
    <3>2. QED
      BY <3>1 DEF IInv, Progress, InLog, InEventLog, MovesQuietly, Moves
  <2>4. QED
    BY <2>2, <2>3
<1>5. QED
  BY <1>1, <1>2, <1>4

\* With a delivery in hand, no other process has one.
LEMMA OneDelivery ==
  ASSUME IInv, NEW p \in Process, delivery[p] # Nobody,
         NEW q \in Process, delivery[q] # Nobody
  PROVE  q = p
  BY DEF IInv, OneTurn

\* appendProcessedCommand: the command in hand is behind everything that is logged.
LEMMA AppendCommandKeeps ==
  ASSUME IInv, NEW p \in Process, AppendCommand(p)
  PROVE  /\ OneTurn' /\ QueueIsEnd' /\ LogIsBehind' /\ Progress'
         /\ Promise!Record(delivery[p])
<1> DEFINE c == delivery[p]
<1>1. /\ handler[p] = "appendCommand" /\ log' = Append(log, c)
      /\ \E s \in {"appendEvents", "reject"} : handler' = [handler EXCEPT ![p] = s]
      /\ UNCHANGED <<request, sent, queue, delivery, consuming, eventLog>>
  BY DEF AppendCommand, CallReturns, Following, At, GoTo, apiVars, brokerVars
<1>2. c \in Command /\ c # Nobody
  BY <1>1 DEF IInv, Shape, OneTurn
<1>3. Moves(p)
  BY <1>1 DEF Moves, GoTo, HandlerStep
<1>4. ~InLog(c) /\ Taken \in 1..Len(sent) /\ c = sent[Taken]
  BY <1>1, <1>2, TakenIsNat DEF IInv, Progress, QueueIsEnd
<1>5. /\ log \in Seq(Command) /\ Len(log) \in Nat /\ Len(log') = Len(log) + 1
      /\ \A i \in 1..Len(log) : log'[i] = log[i]
      /\ log'[Len(log) + 1] = c
  BY <1>1, <1>2, LenProperties, AppendProperties DEF IInv, Shape
<1>6. \A d : InLog(d)' <=> InLog(d) \/ d = c
  BY <1>5 DEF InLog
<1>7. \A n \in 1..Len(sent) : n > Taken => ~InLog(sent[n]) /\ sent[n] # c
  BY <1>2, <1>4 DEF IInv, LogIsBehind, QueueIsEnd
<1>8. Taken' = Taken
  BY <1>1 DEF Taken
<1>9. OneTurn' /\ QueueIsEnd'
  BY <1>3, MovingKeeps
<1>10. LogIsBehind'
  <2>1. (\A i \in 1..Len(log) : InSent(log[i]))'
    BY <1>1, <1>4, <1>5 DEF IInv, LogIsBehind, InSent
  <2>2. (\A n \in 1..Len(sent) : n > Taken => ~InLog(sent[n]))'
    BY <1>1, <1>6, <1>7, <1>8
  <2>3. (\A n \in 1..Len(sent) : n > Taken + 1 => ~InLog(sent[n]))'
    BY <1>1, <1>8, <2>2, TakenIsNat DEF IInv
  <2>4. QED
    BY <2>1, <2>2, <2>3 DEF LogIsBehind
<1>11. Progress'
  <2>1. \A i \in 1..Len(eventLog') : InLog(eventLog[i])'
    BY <1>1, <1>6 DEF IInv, Progress
  <2>2. ~InEventLog(c)'
    BY <1>1, <1>4 DEF IInv, Progress, InEventLog
  <2>3. ASSUME NEW q \in Process, handler'[q] \in {"checkAfterExecution", "appendCommand"}
        PROVE  FALSE
    <3>1. q # p /\ handler[q] # "idle"
      BY <1>1, <2>3 DEF IInv, Shape
    <3>2. delivery[q] # Nobody
      BY <3>1 DEF IInv, OneTurn
    <3>3. QED
      BY <1>2, <3>1, <3>2, OneDelivery
  <2>4. ASSUME NEW q \in Process, handler'[q] = "appendEvents"
        PROVE  q = p
    <3>1. q # p => handler[q] # "idle"
      BY <1>1, <2>4 DEF IInv, Shape
    <3>2. QED
      BY <1>2, <3>1, OneDelivery DEF IInv, OneTurn
  <2>5. log' # <<>> /\ log'[Len(log')] = c /\ delivery' = delivery
    BY <1>1, <1>5, EmptySeq
  <2>6. QED
    BY <2>1, <2>2, <2>3, <2>4, <2>5 DEF Progress
<1>12. c \in Promise!Open(sent, log)
  <2>1. \A m \in Taken..Len(sent) : sent[m] \notin Promise!Elements(log)
    BY <1>4, <1>7 DEF InLog, Promise!Elements
  <2>2. QED
    BY <1>4, <2>1 DEF Promise!Open
<1>13. QED
  BY <1>1, <1>9, <1>10, <1>11, <1>12 DEF Promise!Record

\* appendEvents: what is told of is the last entry of the log, and told of once.
LEMMA AppendEventsKeeps ==
  ASSUME IInv, NEW p \in Process, AppendEvents(p)
  PROVE  /\ OneTurn' /\ QueueIsEnd' /\ LogIsBehind' /\ Progress'
         /\ Promise!Tell(delivery[p])
<1> DEFINE c == delivery[p]
<1>1. /\ handler[p] = "appendEvents" /\ eventLog' = Append(eventLog, c)
      /\ \E s \in {"saveReadModel", "reject"} : handler' = [handler EXCEPT ![p] = s]
      /\ UNCHANGED <<request, sent, queue, delivery, consuming, log>>
  BY DEF AppendEvents, CallReturns, Following, At, GoTo, apiVars, brokerVars
<1>2. c \in Command /\ c # Nobody
  BY <1>1 DEF IInv, Shape, OneTurn
<1>3. Moves(p)
  BY <1>1 DEF Moves, GoTo, HandlerStep
<1>4. log # <<>> /\ log[Len(log)] = c /\ ~InEventLog(c)
  BY <1>1 DEF IInv, Progress
<1>5. log \in Seq(Command) /\ Len(log) \in Nat \ {0}
  BY <1>4, EmptySeq DEF IInv, Shape
<1>6. /\ Len(eventLog) \in Nat /\ Len(eventLog') = Len(eventLog) + 1
      /\ \A i \in 1..Len(eventLog) : eventLog'[i] = eventLog[i]
      /\ eventLog'[Len(eventLog) + 1] = c
  BY <1>1, <1>2, LenProperties, AppendProperties DEF IInv, Shape
<1>7. OneTurn' /\ QueueIsEnd'
  BY <1>3, MovingKeeps
<1>8. LogIsBehind'
  BY <1>1 DEF IInv, LogIsBehind, Taken, InSent, InLog
<1>9. Progress'
  <2>1. InLog(c)'
    BY <1>1, <1>4, <1>5 DEF InLog
  <2>2. (\A i \in 1..Len(eventLog) : InLog(eventLog[i]))'
    BY <1>1, <1>6, <2>1 DEF IInv, Progress, InLog
  <2>3. ASSUME NEW q \in Process,
               handler'[q] \in {"checkAfterExecution", "appendCommand", "appendEvents"}
        PROVE  FALSE
    <3>1. q # p /\ handler[q] # "idle"
      BY <1>1, <2>3 DEF IInv, Shape
    <3>2. QED
      BY <1>2, <3>1, OneDelivery DEF IInv, OneTurn
  <2>4. QED
    BY <2>2, <2>3 DEF Progress
<1>10. c \in Promise!Open(log, eventLog)
  <2>1. c \notin Promise!Elements(eventLog)
    BY <1>4 DEF InEventLog, Promise!Elements
  <2>2. \A m \in Len(log)..Len(log) : m = Len(log)
    BY <1>5
  <2>3. Len(log) \in 1..Len(log)
    BY <1>5
  <2>4. QED
    BY <1>4, <2>1, <2>2, <2>3 DEF Promise!Open
<1>11. QED
  BY <1>1, <1>7, <1>8, <1>9, <1>10 DEF Promise!Tell

\* The head of the queue becomes the message in hand.
LEMMA DeliveryKeeps ==
  ASSUME IInv, NEW p \in Process, Deliver(p)
  PROVE  OneTurn' /\ QueueIsEnd' /\ LogIsBehind' /\ Progress'
<1>1. /\ consuming[p] /\ delivery[p] = Nobody /\ handler[p] = "idle" /\ queue # <<>>
      /\ delivery' = [delivery EXCEPT ![p] = Head(queue)]
      /\ queue' = Tail(queue)
      /\ handler' = [handler EXCEPT ![p] = "checkLeadership"]
      /\ UNCHANGED <<request, sent, consuming, log, eventLog>>
  BY DEF Deliver, apiVars, storeVars
<1>2. /\ Len(queue) \in Nat \ {0} /\ Len(queue') = Len(queue) - 1
      /\ \A i \in 1..Len(queue') : queue'[i] = queue[i + 1]
      /\ Head(queue) = queue[1] /\ Head(queue) \in Command
  BY <1>1, EmptySeq, HeadTailProperties DEF IInv, Shape
<1>3. Taken \in Nat /\ Len(sent) \in Nat /\ Taken + Len(queue) = Len(sent)
  BY <1>2, TakenIsNat DEF IInv, Taken
<1>4. Taken' = Taken + 1 /\ Taken + 1 \in 1..Len(sent) /\ Head(queue) = sent[Taken + 1]
  BY <1>1, <1>2, <1>3 DEF IInv, QueueIsEnd, Taken
<1>5. \A q \in Process : q # p => delivery[q] = Nobody /\ delivery'[q] = Nobody
  BY <1>1 DEF IInv, Shape, OneTurn
<1>6. delivery'[p] = Head(queue) /\ Head(queue) # Nobody
  BY <1>1, <1>2, CommandAssumption DEF IInv, Shape
<1>7. OneTurn'
  BY <1>1, <1>5, <1>6 DEF IInv, Shape, OneTurn
<1>8. QueueIsEnd'
  <2>1. (\A i \in 1..Len(queue) : queue[i] = sent[Taken + i])'
    <3> SUFFICES ASSUME NEW i \in 1..Len(queue') PROVE queue'[i] = sent[Taken + 1 + i]
      BY <1>1, <1>4
    <3>1. i + 1 \in 1..Len(queue) /\ Taken + (i + 1) = Taken + 1 + i
      BY <1>2, <1>3
    <3>2. QED
      BY <1>2, <3>1 DEF IInv, QueueIsEnd
  <2>2. (\A q \in Process : delivery[q] # Nobody => Taken > 0 /\ delivery[q] = sent[Taken])'
    BY <1>1, <1>3, <1>4, <1>5, <1>6
  <2>3. QED
    BY <1>1, <1>3, <1>4, <2>1, <2>2 DEF IInv, QueueIsEnd, InSent
<1>9. LogIsBehind'
  <2>1. (\A n \in 1..Len(sent) : n > Taken => ~InLog(sent[n]))'
    BY <1>1, <1>3, <1>4 DEF IInv, LogIsBehind, InLog
  <2>2. (\A n \in 1..Len(sent) : n > Taken + 1 => ~InLog(sent[n]))'
    BY <1>1, <1>3, <1>4, <2>1
  <2>3. QED
    BY <1>1, <2>1, <2>2 DEF IInv, LogIsBehind, InSent
<1>10. Progress'
  BY <1>1, <1>5 DEF IInv, Shape, OneTurn, Progress, InLog, InEventLog
<1>11. QED
  BY <1>7, <1>8, <1>9, <1>10

\* What a process keeps of the invariant when its message has left it.
LEMMA PartingKeeps ==
  ASSUME IInv, NEW p \in Process, Parts(p),
         delivery'[p] = Nobody,
         \A q \in Process : q # p => delivery'[q] = delivery[q]
  PROVE  OneTurn' /\ Progress'
<1>1. /\ handler' = [handler EXCEPT ![p] = "idle"]
      /\ \A q \in Process : consuming'[q] => consuming[q]
      /\ \A q \in Process : q # p => consuming'[q] = consuming[q]
      /\ UNCHANGED <<log, eventLog>>
  BY DEF Parts, GoTo, IInv, Shape
<1>2. OneTurn'
  BY <1>1 DEF IInv, Shape, OneTurn
<1>3. Progress'
  BY <1>1 DEF IInv, Shape, Progress, InLog, InEventLog
<1>4. QED
  BY <1>2, <1>3

LEMMA SettlingKeeps ==
  ASSUME IInv, NEW p \in Process, Settles(p)
  PROVE  OneTurn' /\ QueueIsEnd' /\ LogIsBehind' /\ Progress'
<1>1. /\ delivery' = [delivery EXCEPT ![p] = Nobody]
      /\ UNCHANGED <<request, sent, queue, log, eventLog>>
  BY DEF Settles, Settle, Parts
<1>2. delivery'[p] = Nobody /\ \A q \in Process : q # p => delivery'[q] = delivery[q]
  BY <1>1 DEF IInv, Shape
<1>3. OneTurn' /\ Progress'
  BY <1>2, PartingKeeps DEF Settles
<1>4. Taken' = Taken
  BY <1>1 DEF Taken
<1>5. QueueIsEnd'
  BY <1>1, <1>2, <1>4 DEF IInv, QueueIsEnd, InSent
<1>6. LogIsBehind'
  BY <1>1, <1>2, <1>4 DEF IInv, LogIsBehind, InSent, InLog
<1>7. QED
  BY <1>3, <1>5, <1>6

LEMMA LeavingKeeps ==
  ASSUME IInv, NEW p \in Process, Leaves(p)
  PROVE  OneTurn' /\ QueueIsEnd' /\ LogIsBehind' /\ Progress'
<1>1. UNCHANGED <<request, sent, queue, delivery, log, eventLog>> /\ delivery[p] = Nobody
  BY DEF Leaves, Parts
<1>2. OneTurn' /\ Progress'
  BY <1>1, PartingKeeps DEF Leaves
<1>3. QueueIsEnd'
  BY <1>1 DEF IInv, QueueIsEnd, InSent, Taken
<1>4. LogIsBehind'
  BY <1>1 DEF IInv, LogIsBehind, InSent, InLog, Taken
<1>5. QED
  BY <1>2, <1>3, <1>4

\* A message that goes back may be logged already; none behind it is.
LEMMA ReturningKeeps ==
  ASSUME IInv, NEW p \in Process, Returns(p)
  PROVE  OneTurn' /\ QueueIsEnd' /\ LogIsBehind' /\ Progress'
<1> DEFINE c == delivery[p]
<1>1. /\ c # Nobody /\ c \in Command
      /\ delivery' = [delivery EXCEPT ![p] = Nobody] /\ queue' = <<c>> \o queue
      /\ UNCHANGED <<request, sent, log, eventLog>>
  BY DEF Returns, Requeue, Settle, Parts, IInv, Shape
<1>2. \A q \in Process : delivery'[q] = Nobody
  BY <1>1, OneDelivery DEF IInv, Shape
<1>3. OneTurn' /\ Progress'
  <2>1. \A q \in Process : q # p => delivery'[q] = delivery[q]
    BY <1>1 DEF IInv, Shape
  <2>2. QED
    BY <1>2, <2>1, PartingKeeps DEF Returns
<1>4. Len(queue) \in Nat /\ Len(sent) \in Nat /\ Taken + Len(queue) = Len(sent)
      /\ Taken \in 1..Len(sent) /\ c = sent[Taken]
  BY <1>1, TakenIsNat DEF IInv, QueueIsEnd, Taken
<1>5. /\ Len(queue') = Len(queue) + 1 /\ queue'[1] = c
      /\ \A i \in 2..Len(queue') : queue'[i] = queue[i - 1]
  <2>1. queue \in Seq(Command) /\ <<c>> \in Seq(Command) /\ Len(<<c>>) = 1 /\ <<c>>[1] = c
    BY <1>1 DEF IInv, Shape
  <2>2. /\ Len(queue') = 1 + Len(queue)
        /\ \A i \in 1..1 + Len(queue) : queue'[i] = IF i <= 1 THEN <<c>>[i] ELSE queue[i - 1]
    BY <1>1, <2>1, ConcatProperties
  <2>3. QED
    BY <1>4, <2>1, <2>2
<1>6. Taken' = Taken - 1
  BY <1>1, <1>4, <1>5 DEF Taken
<1>7. QueueIsEnd'
  <2>1. (\A i \in 1..Len(queue) : queue[i] = sent[Taken + i])'
    <3> SUFFICES ASSUME NEW i \in 1..Len(queue') PROVE queue'[i] = sent[Taken - 1 + i]
      BY <1>1, <1>6
    <3>1. CASE i = 1
      BY <1>4, <1>5, <3>1
    <3>2. CASE i # 1
      <4>1. i - 1 \in 1..Len(queue) /\ Taken + (i - 1) = Taken - 1 + i /\ i \in 2..Len(queue')
        BY <1>4, <1>5, <3>2
      <4>2. QED
        BY <1>5, <4>1 DEF IInv, QueueIsEnd
    <3>3. QED
      BY <3>1, <3>2
  <2>2. (\A d \in Command : request[d] \in {"none", "saved"} => ~InSent(d))'
    BY <1>1 DEF IInv, QueueIsEnd, InSent
  <2>3. (\A i, j \in 1..Len(sent) : sent[i] = sent[j] => i = j)'
    BY <1>1 DEF IInv, QueueIsEnd
  <2>4. Taken' \in 0..Len(sent')
    BY <1>1, <1>4, <1>6
  <2>5. QED
    BY <1>2, <2>1, <2>2, <2>3, <2>4 DEF QueueIsEnd
<1>8. LogIsBehind'
  <2>1. (\A n \in 1..Len(sent) : n > Taken + 1 => ~InLog(sent[n]))'
    BY <1>1, <1>4, <1>6 DEF IInv, LogIsBehind, InLog
  <2>2. QED
    BY <1>1, <1>2, <2>1 DEF IInv, LogIsBehind, InSent
<1>9. QED
  BY <1>3, <1>7, <1>8

LEMMA StartKeeps ==
  ASSUME IInv, NEW p \in Process, Start(p)
  PROVE  OneTurn' /\ QueueIsEnd' /\ LogIsBehind' /\ Progress'
<1>1. /\ \A q \in Process : ~consuming[q]
      /\ consuming' = [consuming EXCEPT ![p] = TRUE]
      /\ UNCHANGED <<request, sent, queue, delivery, handler, log, eventLog>>
  BY DEF Start, apiVars, brokerVars, storeVars
<1>2. OneTurn'
  BY <1>1 DEF IInv, Shape, OneTurn
<1>3. QueueIsEnd'
  BY <1>1 DEF IInv, QueueIsEnd, InSent, Taken
<1>4. LogIsBehind' /\ Progress'
  BY <1>1 DEF IInv, LogIsBehind, Progress, InSent, InLog, InEventLog, Taken
<1>5. QED
  BY <1>2, <1>3, <1>4

\* A new message goes to the end of the queue, as it goes to the end of what was sent.
LEMMA PublishKeeps ==
  ASSUME IInv, NEW c \in Command, Publish(c)
  PROVE  /\ OneTurn' /\ QueueIsEnd' /\ LogIsBehind' /\ Progress'
         /\ Promise!Send(c)
<1>1. /\ request[c] = "saved"
      /\ \E r \in {"accepted", "failed"} : request' = [request EXCEPT ![c] = r]
      /\ queue' = Append(queue, c) /\ sent' = Append(sent, c)
      /\ UNCHANGED <<delivery, consuming, handler, log, eventLog>>
  BY DEF Publish, storeVars, processVars
<1>2. /\ Len(sent) \in Nat /\ Len(sent') = Len(sent) + 1 /\ sent'[Len(sent) + 1] = c
      /\ \A i \in 1..Len(sent) : sent'[i] = sent[i]
      /\ Len(queue) \in Nat /\ Len(queue') = Len(queue) + 1 /\ queue'[Len(queue) + 1] = c
      /\ \A i \in 1..Len(queue) : queue'[i] = queue[i]
  BY <1>1, LenProperties, AppendProperties DEF IInv, Shape
<1>3. Taken' = Taken /\ Taken \in 0..Len(sent) /\ Taken + Len(queue) = Len(sent)
  BY <1>1, <1>2 DEF Taken, IInv, QueueIsEnd
<1>4. ~InSent(c) /\ ~InLog(c)
  <2>1. ~InSent(c)
    BY <1>1 DEF IInv, QueueIsEnd
  <2>2. ASSUME InLog(c) PROVE FALSE
    <3>1. PICK i \in 1..Len(log) : log[i] = c
      BY <2>2 DEF InLog
    <3>2. InSent(log[i])
      BY DEF IInv, LogIsBehind
    <3>3. QED
      BY <2>1, <3>1, <3>2
  <2>3. QED
    BY <2>1, <2>2
<1>5. \A d : InSent(d)' <=> InSent(d) \/ d = c
  BY <1>2 DEF InSent
<1>6. OneTurn' /\ Progress'
  BY <1>1 DEF IInv, OneTurn, Progress, InLog, InEventLog
<1>7. QueueIsEnd'
  <2>1. (\A d \in Command : request[d] \in {"none", "saved"} => ~InSent(d))'
    BY <1>1, <1>5 DEF IInv, Shape, QueueIsEnd
  <2>2. (\A i, j \in 1..Len(sent) : sent[i] = sent[j] => i = j)'
    <3> SUFFICES ASSUME NEW i \in 1..Len(sent) + 1, NEW j \in 1..Len(sent) + 1,
                        sent'[i] = sent'[j]
                 PROVE  i = j
      BY <1>2
    <3>1. CASE i \in 1..Len(sent) /\ j \in 1..Len(sent)
      BY <1>2, <3>1 DEF IInv, QueueIsEnd
    <3>2. CASE i = Len(sent) + 1 \/ j = Len(sent) + 1
      BY <1>2, <1>4, <3>2 DEF InSent
    <3>3. QED
      BY <1>2, <3>1, <3>2
  <2>3. (\A i \in 1..Len(queue) : queue[i] = sent[Taken + i])'
    <3> SUFFICES ASSUME NEW i \in 1..Len(queue') PROVE queue'[i] = sent'[Taken + i]
      BY <1>3
    <3>1. CASE i \in 1..Len(queue)
      BY <1>2, <1>3, <3>1 DEF IInv, QueueIsEnd
    <3>2. CASE i = Len(queue) + 1
      BY <1>2, <1>3, <3>2
    <3>3. QED
      BY <1>2, <3>1, <3>2
  <2>4. (\A p \in Process : delivery[p] # Nobody => Taken > 0 /\ delivery[p] = sent[Taken])'
    <3> SUFFICES ASSUME NEW p \in Process, delivery[p] # Nobody
                 PROVE  Taken > 0 /\ delivery[p] = sent'[Taken]
      BY <1>1, <1>3
    <3>1. Taken \in 1..Len(sent) /\ delivery[p] = sent[Taken]
      BY <1>3 DEF IInv, QueueIsEnd
    <3>2. QED
      BY <1>2, <3>1
  <2>5. QED
    BY <1>2, <1>3, <2>1, <2>2, <2>3, <2>4 DEF QueueIsEnd
<1>8. LogIsBehind'
  <2>1. (\A i \in 1..Len(log) : InSent(log[i]))'
    BY <1>1, <1>5 DEF IInv, LogIsBehind
  <2>2. (\A n \in 1..Len(sent) : n > Taken + 1 => ~InLog(sent[n]))'
    <3>1. \A d : InLog(d)' <=> InLog(d)
      BY <1>1 DEF InLog
    <3>2. \A n \in 1..Len(sent) : n > Taken + 1 => ~InLog(sent[n])
      BY DEF IInv, LogIsBehind
    <3>3. \A n \in 1..Len(sent') : n \in 1..Len(sent) \/ n = Len(sent) + 1
      BY <1>2
    <3>4. QED
      BY <1>2, <1>3, <1>4, <3>1, <3>2, <3>3
  <2>3. (\A p \in Process : delivery[p] # Nobody =>
           \A n \in 1..Len(sent) : n > Taken => ~InLog(sent[n]))'
    BY <1>1, <1>2, <1>3, <1>4 DEF IInv, LogIsBehind, InLog
  <2>4. QED
    BY <2>1, <2>2, <2>3 DEF LogIsBehind
<1>9. Promise!Send(c)
  BY <1>1, <1>4 DEF InSent, Promise!Send, Promise!Elements
<1>10. QED
  BY <1>6, <1>7, <1>8, <1>9

\* What the API does before and instead of a publication.
LEMMA RequestKeeps ==
  ASSUME IInv, NEW c \in Command, SaveQueued(c) \/ PublishFails(c)
  PROVE  OneTurn' /\ QueueIsEnd' /\ LogIsBehind' /\ Progress'
<1>1. /\ request[c] \in {"none", "saved"}
      /\ \E r \in {"saved", "failed"} : request' = [request EXCEPT ![c] = r]
      /\ UNCHANGED <<sent, queue, delivery, consuming, handler, log, eventLog>>
  BY DEF SaveQueued, PublishFails, brokerVars, storeVars, processVars
<1>2. OneTurn' /\ LogIsBehind' /\ Progress'
  BY <1>1 DEF IInv, OneTurn, LogIsBehind, Progress, InSent, InLog, InEventLog, Taken
<1>3. QueueIsEnd'
  BY <1>1 DEF IInv, Shape, QueueIsEnd, InSent, Taken
<1>4. QED
  BY <1>2, <1>3

-----------------------------------------------------------------------------
(* The theorems *)

\* Every step keeps the invariant, and is a step of the promise or none.
LEMMA StepKeeps ==
  ASSUME IInv, [Next]_vars
  PROVE  OneTurn' /\ QueueIsEnd' /\ LogIsBehind' /\ Progress' /\ [Promise!Next]_(Promise!vars)
<1>1. ASSUME NEW c \in Command, SaveQueued(c) \/ Publish(c) \/ PublishFails(c)
      PROVE  /\ OneTurn' /\ QueueIsEnd' /\ LogIsBehind' /\ Progress'
             /\ [Promise!Next]_(Promise!vars)
  <2>1. CASE Publish(c)
    BY <2>1, PublishKeeps DEF Promise!Next
  <2>2. CASE SaveQueued(c) \/ PublishFails(c)
    <3>1. UNCHANGED <<sent, log, eventLog>>
      BY <2>2 DEF SaveQueued, PublishFails, storeVars
    <3>2. QED
      BY <2>2, <3>1, RequestKeeps DEF Promise!vars
  <2>3. QED
    BY <1>1, <2>1, <2>2
<1>2. ASSUME NEW p \in Process, AppendCommand(p) \/ AppendEvents(p)
      PROVE  /\ OneTurn' /\ QueueIsEnd' /\ LogIsBehind' /\ Progress'
             /\ [Promise!Next]_(Promise!vars)
  <2>1. delivery[p] \in Command
    BY <1>2 DEF AppendCommand, AppendEvents, At, IInv, Shape, OneTurn
  <2>2. QED
    BY <1>2, <2>1, AppendCommandKeeps, AppendEventsKeeps DEF Promise!Next
<1>3. ASSUME NEW p \in Process,
             \/ Deliver(p) \/ Start(p) \/ MovesQuietly(p)
             \/ Settles(p) \/ Returns(p) \/ Leaves(p)
      PROVE  /\ OneTurn' /\ QueueIsEnd' /\ LogIsBehind' /\ Progress'
             /\ [Promise!Next]_(Promise!vars)
  <2>1. UNCHANGED <<sent, log, eventLog>>
    BY <1>3 DEF Deliver, Start, MovesQuietly, Moves, Settles, Returns, Leaves, Parts,
                apiVars, storeVars
  <2>2. OneTurn' /\ QueueIsEnd' /\ LogIsBehind' /\ Progress'
    BY <1>3, DeliveryKeeps, StartKeeps, QuietMoveKeeps, SettlingKeeps, ReturningKeeps,
       LeavingKeeps
  <2>3. QED
    BY <2>1, <2>2 DEF Promise!vars
<1>4. ASSUME UNCHANGED vars
      PROVE  /\ OneTurn' /\ QueueIsEnd' /\ LogIsBehind' /\ Progress'
             /\ [Promise!Next]_(Promise!vars)
  <2>1. UNCHANGED <<request, sent, queue, delivery, consuming, handler, log, eventLog>>
    BY <1>4 DEF vars, apiVars, brokerVars, storeVars, processVars
  <2>2. Taken' = Taken
    BY <2>1 DEF Taken
  <2>3. OneTurn' /\ LogIsBehind' /\ Progress' /\ [Promise!Next]_(Promise!vars)
    BY <2>1, <2>2 DEF IInv, OneTurn, LogIsBehind, Progress, InSent, InLog, InEventLog,
                      Promise!vars
  <2>4. QueueIsEnd'
    BY <2>1, <2>2 DEF IInv, QueueIsEnd, InSent
  <2>5. QED
    BY <2>3, <2>4
<1>5. QED
  BY <1>1, <1>2, <1>3, <1>4, StepKinds

LEMMA ShapeKeeps ==
  ASSUME IInv, [Next]_vars
  PROVE  Shape'
<1>1. /\ request \in [Command -> {"none", "saved", "accepted", "failed"}]
      /\ status \in [Command -> CommandStatus]
      /\ sent \in Seq(Command) /\ queue \in Seq(Command)
      /\ log \in Seq(Command) /\ eventLog \in Seq(Command)
      /\ delivery \in [Process -> Command \cup {Nobody}]
      /\ consuming \in [Process -> BOOLEAN]
      /\ handler \in [Process -> HandlerStep]
      /\ failures \in Nat
  BY DEF IInv, Shape
<1>2. ASSUME NEW p \in Process PROVE delivery[p] # Nobody <=> handler[p] # "idle"
  BY DEF IInv, OneTurn
<1>3. ASSUME NEW p \in Process, NEW step \in DOMAIN Following, CallReturns(p, step)
       PROVE  handler' \in [Process -> HandlerStep] /\ failures' \in Nat
  <2>1. step \in HandlerStep /\ Following[step] \in HandlerStep /\ "reject" \in HandlerStep
    BY DEF Following, HandlerStep
  <2>2. \/ handler' = [handler EXCEPT ![p] = Following[step]] /\ UNCHANGED failures
        \/ handler' = [handler EXCEPT ![p] = "reject"] /\ failures' = failures + 1
    BY <1>3 DEF CallReturns, GoTo
  <2>3. handler \in [Process -> HandlerStep] /\ failures \in Nat
    BY <1>1
  <2>4. QED
    BY <2>1, <2>2, <2>3
<1>4. ASSUME NEW c \in Command, SaveQueued(c) \/ Publish(c) \/ PublishFails(c)
      PROVE  Shape'
  <2>1. CASE SaveQueued(c)
    <3>1. /\ request' = [request EXCEPT ![c] = "saved"]
          /\ status' = [status EXCEPT ![c] = "QUEUED"]
          /\ UNCHANGED <<sent, queue, log, eventLog, delivery, consuming, handler, failures>>
      BY <2>1 DEF SaveQueued, brokerVars, processVars, faultVars
    <3>2. QED
      BY <1>1, <3>1 DEF Shape, CommandStatus
  <2>2. CASE Publish(c)
    <3>1. /\ \E r \in {"accepted", "failed"} : request' = [request EXCEPT ![c] = r]
          /\ failures' = failures \/ failures' = failures + 1
      BY <2>2 DEF Publish
    <3>2. sent' \in Seq(Command) /\ queue' \in Seq(Command)
      BY <1>1, <2>2, AppendProperties DEF Publish
    <3>3. UNCHANGED <<status, log, eventLog, delivery, consuming, handler>>
      BY <2>2 DEF Publish, storeVars, processVars
    <3>4. QED
      <4>1. request' \in [Command -> {"none", "saved", "accepted", "failed"}]
        BY <1>1, <3>1
      <4>2. failures' \in Nat
        BY <1>1, <3>1
      <4>3. QED
        BY <1>1, <3>2, <3>3, <4>1, <4>2 DEF Shape
  <2>3. CASE PublishFails(c)
    BY <1>1, <2>3 DEF PublishFails, Shape, brokerVars, storeVars, processVars
  <2>4. QED
    BY <1>4, <2>1, <2>2, <2>3
<1>5. ASSUME NEW p \in Process, Deliver(p) PROVE Shape'
  <2>1. Head(queue) \in Command /\ Tail(queue) \in Seq(Command)
    BY <1>1, <1>5, HeadTailProperties DEF Deliver
  <2>2. QED
    BY <1>1, <1>5, <2>1 DEF Deliver, Shape, apiVars, storeVars, faultVars, HandlerStep
<1>6. ASSUME NEW p \in Process,
             \/ AppendCommand(p) \/ AppendEvents(p) \/ SaveProcessed(p) \/ SaveSkipped(p)
             \/ SaveRejected(p)
      PROVE  Shape'
  <2>1. delivery[p] \in Command
    BY <1>1, <1>2, <1>6
       DEF AppendCommand, AppendEvents, SaveProcessed, SaveSkipped, SaveRejected, At
  <2>2. CASE AppendCommand(p)
    <3>1. handler' \in [Process -> HandlerStep] /\ failures' \in Nat
      BY <1>3, <2>2 DEF AppendCommand, Following
    <3>2. log' \in Seq(Command)
      BY <1>1, <2>1, <2>2, AppendProperties DEF AppendCommand
    <3>3. QED
      BY <1>1, <2>2, <3>1, <3>2 DEF AppendCommand, Shape, apiVars, brokerVars
  <2>3. CASE AppendEvents(p)
    <3>1. handler' \in [Process -> HandlerStep] /\ failures' \in Nat
      BY <1>3, <2>3 DEF AppendEvents, Following
    <3>2. eventLog' \in Seq(Command)
      BY <1>1, <2>1, <2>3, AppendProperties DEF AppendEvents
    <3>3. QED
      BY <1>1, <2>3, <3>1, <3>2 DEF AppendEvents, Shape, apiVars, brokerVars
  <2>4. CASE SaveProcessed(p)
    <3>1. handler' \in [Process -> HandlerStep] /\ failures' \in Nat
      BY <1>3, <2>4 DEF SaveProcessed, Following
    <3>2. QED
      BY <1>1, <2>1, <2>4, <3>1 DEF SaveProcessed, Shape, CommandStatus, apiVars, brokerVars
  <2>5. CASE SaveSkipped(p) \/ SaveRejected(p)
    BY <1>1, <2>1, <2>5 DEF SaveSkipped, SaveRejected, Rejection, Shape, AfterRejection, GoTo,
                            HandlerStep, CommandStatus, apiVars, brokerVars, faultVars
  <2>6. QED
    BY <1>6, <2>2, <2>3, <2>4, <2>5
<1>7. ASSUME NEW p \in Process,
             \/ Accept(p) \/ SkipProcessed(p) \/ Execute(p) \/ StillLeads(p)
             \/ SaveReadModel(p) \/ SaveSnapshot(p) \/ CallFails(p)
      PROVE  Shape'
  <2>1. CASE Accept(p) \/ SkipProcessed(p) \/ Execute(p) \/ StillLeads(p)
    BY <1>1, <2>1 DEF Accept, SkipProcessed, Execute, StillLeads, Shape, Following, GoTo,
                      HandlerStep, apiVars, brokerVars, storeVars, faultVars
  <2>2. CASE SaveReadModel(p) \/ SaveSnapshot(p)
    <3>1. handler' \in [Process -> HandlerStep] /\ failures' \in Nat
      BY <1>3, <2>2 DEF SaveReadModel, SaveSnapshot, Following
    <3>2. QED
      BY <1>1, <2>2, <3>1 DEF SaveReadModel, SaveSnapshot, Shape, apiVars, brokerVars
  <2>3. CASE CallFails(p)
    BY <1>1, <2>3 DEF CallFails, Shape, GoTo, HandlerStep, apiVars, brokerVars, storeVars
  <2>4. QED
    BY <1>7, <2>1, <2>2, <2>3
<1>8. ASSUME NEW p \in Process,
             \/ RefuseForeign(p) \/ Acknowledge(p) \/ RejectFails(p)
             \/ AcknowledgeAndReport(p) /\ StepDown(p)
      PROVE  Shape'
  <2>1. CASE RefuseForeign(p) \/ Acknowledge(p)
    BY <1>1, <2>1 DEF RefuseForeign, Acknowledge, EndDelivery, DeadLetter, Settle, Shape,
                      GoTo, HandlerStep, apiVars, storeVars, faultVars
  <2>2. CASE RejectFails(p)
    BY <1>1, <2>2 DEF RejectFails, Rejection, DeadLetter, Settle, Shape, GoTo, HandlerStep,
                      CommandStatus, apiVars
  <2>3. CASE AcknowledgeAndReport(p) /\ StepDown(p)
    BY <1>1, <2>3 DEF AcknowledgeAndReport, AcknowledgeLast, EndDelivery, Settle, StepDown,
                      Shape, GoTo, HandlerStep, apiVars, storeVars
  <2>4. QED
    BY <1>8, <2>1, <2>2, <2>3
<1>9. ASSUME NEW p \in Process, (GiveBack(p) /\ StepDown(p)) \/ Crash(p)
      PROVE  Shape'
  <2>1. CASE GiveBack(p) /\ StepDown(p)
    <3>1. delivery[p] \in Command
      BY <1>1, <1>2, <2>1 DEF GiveBack, HandBack, At
    <3>2. <<delivery[p]>> \o queue \in Seq(Command)
      BY <1>1, <3>1
    <3>3. QED
      BY <1>1, <2>1, <3>2 DEF GiveBack, HandBack, NackAndRequeue, Requeue, Settle, StepDown,
                              Shape, GoTo, HandlerStep, apiVars, storeVars
  <2>2. CASE Crash(p) /\ delivery[p] = Nobody
    BY <1>1, <2>2 DEF Crash, LoseProcess, LoseMemory, Shape, GoTo, HandlerStep, apiVars,
                      storeVars
  <2>3. CASE Crash(p) /\ delivery[p] # Nobody
    <3>1. <<delivery[p]>> \o queue \in Seq(Command)
      BY <1>1, <2>3
    <3>2. QED
      BY <1>1, <2>3, <3>1 DEF Crash, LoseProcess, LoseMemory, Requeue, Settle, Shape, GoTo,
                              HandlerStep, apiVars, storeVars
  <2>4. QED
    BY <1>9, <2>1, <2>2, <2>3
<1>10. ASSUME NEW p \in Process, Start(p) PROVE Shape'
  BY <1>1, <1>10 DEF Start, Shape, apiVars, brokerVars, storeVars, faultVars
<1>11. CASE UNCHANGED vars
  BY <1>1, <1>11 DEF Shape, vars, apiVars, brokerVars, storeVars, processVars, faultVars
<1>12. QED
  BY <1>4, <1>5, <1>6, <1>7, <1>8, <1>9, <1>10, <1>11
     DEF Next, Api, HandlerNext, QuietStep, StoreStep, ReportingStep

\* A step of one of the kinds that change neither stream, whoever may take it.
LEMMA KindKeepsInv ==
  ASSUME IInv, NEW p \in Process, MovesQuietly(p) \/ Settles(p) \/ Returns(p) \/ Leaves(p),
         status' = status \/ status' \in [Command -> CommandStatus], failures' \in Nat
  PROVE  IInv' /\ UNCHANGED <<sent, log, eventLog>>
<1>1. OneTurn' /\ QueueIsEnd' /\ LogIsBehind' /\ Progress'
  BY QuietMoveKeeps, SettlingKeeps, ReturningKeeps, LeavingKeeps
<1>2. UNCHANGED <<request, sent, log, eventLog>>
  BY DEF MovesQuietly, Moves, Settles, Returns, Leaves, Parts
<1>3. queue' \in Seq(Command)
  <2>1. delivery[p] # Nobody => <<delivery[p]>> \o queue \in Seq(Command)
    BY DEF IInv, Shape
  <2>2. queue' = queue \/ (delivery[p] # Nobody /\ queue' = <<delivery[p]>> \o queue)
    BY DEF MovesQuietly, Moves, Settles, Returns, Requeue, Leaves
  <2>3. QED
    BY <2>1, <2>2 DEF IInv, Shape
<1>4. consuming' \in [Process -> BOOLEAN]
  BY DEF MovesQuietly, Moves, Settles, Returns, Leaves, Parts, IInv, Shape
<1>5. delivery' \in [Process -> Command \cup {Nobody}]
  <2>1. delivery' = delivery \/ delivery' = [delivery EXCEPT ![p] = Nobody]
    BY DEF MovesQuietly, Moves, Settles, Returns, Requeue, Leaves, Settle
  <2>2. QED
    BY <2>1 DEF IInv, Shape
<1>6. handler' \in [Process -> HandlerStep]
  <2>1. \E s \in HandlerStep : handler' = [handler EXCEPT ![p] = s]
    BY DEF MovesQuietly, Moves, Settles, Returns, Leaves, Parts, GoTo, HandlerStep
  <2>2. QED
    BY <2>1 DEF IInv, Shape
<1>7. QED
  BY <1>1, <1>2, <1>3, <1>4, <1>5, <1>6 DEF IInv, Shape

\* A step that changes at most who consumes, and stops nobody who has a message in hand.
LEMMA TurnKeepsInv ==
  ASSUME IInv,
         UNCHANGED <<request, status, sent, queue, delivery, handler, log, eventLog>>,
         failures' \in Nat, consuming' \in [Process -> BOOLEAN],
         \A p, q \in Process : consuming'[p] /\ consuming'[q] => p = q,
         \A p \in Process : delivery[p] # Nobody => consuming'[p]
  PROVE  IInv' /\ UNCHANGED <<sent, log, eventLog>>
<1>1. OneTurn'
  BY DEF IInv, OneTurn
<1>2. QueueIsEnd' /\ LogIsBehind' /\ Progress'
  <2>1. Taken' = Taken
    BY DEF Taken
  <2>2. QED
    BY <2>1 DEF IInv, QueueIsEnd, LogIsBehind, Progress, InSent, InLog, InEventLog
<1>3. Shape'
  BY DEF IInv, Shape
<1>4. QED
  BY <1>1, <1>2, <1>3 DEF IInv

LEMMA InitIsInvariant == Init => IInv /\ Promise!Init
<1> SUFFICES ASSUME Init PROVE IInv /\ Promise!Init
  OBVIOUS
<1>1. Shape
  BY DEF Init, Shape, HandlerStep, CommandStatus
<1>2. OneTurn /\ QueueIsEnd /\ LogIsBehind /\ Progress
  BY DEF Init, OneTurn, QueueIsEnd, LogIsBehind, Progress, InSent, InLog, InEventLog, Taken
<1>3. QED
  BY <1>1, <1>2 DEF Init, IInv, Promise!Init

\* The worker implements the promise of PartitionLog: whatever crashes, fails or is
\* delivered again, its log repeats no command and lets none overtake another.
THEOREM LogIsImplemented == Spec => ImplementsLog
<1>1. IInv /\ [Next]_vars => IInv' /\ [Promise!Next]_(Promise!vars)
  BY ShapeKeeps, StepKeeps DEF IInv
<1>2. QED
  BY <1>1, InitIsInvariant, PTL DEF Spec, ImplementsLog, Promise!Spec

\* The worker neither repeats a command nor lets one overtake another: the log keeps
\* the order in which the commands were sent, the event stream that of the log, through
\* crashes, redeliveries and failing calls.
THEOREM WorkerKeepsOrder == Spec => [](Promise!Once /\ Promise!InOrder)
  BY LogIsImplemented, NoRepetitionNoOvertaking, PTL DEF ImplementsLog

-----------------------------------------------------------------------------
(* What a status tells *)

\* What the handler knows of the execution of its command.
KnowsLog(p) ==
  /\ handler[p] \in {"checkAfterExecution", "appendCommand"} => ~Throws(delivery[p])
  /\ handler[p] \in {"appendEvents", "saveReadModel", "saveSnapshot", "saveProcessed",
                     "checkBeforeAck", "skip"} => InLog(delivery[p])

NoneThrows == \A i \in 1..Len(log) : ~Throws(log[i])

\* A command that throws is never logged, and one that is reported as processed is.
LogKnown ==
  /\ NoneThrows
  /\ \A p \in Process : KnowsLog(p)
  /\ \A c \in Command : status[c] = "PROCESSED" => InLog(c)

\* As long as no call has failed, only a command that throws is rejected.
RejectedThrows ==
  failures = 0 =>
    /\ \A p \in Process : handler[p] = "reject" => Throws(delivery[p])
    /\ \A c \in Command : status[c] = "REJECTED" => Throws(c)

StatusInv == LogKnown /\ RejectedThrows

\* A step of process p that leaves the log alone and reports nothing as processed.
LEMMA MovingOnKnows ==
  ASSUME LogKnown, NEW p \in Process, KnowsLog(p)',
         \A q \in Process \ {p} : handler'[q] = handler[q] /\ delivery'[q] = delivery[q],
         log' = log, \A c \in Command : status'[c] = "PROCESSED" => status[c] = "PROCESSED"
  PROVE  LogKnown'
<1>1. \A q \in Process : KnowsLog(q)'
  BY DEF LogKnown, KnowsLog, InLog
<1>2. NoneThrows' /\ \A c \in Command : status'[c] = "PROCESSED" => InLog(c)'
  BY DEF LogKnown, NoneThrows, InLog
<1>3. QED
  BY <1>1, <1>2 DEF LogKnown

\* A step of process p that writes the status of the command in hand.
LEMMA TellingKnows ==
  ASSUME LogKnown, status \in [Command -> CommandStatus],
         NEW p \in Process, KnowsLog(p)', delivery[p] \in Command,
         NEW s \in {"PROCESSED", "REJECTED"},
         status' = [status EXCEPT ![delivery[p]] = s],
         s = "PROCESSED" => InLog(delivery[p]),
         \A q \in Process \ {p} : handler'[q] = handler[q],
         UNCHANGED <<log, delivery>>
  PROVE  LogKnown'
<1>1. \A q \in Process : KnowsLog(q)'
  BY DEF LogKnown, KnowsLog, InLog
<1>2. NoneThrows'
  BY DEF LogKnown, NoneThrows
<1>3. ASSUME NEW c \in Command, status'[c] = "PROCESSED" PROVE InLog(c)'
  BY <1>3 DEF LogKnown, InLog
<1>4. QED
  BY <1>1, <1>2, <1>3 DEF LogKnown

\* Logging the command in hand.
LEMMA LoggingKnows ==
  ASSUME IInv, LogKnown, NEW p \in Process, AppendCommand(p)
  PROVE  LogKnown'
<1>1. /\ handler[p] = "appendCommand" /\ log' = Append(log, delivery[p])
      /\ \E s \in {"appendEvents", "reject"} : handler' = [handler EXCEPT ![p] = s]
      /\ UNCHANGED <<delivery, status>>
  BY DEF AppendCommand, CallReturns, Following, At, GoTo, brokerVars
<1>2. delivery[p] \in Command /\ ~Throws(delivery[p])
  BY <1>1 DEF IInv, Shape, OneTurn, LogKnown, KnowsLog
<1>3. /\ Len(log) \in Nat /\ Len(log') = Len(log) + 1 /\ log'[Len(log) + 1] = delivery[p]
      /\ \A i \in 1..Len(log) : log'[i] = log[i]
  BY <1>1, <1>2, LenProperties, AppendProperties DEF IInv, Shape
<1>4. InLog(delivery[p])' /\ \A c : InLog(c) => InLog(c)'
  BY <1>1, <1>3 DEF InLog
<1>5. NoneThrows'
  BY <1>2, <1>3 DEF LogKnown, NoneThrows
<1>6. ASSUME NEW q \in Process PROVE KnowsLog(q)'
  <2>1. CASE q = p
    <3>1. handler'[p] \in {"appendEvents", "reject"}
      BY <1>1 DEF IInv, Shape
    <3>2. QED
      BY <1>1, <1>4, <2>1, <3>1 DEF KnowsLog
  <2>2. CASE q # p
    <3>1. handler'[q] = handler[q] /\ delivery'[q] = delivery[q]
      BY <1>1, <2>2 DEF IInv, Shape
    <3>2. QED
      BY <1>4, <3>1 DEF LogKnown, KnowsLog
  <2>3. QED
    BY <2>1, <2>2
<1>7. QED
  BY <1>1, <1>4, <1>5, <1>6 DEF LogKnown

\* The handler's calls to the stores.
LEMMA HandlerKnows ==
  ASSUME IInv, LogKnown, NEW p \in Process, StoreStep(p)
  PROVE  LogKnown'
<1>1. /\ handler \in [Process -> HandlerStep] /\ status \in [Command -> CommandStatus]
      /\ KnowsLog(p)
  BY DEF IInv, Shape, LogKnown
<1>2. CASE Accept(p)
  <2>1. handler' = [handler EXCEPT ![p] = "isCommandProcessed"] /\ UNCHANGED <<log, status, delivery>>
    BY <1>2 DEF Accept, GoTo, brokerVars, storeVars
  <2>2. KnowsLog(p)'
    BY <1>1, <2>1 DEF KnowsLog
  <2>3. QED
    BY <1>1, <2>1, <2>2, MovingOnKnows
<1>3. CASE SkipProcessed(p)
  <2>1. handler' = [handler EXCEPT ![p] = "skip"] /\ UNCHANGED <<log, status, delivery>>
    BY <1>3 DEF SkipProcessed, GoTo, brokerVars, storeVars
  <2>2. InLog(delivery[p])
    BY <1>3 DEF SkipProcessed, IsProcessed, ToSet, InLog
  <2>3. KnowsLog(p)'
    BY <1>1, <2>1, <2>2 DEF KnowsLog, InLog
  <2>4. QED
    BY <1>1, <2>1, <2>3, MovingOnKnows
<1>4. CASE Execute(p)
  <2>1. /\ \/ Throws(delivery[p]) /\ handler' = [handler EXCEPT ![p] = "reject"]
           \/ ~Throws(delivery[p]) /\ handler' = [handler EXCEPT ![p] = "checkAfterExecution"]
        /\ UNCHANGED <<log, status, delivery>>
    BY <1>4 DEF Execute, GoTo, brokerVars, storeVars
  <2>2. KnowsLog(p)'
    BY <1>1, <2>1 DEF KnowsLog
  <2>3. QED
    BY <1>1, <2>1, <2>2, MovingOnKnows
<1>5. CASE StillLeads(p)
  <2>1. /\ handler[p] = "checkAfterExecution"
        /\ handler' = [handler EXCEPT ![p] = "appendCommand"] /\ UNCHANGED <<log, status, delivery>>
    BY <1>5 DEF StillLeads, At, GoTo, Following, brokerVars, storeVars
  <2>2. KnowsLog(p)'
    BY <1>1, <2>1 DEF KnowsLog
  <2>3. QED
    BY <1>1, <2>1, <2>2, MovingOnKnows
<1>6. CASE AppendEvents(p) \/ SaveReadModel(p) \/ SaveSnapshot(p) \/ SaveProcessed(p)
  <2>1. /\ handler[p] \in {"appendEvents", "saveReadModel", "saveSnapshot", "saveProcessed"}
        /\ \E s \in {"saveReadModel", "saveSnapshot", "saveProcessed", "checkBeforeAck", "reject"} :
             handler' = [handler EXCEPT ![p] = s]
        /\ UNCHANGED <<log, delivery>>
    BY <1>6 DEF AppendEvents, SaveReadModel, SaveSnapshot, SaveProcessed, CallReturns, At, GoTo,
                Following, brokerVars
  <2>2. InLog(delivery[p])
    BY <1>1, <2>1 DEF KnowsLog
  <2>3. handler'[p] \notin {"checkAfterExecution", "appendCommand"}
        /\ \A q \in Process \ {p} : handler'[q] = handler[q]
    BY <1>1, <2>1
  <2>4. KnowsLog(p)'
    BY <2>1, <2>2, <2>3 DEF KnowsLog, InLog
  <2>5. CASE SaveProcessed(p)
    <3>1. delivery[p] \in Command
      BY <2>1 DEF IInv, Shape, OneTurn
    <3>2. status' = [status EXCEPT ![delivery[p]] = "PROCESSED"]
      BY <2>5 DEF SaveProcessed
    <3>3. QED
      BY <1>1, <2>1, <2>2, <2>3, <2>4, <3>1, <3>2, TellingKnows
  <2>6. CASE ~SaveProcessed(p)
    <3>1. status' = status
      BY <1>6, <2>6 DEF AppendEvents, SaveReadModel, SaveSnapshot
    <3>2. QED
      BY <2>1, <2>3, <2>4, <3>1, MovingOnKnows
  <2>7. QED
    BY <2>5, <2>6
<1>7. CASE SaveSkipped(p) \/ SaveRejected(p)
  <2>1. /\ handler[p] \in {"skip", "reject"} /\ handler' = [handler EXCEPT ![p] = "ack"]
        /\ \E s \in {"PROCESSED", "REJECTED"} :
             /\ status' = [status EXCEPT ![delivery[p]] = s]
             /\ s = "PROCESSED" => handler[p] = "skip"
        /\ UNCHANGED <<log, delivery>>
    BY <1>7 DEF SaveSkipped, SaveRejected, Rejection, AfterRejection, At, GoTo, brokerVars
  <2>2. delivery[p] \in Command
    BY <2>1 DEF IInv, Shape, OneTurn
  <2>3. (handler[p] = "skip" => InLog(delivery[p])) /\ KnowsLog(p)'
    BY <1>1, <2>1 DEF KnowsLog
  <2>4. \A q \in Process \ {p} : handler'[q] = handler[q]
    BY <1>1, <2>1
  <2>5. QED
    BY <1>1, <2>1, <2>2, <2>3, <2>4, TellingKnows
<1>8. QED
  BY <1>2, <1>3, <1>4, <1>5, <1>6, <1>7, LoggingKnows DEF StoreStep

\* The handler is brought to a step at which it knows nothing of its command.
LEMMA ForgettingKnows ==
  ASSUME LogKnown, NEW p \in Process,
         handler'[p] \in {"idle", "checkLeadership", "reject", "ack"},
         \A q \in Process \ {p} : handler'[q] = handler[q] /\ delivery'[q] = delivery[q],
         log' = log, \A c \in Command : status'[c] = "PROCESSED" => status[c] = "PROCESSED"
  PROVE  LogKnown'
<1>1. KnowsLog(p)'
  BY DEF KnowsLog
<1>2. QED
  BY <1>1, MovingOnKnows

\* A step of no handler; the API may save a status.
LEMMA OthersKnow ==
  ASSUME LogKnown, status \in [Command -> CommandStatus],
         UNCHANGED <<log, delivery, handler>>,
         status' = status \/ \E c \in Command : status' = [status EXCEPT ![c] = "QUEUED"]
  PROVE  LogKnown'
<1>1. NoneThrows' /\ \A p \in Process : KnowsLog(p)'
  BY DEF LogKnown, NoneThrows, KnowsLog, InLog
<1>2. \A c \in Command : status'[c] = "PROCESSED" => status[c] = "PROCESSED"
  OBVIOUS
<1>3. QED
  BY <1>1, <1>2 DEF LogKnown, InLog

\* A delivery begins, a call fails, or the message leaves the process.
LEMMA ComingAndGoing ==
  ASSUME IInv, NEW p \in Process,
         \/ Deliver(p) \/ CallFails(p) \/ RefuseForeign(p) \/ Acknowledge(p) \/ RejectFails(p)
         \/ (ReportingStep(p) /\ StepDown(p)) \/ Crash(p)
  PROVE  /\ handler'[p] \in {"idle", "checkLeadership", "reject"}
         /\ handler'[p] = "reject" => failures' # 0
         /\ \A q \in Process \ {p} : handler'[q] = handler[q] /\ delivery'[q] = delivery[q]
         /\ log' = log
         /\ \A c \in Command : status'[c] = "PROCESSED" => status[c] = "PROCESSED"
         /\ failures' = 0 => status' = status
         /\ failures' = 0 => failures = 0
<1>1. /\ handler \in [Process -> HandlerStep] /\ failures \in Nat
      /\ delivery \in [Process -> Command \cup {Nobody}]
      /\ status \in [Command -> CommandStatus]
  BY DEF IInv, Shape
<1>2. /\ \E s \in {"idle", "checkLeadership", "reject"} :
           /\ handler' = [handler EXCEPT ![p] = s]
           /\ s = "reject" => failures' = failures + 1
      /\ delivery' = delivery \/ \E c : delivery' = [delivery EXCEPT ![p] = c]
      /\ failures' = failures \/ failures' = failures + 1
      /\ log' = log
      /\ status' = status
           \/ (failures' = failures + 1 /\ status' = [status EXCEPT ![delivery[p]] = "REJECTED"])
  BY DEF Deliver, CallFails, RefuseForeign, Acknowledge, RejectFails, Rejection, ReportingStep, StepDown,
         Crash, GiveBack, HandBack, NackAndRequeue, Requeue, AcknowledgeAndReport,
         AcknowledgeLast, EndDelivery, DeadLetter, Settle, LoseProcess, LoseMemory, GoTo,
         storeVars, brokerVars, faultVars
<1>3. QED
  BY <1>1, <1>2

\* The API, and a process that takes its turn.
LEMMA StartingAndAsking ==
  ASSUME IInv, Api \/ (\E p \in Process : Start(p)) \/ UNCHANGED vars
  PROVE  /\ UNCHANGED <<log, delivery, handler>>
         /\ status' = status \/ \E c \in Command : status' = [status EXCEPT ![c] = "QUEUED"]
         /\ failures' = 0 => failures = 0
<1>1. failures \in Nat
  BY DEF IInv, Shape
<1>2. /\ UNCHANGED <<log, delivery, handler>>
      /\ status' = status \/ \E c \in Command : status' = [status EXCEPT ![c] = "QUEUED"]
      /\ failures' = failures \/ failures' = failures + 1
  BY DEF Api, SaveQueued, Publish, PublishFails, Start, vars, brokerVars, storeVars,
         processVars, faultVars
<1>3. QED
  BY <1>1, <1>2

\* Who is to be rejected, as long as no call has failed.
LEMMA RejectingStep ==
  ASSUME IInv, RejectedThrows, NEW p \in Process, StoreStep(p)
  PROVE  RejectedThrows'
<1>1. /\ handler \in [Process -> HandlerStep] /\ status \in [Command -> CommandStatus]
      /\ failures \in Nat
  BY DEF IInv, Shape
<1>2. CASE SaveProcessed(p) \/ SaveSkipped(p) \/ SaveRejected(p)
  <2>1. /\ \E s \in {"PROCESSED", "REJECTED"} :
             /\ status' = [status EXCEPT ![delivery[p]] = s]
             /\ s = "REJECTED" => handler[p] = "reject"
        /\ \/ failures' = failures /\ \E s \in {"checkBeforeAck", "ack"} :
                                        handler' = [handler EXCEPT ![p] = s]
           \/ failures' = failures + 1
        /\ UNCHANGED delivery
    BY <1>2 DEF SaveProcessed, SaveSkipped, SaveRejected, Rejection, AfterRejection, CallReturns, Following,
                At, GoTo, brokerVars, faultVars
  <2>2. QED
    BY <1>1, <2>1 DEF RejectedThrows
<1>3. CASE ~(SaveProcessed(p) \/ SaveSkipped(p) \/ SaveRejected(p))
  <2>1. /\ \/ failures' = failures /\ \E s \in HandlerStep :
                                        /\ handler' = [handler EXCEPT ![p] = s]
                                        /\ s = "reject" => Throws(delivery[p])
           \/ failures' = failures + 1
        /\ UNCHANGED <<delivery, status>>
    BY <1>3 DEF StoreStep, Accept, SkipProcessed, Execute, StillLeads, AppendCommand,
                AppendEvents, SaveReadModel, SaveSnapshot, CallReturns, Following, At, GoTo,
                HandlerStep, brokerVars, storeVars, faultVars
  <2>2. QED
    BY <1>1, <2>1 DEF RejectedThrows
<1>4. QED
  BY <1>2, <1>3

LEMMA StatusInitially == Init => StatusInv
  BY DEF Init, StatusInv, LogKnown, RejectedThrows, NoneThrows, KnowsLog

LEMMA StatusStep ==
  ASSUME IInv, StatusInv, [Next]_vars
  PROVE  StatusInv'
<1>1. ASSUME NEW p \in Process, StoreStep(p) PROVE StatusInv'
  BY <1>1, HandlerKnows, RejectingStep DEF StatusInv
<1>2. ASSUME NEW p \in Process,
             \/ Deliver(p) \/ CallFails(p) \/ RefuseForeign(p) \/ Acknowledge(p) \/ RejectFails(p)
             \/ (ReportingStep(p) /\ StepDown(p)) \/ Crash(p)
      PROVE  StatusInv'
  <2>1. /\ handler'[p] \in {"idle", "checkLeadership", "reject"}
        /\ handler'[p] = "reject" => failures' # 0
        /\ \A q \in Process \ {p} : handler'[q] = handler[q] /\ delivery'[q] = delivery[q]
        /\ log' = log
        /\ \A c \in Command : status'[c] = "PROCESSED" => status[c] = "PROCESSED"
        /\ failures' = 0 => status' = status
        /\ failures' = 0 => failures = 0
    BY <1>2, ComingAndGoing
  <2>2. LogKnown'
    BY <2>1, ForgettingKnows DEF StatusInv
  <2>3. RejectedThrows'
    BY <2>1 DEF StatusInv, RejectedThrows
  <2>4. QED
    BY <2>2, <2>3 DEF StatusInv
<1>3. ASSUME Api \/ (\E p \in Process : Start(p)) \/ UNCHANGED vars PROVE StatusInv'
  <2>1. /\ UNCHANGED <<log, delivery, handler>>
        /\ status' = status \/ \E c \in Command : status' = [status EXCEPT ![c] = "QUEUED"]
        /\ failures' = 0 => failures = 0
    BY <1>3, StartingAndAsking
  <2>2. LogKnown'
    BY <2>1, OthersKnow DEF StatusInv, IInv, Shape
  <2>3. \A c \in Command : status'[c] = "REJECTED" => status[c] = "REJECTED"
    BY <2>1 DEF IInv, Shape
  <2>4. RejectedThrows'
    BY <2>1, <2>3 DEF StatusInv, RejectedThrows
  <2>5. QED
    BY <2>2, <2>4 DEF StatusInv
<1>4. QED
  BY <1>1, <1>2, <1>3 DEF Next, HandlerNext, QuietStep

\* A status tells what has happened to the book: a command reported as PROCESSED is
\* in the log for good and, as long as no call has failed, one reported as REJECTED is
\* not (updateCommandStatus).
THEOREM StatusAlwaysTrue == Spec => []StatusIsTrue
<1>1. Init => IInv /\ StatusInv
  BY InitIsInvariant, StatusInitially
<1>2. (IInv /\ StatusInv) /\ [Next]_vars => (IInv /\ StatusInv)'
  BY ShapeKeeps, StepKeeps, StatusStep DEF IInv
<1>3. IInv /\ StatusInv => StatusIsTrue
  <2> SUFFICES ASSUME IInv, StatusInv, NEW c \in Command
               PROVE  /\ status[c] = "PROCESSED" => c \in ToSet(log)
                      /\ status[c] = "REJECTED" /\ failures = 0 => c \notin ToSet(log)
    BY DEF StatusIsTrue
  <2>1. c \in ToSet(log) <=> InLog(c)
    BY DEF ToSet, InLog
  <2>2. QED
    BY <2>1 DEF StatusInv, LogKnown, RejectedThrows, NoneThrows, InLog
<1>4. QED
  BY <1>1, <1>2, <1>3, PTL DEF Spec

-----------------------------------------------------------------------------
(* A command is applied once, whoever consumes: the set of processed ids suffices, since *)
(* the broker has a message in one place at a time.  The lemmas are about single steps and *)
(* do not care which process may take them, so that they serve CommandWorker's turns, *)
(* MatchingNode's leaders and GoWorker's runs. *)

DeliveryShape ==
  /\ request \in [Command -> {"none", "saved", "accepted", "failed"}]
  /\ queue \in Seq(Command) /\ log \in Seq(Command)
  /\ delivery \in [Process -> Command \cup {Nobody}]
  /\ handler \in [Process -> HandlerStep]

IsLogged(c) == \E i \in 1..Len(log) : log[i] = c

IsQueued(c) == \E i \in 1..Len(queue) : queue[i] = c

\* A message is in one place: in the queue or at one process, and only if it was sent.
OnePlace ==
  /\ \A p \in Process : handler[p] = "idle" <=> delivery[p] = Nobody
  /\ \A i, j \in 1..Len(queue) : queue[i] = queue[j] => i = j
  /\ \A p \in Process : delivery[p] # Nobody => ~IsQueued(delivery[p])
  /\ \A p, q \in Process : delivery[p] = delivery[q] /\ delivery[p] # Nobody => p = q
  /\ \A c \in Command : request[c] \in {"none", "saved"} =>
       /\ ~IsQueued(c) /\ ~IsLogged(c)
       /\ \A p \in Process : delivery[p] # c

\* Who is about to append a command has found it missing.
FoundMissing ==
  \A p \in Process :
    handler[p] \in {"checkAfterExecution", "appendCommand"} => ~IsLogged(delivery[p])

DInv == DeliveryShape /\ OnePlace /\ FoundMissing /\ LoggedOnce

-----------------------------------------------------------------------------
(* The kinds of steps *)

\* What is none of the messages' business; a request may come closer to its
\* publication, or give it up.
Apart ==
  /\ UNCHANGED <<queue, log, delivery, handler>>
  /\ \/ request' = request
     \/ \E c \in Command, r \in {"saved", "failed"} :
          request[c] \in {"none", "saved"} /\ request' = [request EXCEPT ![c] = r]

\* Publish
Enqueues(c) ==
  /\ c \in Command /\ request[c] = "saved"
  /\ \E r \in {"accepted", "failed"} : request' = [request EXCEPT ![c] = r]
  /\ queue' = Append(queue, c)
  /\ UNCHANGED <<log, delivery, handler>>

\* Deliver
Takes(p) ==
  /\ p \in Process /\ delivery[p] = Nobody /\ queue # <<>>
  /\ delivery' = [delivery EXCEPT ![p] = Head(queue)]
  /\ queue' = Tail(queue)
  /\ handler' = [handler EXCEPT ![p] = "checkLeadership"]
  /\ UNCHANGED <<request, log>>

\* A handler goes on without writing to the log, nor to where it would before it has
\* found its command missing.
GoesOn(p) ==
  /\ p \in Process /\ handler[p] # "idle"
  /\ \E s \in HandlerStep \ {"idle"} : handler' = [handler EXCEPT ![p] = s]
  /\ UNCHANGED <<request, queue, log, delivery>>
  /\ handler'[p] \in {"checkAfterExecution", "appendCommand"} => ~IsLogged(delivery[p])

\* AppendCommand
Logs(p) ==
  /\ p \in Process /\ handler[p] = "appendCommand"
  /\ \E s \in HandlerStep \ {"idle", "checkAfterExecution", "appendCommand"} :
       handler' = [handler EXCEPT ![p] = s]
  /\ log' = Append(log, delivery[p])
  /\ UNCHANGED <<request, queue, delivery>>

\* A delivery ends, if there is one: settled for good, or back to the head of the queue.
Drops(p) ==
  /\ p \in Process
  /\ GoTo(p, "idle")
  /\ \/ Settle(p) /\ UNCHANGED queue
     \/ delivery[p] # Nobody /\ Requeue(p)
  /\ UNCHANGED <<request, log>>

Kind ==
  \/ Apart
  \/ \E c \in Command : Enqueues(c)
  \/ \E p \in Process : Takes(p) \/ GoesOn(p) \/ Logs(p) \/ Drops(p)

-----------------------------------------------------------------------------
(* Each kind keeps the invariant *)

LEMMA ApartKeeps == ASSUME DInv, Apart PROVE DInv'
<1>1. DeliveryShape'
  BY DEF DInv, DeliveryShape, Apart
<1>2. \A c \in Command : request'[c] \in {"none", "saved"} => request[c] \in {"none", "saved"}
  BY DEF DInv, DeliveryShape, Apart
<1>3. OnePlace'
  BY <1>2 DEF DInv, OnePlace, Apart, IsQueued, IsLogged
<1>4. FoundMissing' /\ LoggedOnce'
  BY DEF DInv, FoundMissing, LoggedOnce, Apart, IsLogged
<1>5. QED
  BY <1>1, <1>3, <1>4 DEF DInv

LEMMA EnqueuesKeeps == ASSUME DInv, NEW c \in Command, Enqueues(c) PROVE DInv'
<1>1. /\ request \in [Command -> {"none", "saved", "accepted", "failed"}]
      /\ queue \in Seq(Command) /\ Len(queue) \in Nat
      /\ delivery \in [Process -> Command \cup {Nobody}]
  BY LenProperties DEF DInv, DeliveryShape
<1>2. /\ queue' \in Seq(Command) /\ Len(queue') = Len(queue) + 1
      /\ queue'[Len(queue) + 1] = c /\ \A i \in 1..Len(queue) : queue'[i] = queue[i]
  BY <1>1, AppendProperties DEF Enqueues
<1>3. DeliveryShape'
  BY <1>1, <1>2 DEF DInv, DeliveryShape, Enqueues
<1>4. /\ request[c] = "saved" /\ ~IsQueued(c)
      /\ \A p \in Process : delivery[p] # c
  BY DEF DInv, OnePlace, Enqueues
<1>5. \A d : IsQueued(d)' <=> IsQueued(d) \/ d = c
  BY <1>1, <1>2 DEF IsQueued
<1>6. OnePlace'
  <2>1. (\A i, j \in 1..Len(queue) : queue[i] = queue[j] => i = j)'
    <3> SUFFICES ASSUME NEW i \in 1..Len(queue) + 1, NEW j \in 1..Len(queue) + 1,
                        queue'[i] = queue'[j]
                 PROVE  i = j
      BY <1>2
    <3>1. CASE i \in 1..Len(queue) /\ j \in 1..Len(queue)
      BY <1>2, <3>1 DEF DInv, OnePlace
    <3>2. CASE i = Len(queue) + 1 \/ j = Len(queue) + 1
      BY <1>1, <1>2, <1>4, <3>2 DEF IsQueued
    <3>3. QED
      BY <1>1, <3>1, <3>2
  <2>2. (\A d \in Command : request[d] \in {"none", "saved"} =>
           /\ ~IsQueued(d) /\ ~IsLogged(d)
           /\ \A p \in Process : delivery[p] # d)'
    BY <1>1, <1>4, <1>5 DEF DInv, OnePlace, Enqueues, IsLogged
  <2>3. (\A p \in Process : delivery[p] # Nobody => ~IsQueued(delivery[p]))'
    BY <1>4, <1>5 DEF DInv, OnePlace, Enqueues
  <2>4. QED
    BY <2>1, <2>2, <2>3 DEF DInv, OnePlace, Enqueues
<1>7. FoundMissing' /\ LoggedOnce'
  BY DEF DInv, FoundMissing, LoggedOnce, Enqueues, IsLogged
<1>8. QED
  BY <1>3, <1>6, <1>7 DEF DInv

LEMMA TakesKeeps == ASSUME DInv, NEW p \in Process, Takes(p) PROVE DInv'
<1>1. /\ queue \in Seq(Command) /\ Len(queue) \in Nat
      /\ delivery \in [Process -> Command \cup {Nobody}]
      /\ handler \in [Process -> HandlerStep]
  BY LenProperties DEF DInv, DeliveryShape
<1>2. /\ queue' \in Seq(Command) /\ Len(queue') = Len(queue) - 1 /\ Len(queue) > 0
      /\ \A i \in 1..Len(queue') : queue'[i] = queue[i + 1]
      /\ Head(queue) = queue[1] /\ queue[1] \in Command
  BY <1>1, HeadTailProperties, EmptySeq DEF Takes
<1>3. DeliveryShape'
  BY <1>1, <1>2 DEF DInv, DeliveryShape, Takes, HandlerStep
<1>4. \A d : IsQueued(d)' => IsQueued(d) /\ d # queue[1]
  BY <1>1, <1>2 DEF DInv, OnePlace, IsQueued
<1>5. \A q \in Process : delivery'[q] = IF q = p THEN queue[1] ELSE delivery[q]
  BY <1>1, <1>2 DEF Takes
<1>6. \A q \in Process : handler'[q] = IF q = p THEN "checkLeadership" ELSE handler[q]
  BY <1>1 DEF Takes
<1>7. IsQueued(queue[1]) /\ queue[1] # Nobody
  BY <1>1, <1>2, CommandAssumption DEF IsQueued
<1>8. OnePlace'
  <2>1. (\A q \in Process : handler[q] = "idle" <=> delivery[q] = Nobody)'
    BY <1>5, <1>6, <1>7 DEF DInv, OnePlace
  <2>2. (\A i, j \in 1..Len(queue) : queue[i] = queue[j] => i = j)'
    <3> SUFFICES ASSUME NEW i \in 1..Len(queue'), NEW j \in 1..Len(queue'),
                        queue'[i] = queue'[j]
                 PROVE  i = j
      OBVIOUS
    <3>1. i + 1 \in 1..Len(queue) /\ j + 1 \in 1..Len(queue)
      BY <1>1, <1>2
    <3>2. i + 1 = j + 1
      BY <1>2, <3>1 DEF DInv, OnePlace
    <3>3. QED
      BY <1>1, <1>2, <3>2
  <2>3. (\A q \in Process : delivery[q] # Nobody => ~IsQueued(delivery[q]))'
    BY <1>4, <1>5 DEF DInv, OnePlace
  <2>4. (\A q, r \in Process : delivery[q] = delivery[r] /\ delivery[q] # Nobody => q = r)'
    BY <1>5, <1>7 DEF DInv, OnePlace
  <2>5. (\A c \in Command : request[c] \in {"none", "saved"} =>
           /\ ~IsQueued(c) /\ ~IsLogged(c)
           /\ \A q \in Process : delivery[q] # c)'
    BY <1>4, <1>5, <1>7 DEF DInv, OnePlace, Takes, IsLogged
  <2>6. QED
    BY <2>1, <2>2, <2>3, <2>4, <2>5 DEF OnePlace
<1>9. FoundMissing' /\ LoggedOnce'
  BY <1>5, <1>6 DEF DInv, FoundMissing, LoggedOnce, Takes, IsLogged
<1>10. QED
  BY <1>3, <1>8, <1>9 DEF DInv

LEMMA GoesOnKeeps == ASSUME DInv, NEW p \in Process, GoesOn(p) PROVE DInv'
<1>1. PICK s \in HandlerStep \ {"idle"} : handler' = [handler EXCEPT ![p] = s]
  BY DEF GoesOn
<1>2. DeliveryShape'
  BY <1>1 DEF DInv, DeliveryShape, GoesOn
<1>3. \A q \in Process : handler'[q] = IF q = p THEN s ELSE handler[q]
  BY <1>1 DEF DInv, DeliveryShape
<1>4. OnePlace'
  BY <1>3 DEF DInv, OnePlace, GoesOn, IsQueued, IsLogged
<1>5. FoundMissing' /\ LoggedOnce'
  BY <1>3 DEF DInv, FoundMissing, LoggedOnce, GoesOn, IsLogged
<1>6. QED
  BY <1>2, <1>4, <1>5 DEF DInv

LEMMA LogsKeeps == ASSUME DInv, NEW p \in Process, Logs(p) PROVE DInv'
<1>1. PICK s \in HandlerStep \ {"idle", "checkAfterExecution", "appendCommand"} :
        handler' = [handler EXCEPT ![p] = s]
  BY DEF Logs
<1>2. \A q \in Process : handler'[q] = IF q = p THEN s ELSE handler[q]
  BY <1>1 DEF DInv, DeliveryShape
<1>3. delivery[p] \in Command /\ delivery[p] # Nobody /\ ~IsLogged(delivery[p])
  BY DEF DInv, DeliveryShape, OnePlace, FoundMissing, Logs
<1>4. /\ log \in Seq(Command) /\ Len(log) \in Nat
      /\ log' \in Seq(Command) /\ Len(log') = Len(log) + 1
      /\ log'[Len(log) + 1] = delivery[p] /\ \A i \in 1..Len(log) : log'[i] = log[i]
  BY <1>3, LenProperties, AppendProperties DEF DInv, DeliveryShape, Logs
<1>5. \A c : IsLogged(c)' <=> IsLogged(c) \/ c = delivery[p]
  BY <1>4 DEF IsLogged
<1>6. DeliveryShape'
  BY <1>1, <1>4 DEF DInv, DeliveryShape, Logs
<1>7. OnePlace'
  BY <1>2, <1>5 DEF DInv, OnePlace, Logs, IsQueued
<1>8. FoundMissing'
  BY <1>2, <1>3, <1>5 DEF DInv, OnePlace, FoundMissing, Logs
<1>9. LoggedOnce'
  <2> SUFFICES ASSUME NEW i \in 1..Len(log) + 1, NEW j \in 1..Len(log) + 1,
                      log'[i] = log'[j]
               PROVE  i = j
    BY <1>4 DEF LoggedOnce
  <2>1. CASE i \in 1..Len(log) /\ j \in 1..Len(log)
    BY <1>4, <2>1 DEF DInv, LoggedOnce
  <2>2. CASE i = Len(log) + 1 \/ j = Len(log) + 1
    BY <1>3, <1>4, <2>2 DEF IsLogged
  <2>3. QED
    BY <1>4, <2>1, <2>2
<1>10. QED
  BY <1>6, <1>7, <1>8, <1>9 DEF DInv

LEMMA DropsKeeps == ASSUME DInv, NEW p \in Process, Drops(p) PROVE DInv'
<1>1. /\ queue \in Seq(Command) /\ Len(queue) \in Nat
      /\ delivery \in [Process -> Command \cup {Nobody}]
      /\ handler \in [Process -> HandlerStep]
  BY LenProperties DEF DInv, DeliveryShape
<1>2. \A q \in Process : delivery'[q] = IF q = p THEN Nobody ELSE delivery[q]
  BY <1>1 DEF Drops, Settle, Requeue
<1>3. \A q \in Process : handler'[q] = IF q = p THEN "idle" ELSE handler[q]
  BY <1>1 DEF Drops, GoTo
<1>4. FoundMissing' /\ LoggedOnce'
  BY <1>2, <1>3 DEF DInv, FoundMissing, LoggedOnce, Drops, IsLogged
<1>5. CASE Settle(p) /\ UNCHANGED queue
  <2>1. DeliveryShape'
    BY <1>1, <1>5 DEF DInv, DeliveryShape, Drops, GoTo, Settle, HandlerStep
  <2>2. OnePlace'
    BY <1>2, <1>3, <1>5, CommandAssumption DEF DInv, OnePlace, Drops, IsQueued, IsLogged
  <2>3. QED
    BY <1>4, <2>1, <2>2 DEF DInv
<1>6. CASE delivery[p] # Nobody /\ Requeue(p)
  <2> DEFINE c == delivery[p]
  <2>1. c \in Command /\ ~IsQueued(c)
    BY <1>1, <1>6 DEF DInv, OnePlace
  <2>2. /\ queue' \in Seq(Command) /\ Len(queue') = Len(queue) + 1
        /\ queue'[1] = c /\ \A i \in 1..Len(queue) : queue'[i + 1] = queue[i]
    BY <1>1, <1>6, <2>1, ConcatProperties DEF Requeue
  <2>3. DeliveryShape'
    BY <1>1, <1>6, <2>2 DEF DInv, DeliveryShape, Drops, GoTo, Requeue, Settle, HandlerStep
  <2>4. \A i \in 1..Len(queue') : i = 1 \/ (i - 1 \in 1..Len(queue) /\ queue'[i] = queue[i - 1])
    BY <1>1, <2>2
  <2>5. \A d : IsQueued(d)' => IsQueued(d) \/ d = c
    BY <2>2, <2>4 DEF IsQueued
  <2>6. (\A i, j \in 1..Len(queue) : queue[i] = queue[j] => i = j)'
    <3> SUFFICES ASSUME NEW i \in 1..Len(queue'), NEW j \in 1..Len(queue'),
                        queue'[i] = queue'[j]
                 PROVE  i = j
      OBVIOUS
    <3>1. CASE i # 1 /\ j # 1
      <4>1. i - 1 = j - 1
        BY <2>4, <3>1 DEF DInv, OnePlace
      <4>2. QED
        BY <1>1, <2>2, <4>1
    <3>2. CASE i = 1 \/ j = 1
      BY <2>1, <2>2, <2>4, <3>2 DEF IsQueued
    <3>3. QED
      BY <3>1, <3>2
  <2>7. (\A q \in Process : delivery[q] # Nobody => ~IsQueued(delivery[q]))'
    BY <1>2, <1>6, <2>5 DEF DInv, OnePlace
  <2>8. (\A d \in Command : request[d] \in {"none", "saved"} =>
           /\ ~IsQueued(d) /\ ~IsLogged(d)
           /\ \A q \in Process : delivery[q] # d)'
    BY <1>2, <2>5, CommandAssumption DEF DInv, OnePlace, Drops, IsLogged
  <2>9. (\A q \in Process : handler[q] = "idle" <=> delivery[q] = Nobody)'
    BY <1>2, <1>3 DEF DInv, OnePlace
  <2>10. (\A q, r \in Process : delivery[q] = delivery[r] /\ delivery[q] # Nobody => q = r)'
    BY <1>2 DEF DInv, OnePlace
  <2>11. QED
    BY <1>4, <2>3, <2>6, <2>7, <2>8, <2>9, <2>10 DEF DInv, OnePlace
<1>7. QED
  BY <1>5, <1>6 DEF Drops

LEMMA KindKeeps == ASSUME DInv, Kind PROVE DInv'
BY ApartKeeps, EnqueuesKeeps, TakesKeeps, GoesOnKeeps, LogsKeeps, DropsKeeps DEF Kind

LEMMA InitIsOnce == Init => DInv
BY CommandAssumption
   DEF Init, DInv, DeliveryShape, OnePlace, FoundMissing, LoggedOnce, IsQueued, IsLogged,
       HandlerStep

-----------------------------------------------------------------------------
(* Every operation of CommandWorker is of one of these kinds *)

LEMMA ApiKind == ASSUME Api PROVE Kind
<1> PICK c \in Command : SaveQueued(c) \/ Publish(c) \/ PublishFails(c)
  BY DEF Api
<1>1. CASE Publish(c)
  <2>1. Enqueues(c)
    BY <1>1 DEF Publish, Enqueues, storeVars, processVars
  <2>2. QED
    BY <2>1 DEF Kind
<1>2. CASE SaveQueued(c) \/ PublishFails(c)
  <2>1. UNCHANGED <<queue, log, delivery, handler>>
    BY <1>2 DEF SaveQueued, PublishFails, brokerVars, storeVars, processVars
  <2>2. /\ request[c] \in {"none", "saved"}
        /\ \E r \in {"saved", "failed"} : request' = [request EXCEPT ![c] = r]
    BY <1>2 DEF SaveQueued, PublishFails
  <2>3. QED
    BY <2>1, <2>2 DEF Apart, Kind
<1>3. QED
  BY <1>1, <1>2

LEMMA DeliverKind == ASSUME NEW p \in Process, Deliver(p) PROVE Kind
<1>1. Takes(p)
  BY DEF Deliver, Takes, apiVars, storeVars
<1>2. QED
  BY <1>1 DEF Kind

\* The handler's steps between two awaits.
LEMMA StoreStepKind == ASSUME DInv, NEW p \in Process, StoreStep(p) PROVE Kind
<1>1. handler \in [Process -> HandlerStep]
  BY DEF DInv, DeliveryShape
<1>2. CASE AppendCommand(p)
  <2>1. Logs(p)
    BY <1>2 DEF AppendCommand, CallReturns, Following, At, GoTo, Logs, HandlerStep, apiVars,
                brokerVars
  <2>2. QED
    BY <2>1 DEF Kind
<1>3. CASE Execute(p)
  <2>1. ~IsLogged(delivery[p])
    BY <1>3 DEF Execute, IsProcessed, ToSet, IsLogged
  <2>2. GoesOn(p)
    BY <1>3, <2>1 DEF Execute, At, GoTo, GoesOn, HandlerStep, apiVars, brokerVars, storeVars
  <2>3. QED
    BY <2>2 DEF Kind
<1>4. CASE StillLeads(p)
  <2>1. handler[p] = "checkAfterExecution" /\ ~IsLogged(delivery[p])
    BY <1>4 DEF StillLeads, At, DInv, FoundMissing
  <2>2. GoesOn(p)
    BY <1>4, <2>1 DEF StillLeads, Following, At, GoTo, GoesOn, HandlerStep, apiVars, brokerVars,
                      storeVars
  <2>3. QED
    BY <2>2 DEF Kind
<1>5. CASE \/ Accept(p) \/ SkipProcessed(p) \/ AppendEvents(p) \/ SaveReadModel(p)
           \/ SaveSnapshot(p) \/ SaveProcessed(p) \/ SaveSkipped(p) \/ SaveRejected(p)
  <2>1. UNCHANGED <<request, queue, log, delivery>>
    BY <1>5 DEF Accept, SkipProcessed, AppendEvents, SaveReadModel, SaveSnapshot, SaveProcessed,
                SaveSkipped, SaveRejected, apiVars, brokerVars, storeVars
  <2>2. /\ handler[p] # "idle"
        /\ \E s \in HandlerStep \ {"idle", "checkAfterExecution", "appendCommand"} :
             handler' = [handler EXCEPT ![p] = s]
    BY <1>5 DEF Accept, SkipProcessed, AppendEvents, SaveReadModel, SaveSnapshot, SaveProcessed,
                SaveSkipped, SaveRejected, CallReturns, Following, AfterRejection, At, GoTo,
                HandlerStep
  <2>3. GoesOn(p)
    BY <1>1, <2>1, <2>2 DEF GoesOn
  <2>4. QED
    BY <2>3 DEF Kind
<1>6. QED
  BY <1>2, <1>3, <1>4, <1>5 DEF StoreStep

\* The catch block is next.
LEMMA FailureKind ==
  ASSUME DInv, NEW p \in Process, handler[p] \in Fallible,
         GoTo(p, "reject") \/ GoTo(p, "ack"),
         UNCHANGED <<request, queue, log, delivery>>
  PROVE  Kind
<1>1. handler[p] # "idle"
  BY DEF Fallible, Following
<1>2. GoesOn(p)
  BY <1>1 DEF GoesOn, GoTo, HandlerStep, DInv, DeliveryShape
<1>3. QED
  BY <1>2 DEF Kind

\* The end of a delivery, by whatever decides on it.
LEMMA EndKind ==
  ASSUME DInv, NEW p \in Process,
         \/ RefuseForeign(p) \/ Acknowledge(p) \/ RejectFails(p)
         \/ HandBack(p) \/ AcknowledgeLast(p) \/ LoseMemory(p)
  PROVE  Kind
<1>1. handler[p] = "idle" <=> delivery[p] = Nobody
  BY DEF DInv, OnePlace
<1>2. Drops(p)
  <2>1. CASE RefuseForeign(p) \/ RejectFails(p)
    BY <2>1 DEF RefuseForeign, RejectFails, DeadLetter, Drops, apiVars, storeVars
  <2>2. CASE Acknowledge(p) \/ AcknowledgeLast(p)
    BY <2>2 DEF Acknowledge, AcknowledgeLast, EndDelivery, Drops, apiVars, storeVars
  <2>3. CASE HandBack(p)
    BY <1>1, <2>3 DEF HandBack, NackAndRequeue, At, Drops, apiVars, storeVars
  <2>4. CASE LoseMemory(p) /\ delivery[p] = Nobody
    <3>1. Settle(p)
      BY <2>4 DEF LoseMemory, Settle, DInv, DeliveryShape
    <3>2. QED
      BY <2>4, <3>1 DEF LoseMemory, Drops, apiVars, storeVars
  <2>5. CASE LoseMemory(p) /\ delivery[p] # Nobody
    BY <2>5 DEF LoseMemory, Drops, apiVars, storeVars
  <2>6. QED
    BY <2>1, <2>2, <2>3, <2>4, <2>5
<1>3. QED
  BY <1>2 DEF Kind

LEMMA CallFailsKind == ASSUME DInv, NEW p \in Process, CallFails(p) PROVE Kind
BY FailureKind DEF CallFails, apiVars, brokerVars, storeVars

\* What leaves the messages, the log and the handlers alone.
LEMMA QuietKind == ASSUME UNCHANGED <<request, queue, log, delivery, handler>> PROVE Kind
BY DEF Kind, Apart

-----------------------------------------------------------------------------
\* A command is applied once however often it is delivered (isCommandProcessed,
\* appendProcessedCommand), with processes that take turns.
THEOREM TurnsLogOnce == Spec => []LoggedOnce
<1>1. DInv /\ [Next]_vars => DInv'
  <2> SUFFICES ASSUME DInv, [Next]_vars PROVE Kind
    BY KindKeeps
  <2>1. ASSUME NEW p \in Process, HandlerNext(p) PROVE Kind
    BY <2>1, StoreStepKind, EndKind
       DEF HandlerNext, QuietStep, ReportingStep, GiveBack, AcknowledgeAndReport
  <2>2. ASSUME NEW p \in Process, Crash(p) \/ RejectFails(p) PROVE Kind
    BY <2>2, EndKind DEF Crash, LoseProcess
  <2>3. ASSUME NEW p \in Process, Start(p) PROVE Kind
    BY <2>3, QuietKind DEF Start, apiVars, brokerVars, storeVars
  <2>4. CASE UNCHANGED vars
    BY <2>4, QuietKind DEF vars, apiVars, brokerVars, storeVars, processVars
  <2>5. QED
    BY <2>1, <2>2, <2>3, <2>4, ApiKind, DeliverKind, CallFailsKind DEF Next
<1>2. QED
  BY <1>1, InitIsOnce, PTL DEF Spec, DInv

-----------------------------------------------------------------------------
(* The replay of commands that do not throw *)

\* Induction over the natural numbers, stated for a set.
LEMMA SetInduction ==
  ASSUME NEW T \in SUBSET Nat, 0 \in T, \A n \in T : n + 1 \in T
  PROVE  T = Nat
<1> SUFFICES ASSUME T # Nat PROVE FALSE
  OBVIOUS
<1> DEFINE R == WellFounded!OpToRel(<, Nat)
<1>1. Nat \ T \subseteq Nat /\ Nat \ T # {}
  OBVIOUS
<1>2. WellFounded!IsWellFoundedOn(R, Nat)
  BY WellFounded!NatLessThanWellFounded
<1>3. \A m, n \in Nat : m < n => <<m, n>> \in R
  BY DEF WellFounded!OpToRel
<1> HIDE DEF R
<1>4. PICK n \in Nat \ T : \A m \in Nat \ T : <<m, n>> \notin R
  BY <1>1, <1>2, WellFounded!WFMin
<1>5. n # 0 /\ n - 1 \in Nat /\ n - 1 < n /\ (n - 1) + 1 = n
  OBVIOUS
<1>6. n - 1 \in Nat \ T
  BY <1>5
<1>7. QED
  BY <1>3, <1>4, <1>5, <1>6

\* What an induction over the commands shows of the recursive definition of ApplyAll:
\* the book that holds the old commands and then the new ones solves its equation, and
\* whatever solves it agrees with that book at every length.
LEMMA ApplyAllAppends ==
  ASSUME NEW old \in Seq(Command), NEW commands \in Seq(Command \ Refused)
  PROVE  ApplyAll(old, commands) = old \o commands
<1> DEFINE N == Len(commands)
           g == [n \in 0..N |-> old \o SubSeq(commands, 1, n)]
           Def(h) == h = [n \in 0..N |-> IF n = 0 THEN old ELSE Apply(h[n - 1], commands[n])]
           f == CHOOSE h : Def(h)
<1>0. N \in Nat /\ commands \in Seq(Command) /\ \A i \in 1..N : commands[i] \in Command \ Refused
  BY LenProperties, SeqMonotonic
<1>1. Def(g)
  <2>1. SubSeq(commands, 1, 0) = <<>>
    BY SubSeqEmpty
  <2>2. g[0] = old
    BY <2>1, <1>0, ConcatEmptySeq
  <2>3. ASSUME NEW n \in 1..N
        PROVE  g[n] = Apply(g[n - 1], commands[n])
    <3>1. n \in 1..Len(commands) /\ 1 \in 1..Len(commands) /\ n - 1 \in 0..N /\ n \in 0..N /\ n \in 1..Len(commands)
      BY <1>0
    <3>2. SubSeq(commands, 1, n) = SubSeq(commands, 1, n - 1) \o <<commands[n]>>
      BY <3>1, <1>0, SubSeqRecursiveSecond
    <3>3. SubSeq(commands, 1, n - 1) \in Seq(Command)
      BY <3>1, <1>0, SubSeqProperties
    <3>4. old \o SubSeq(commands, 1, n) = Append(old \o SubSeq(commands, 1, n - 1), commands[n])
      <4>1. commands[n] \in Command /\ <<commands[n]>> \in Seq(Command)
        BY <1>0
      <4>2. old \o SubSeq(commands, 1, n - 1) \in Seq(Command)
        BY <3>3, ConcatProperties
      <4>3. old \o (SubSeq(commands, 1, n - 1) \o <<commands[n]>>)
            = (old \o SubSeq(commands, 1, n - 1)) \o <<commands[n]>>
        BY <3>3, <4>1, ConcatAssociative
      <4>4. QED
        BY <3>2, <4>1, <4>2, <4>3, AppendIsConcat
    <3>5. QED
      BY <3>1, <3>4, <1>0 DEF Apply
  <2>4. g = [n \in 0..N |-> g[n]]
    OBVIOUS
  <2> HIDE DEF g
  <2>5. \A n \in 0..N : g[n] = IF n = 0 THEN old ELSE Apply(g[n - 1], commands[n])
    <3> TAKE n \in 0..N
    <3>1. n = 0 \/ n \in 1..N
      BY <1>0
    <3>2. QED
      BY <2>2, <2>3, <3>1, <1>0
  <2>6. [n \in 0..N |-> g[n]]
        = [n \in 0..N |-> IF n = 0 THEN old ELSE Apply(g[n - 1], commands[n])]
    BY <2>5, Zenon
  <2>7. QED
    BY <2>4, <2>6
<1>2. Def(f)
  <2> HIDE DEF g
  <2> QED BY <1>1, Zenon
<1>3. ApplyAll(old, commands) = f[N]
  BY DEF ApplyAll
<1> HIDE DEF f
<1>4. \A n \in Nat : n <= N => f[n] = g[n]
  <2> DEFINE T == {n \in Nat : n <= N => f[n] = g[n]}
  <2>1. 0 \in T
    BY <1>0, <1>1, <1>2
  <2>2. \A n \in T : n + 1 \in T
    <3> SUFFICES ASSUME NEW n \in Nat, n <= N => f[n] = g[n], n + 1 <= N
                 PROVE  f[n + 1] = g[n + 1]
      <4> HIDE DEF f, g
      <4> QED OBVIOUS
    <3>1. n + 1 \in 0..N /\ n + 1 # 0 /\ (n + 1) - 1 = n /\ f[n] = g[n]
      BY <1>0
    <3>2. f[n + 1] = Apply(f[n], commands[n + 1])
      BY <3>1, <1>2
    <3>3. g[n + 1] = Apply(g[n], commands[n + 1])
      BY <3>1, <1>1
    <3>4. QED
      BY <3>1, <3>2, <3>3
  <2>3. T \in SUBSET Nat
    OBVIOUS
  <2> HIDE DEF T
  <2>4. T = Nat
    BY <2>1, <2>2, <2>3, SetInduction
  <2>5. QED
    BY <2>4 DEF T
<1>5. g[N] = old \o commands
  BY <1>0, SubSeqFull
<1>6. QED
  BY <1>0, <1>3, <1>4, <1>5

\* A book has the command in it.
Holds(b, c) == \E i \in 1..Len(b) : b[i] = c

LEMMA AppendHolds ==
  ASSUME NEW S, NEW b \in Seq(S), NEW c \in S
  PROVE  /\ Append(b, c) \in Seq(S)
         /\ Holds(Append(b, c), c)
         /\ \A d : Holds(b, d) => Holds(Append(b, c), d)
<1>1. /\ Append(b, c) \in Seq(S) /\ Len(b) \in Nat /\ Len(Append(b, c)) = Len(b) + 1
      /\ \A i \in 1..Len(b) : Append(b, c)[i] = b[i]
      /\ Append(b, c)[Len(b) + 1] = c
  BY LenProperties, AppendProperties
<1> DEFINE new == Append(b, c)
<1> HIDE DEF new
<1>2. Len(b) + 1 \in 1..Len(new) /\ \A i \in 1..Len(b) : i \in 1..Len(new)
  BY <1>1 DEF new
<1>3. QED
  BY <1>1, <1>2 DEF Holds, new

\* What was the beginning of a sequence is the beginning of a longer one.
LEMMA PrefixOfAppend ==
  ASSUME NEW S, NEW s \in Seq(S), NEW e \in S, NEW n \in 0..Len(s)
  PROVE  SubSeq(Append(s, e), 1, n) = SubSeq(s, 1, n)
<1>1. Len(s) \in Nat /\ n \in Int
  BY LenProperties
<1>2. CASE n = 0
  BY <1>2, SubSeqEmpty
<1>3. CASE n # 0
  <2>1. <<e>> \in Seq(S) /\ Append(s, e) = s \o <<e>>
    BY AppendIsConcat
  <2>2. 1 \in 1..Len(s) /\ n \in 1..Len(s)
    BY <1>1, <1>3
  <2>3. QED
    BY <2>1, <2>2, SubSeqOfConcat1
<1>4. QED
  BY <1>2, <1>3

\* The beginning of a sequence that is longer by one.
LEMMA PrefixGrows ==
  ASSUME NEW S, NEW s \in Seq(S), NEW n \in 0..Len(s), n < Len(s)
  PROVE  SubSeq(s, 1, n + 1) = Append(SubSeq(s, 1, n), s[n + 1])
<1>1. Len(s) \in Nat /\ n \in Nat /\ 1 \in 1..Len(s) /\ n + 1 \in 1..Len(s) /\ n + 1 - 1 = n
  BY LenProperties
<1>2. SubSeq(s, 1, n + 1) = SubSeq(s, 1, n) \o <<s[n + 1]>>
  BY <1>1, SubSeqRecursiveSecond
<1>3. SubSeq(s, 1, n) \in Seq(S) /\ s[n + 1] \in S
  BY <1>1, ElementOfSeq, SubSeqProperties
<1>4. QED
  BY <1>2, <1>3, AppendIsConcat

\* A replay of the rest of a log in which no command throws: it keeps what the book
\* holds, adds every command of the rest, and turns a beginning of the log into all of it.
LEMMA ReplayReaches ==
  ASSUME NEW commands \in Seq(Command), NEW old \in Seq(Command), NEW k \in 0..Len(commands),
         \A i \in 1..Len(commands) : commands[i] \notin Refused
  PROVE  LET new == ApplyAll(old, SubSeq(commands, k + 1, Len(commands))) IN
         /\ new \in Seq(Command)
         /\ \A c : Holds(old, c) => Holds(new, c)
         /\ \A i \in k + 1..Len(commands) : Holds(new, commands[i])
         /\ old = SubSeq(commands, 1, k) => new = commands
<1> DEFINE N == Len(commands)
           rest == SubSeq(commands, k + 1, N)
           new == old \o rest
<1>1. N \in Nat /\ k \in 0..N /\ k + 1 \in Int
  BY LenProperties
<1>2. /\ rest \in Seq(Command \ Refused) /\ rest \in Seq(Command)
      /\ Len(rest) = N - k
      /\ \A i \in 1..N - k : rest[i] = commands[k + i]
  <2>1. \A i \in k + 1..N : commands[i] \in Command \ Refused /\ commands[i] \in Command
    BY <1>1, ElementOfSeq
  <2>2. /\ rest \in Seq(Command \ Refused) /\ rest \in Seq(Command)
        /\ Len(rest) = (IF k + 1 <= N THEN N - (k + 1) + 1 ELSE 0)
        /\ \A i \in 1..N - (k + 1) + 1 : rest[i] = commands[k + 1 + i - 1]
    BY <1>1, <2>1, SubSeqProperties
  <2> HIDE DEF N, rest
  <2>3. Len(rest) = N - k
    BY <1>1, <2>2
  <2>4. \A i \in 1..N - k : k + 1 + i - 1 = k + i /\ i \in 1..N - (k + 1) + 1
    BY <1>1
  <2>5. QED
    BY <2>2, <2>3, <2>4
<1>3. ApplyAll(old, rest) = new
  BY <1>2, ApplyAllAppends
<1>4. /\ new \in Seq(Command) /\ Len(old) \in Nat /\ Len(new) = Len(old) + Len(rest)
      /\ \A i \in 1..Len(new) : new[i] = IF i <= Len(old) THEN old[i] ELSE rest[i - Len(old)]
  <2> HIDE DEF N, rest
  <2>1. /\ new \in Seq(Command) /\ Len(new) = Len(old) + Len(rest)
        /\ \A i \in 1..Len(old) + Len(rest) :
             new[i] = IF i <= Len(old) THEN old[i] ELSE rest[i - Len(old)]
    BY <1>2, ConcatProperties
  <2>2. Len(old) \in Nat
    BY LenProperties
  <2>3. QED
    BY <2>1, <2>2
<1>5. ASSUME old = SubSeq(commands, 1, k) PROVE new = commands
  <2>1. 1 \in 1..N + 1 /\ k \in 1 - 1..N /\ N \in k..N
    BY <1>1
  <2>2. new = SubSeq(commands, 1, N)
    BY <1>5, <2>1, ConcatAdjacentSubSeq
  <2>3. QED
    BY <2>2, SubSeqFull
<1> HIDE DEF N, rest, new
<1>6. ASSUME NEW c, Holds(old, c) PROVE Holds(new, c)
  <2>1. PICK i \in 1..Len(old) : old[i] = c
    BY <1>6 DEF Holds
  <2>2. i \in 1..Len(new) /\ new[i] = c
    BY <1>1, <1>2, <1>4, <2>1
  <2>3. QED
    BY <2>2 DEF Holds
<1>7. ASSUME NEW i \in k + 1..N PROVE Holds(new, commands[i])
  <2> DEFINE j == Len(old) + (i - k)
  <2>1. /\ i - k \in 1..N - k /\ k + (i - k) = i /\ j \in 1..Len(new)
        /\ ~(j <= Len(old)) /\ j - Len(old) = i - k
    BY <1>1, <1>2, <1>4
  <2>2. new[j] = commands[i]
    BY <1>2, <1>4, <2>1
  <2>3. QED
    BY <2>1, <2>2 DEF Holds
<1>8. QED
  BY <1>3, <1>4, <1>5, <1>6, <1>7 DEF N, rest, new

-----------------------------------------------------------------------------
(* The types of what CommandWorkerProofs does not need *)

RestTypes ==
  /\ dlq \subseteq Command /\ readModel \in Seq(Command)
  /\ snapshot \in [book : Seq(Command), id : 0..Len(log)]
  /\ leader \in Process \cup {Nobody}
  /\ book \in [Process -> Seq(Command)]
  /\ held \in [Process -> Seq(Command) \cup {Nobody}]
  /\ entry \in [Process -> 0..Len(log)]
  /\ crashes \in 0..MaxCrashes /\ failures \in 0..MaxFailures /\ doubts \in 0..MaxDoubts

\* A call returns or fails.
LEMMA CallTypes ==
  ASSUME failures \in 0..MaxFailures, NEW p, NEW step, CallReturns(p, step)
  PROVE  failures' \in 0..MaxFailures
BY BoundsAssumption DEF CallReturns

\* The handler's calls to the stores.
LEMMA HandlerTypes ==
  ASSUME log \in Seq(Command), RestTypes, NEW p \in Process, delivery[p] \in Command,
         StoreStep(p)
  PROVE  RestTypes'
<1>1. Len(log) \in Nat
  BY LenProperties
<1>2. HeldBook(p) \in Seq(Command)
  BY DEF RestTypes, HeldBook
<1>3. CASE Accept(p) \/ SkipProcessed(p) \/ StillLeads(p) \/ SaveSkipped(p) \/ SaveRejected(p)
  BY <1>3 DEF Accept, SkipProcessed, StillLeads, SaveSkipped, SaveRejected, RestTypes,
              brokerVars, storeVars, faultVars
<1>4. CASE Execute(p)
  <2>1. Apply(book[p], delivery[p]) \in Seq(Command)
    BY AppendProperties DEF Apply, RestTypes
  <2>2. QED
    BY <1>4, <2>1 DEF Execute, RestTypes, brokerVars, storeVars, faultVars
<1>5. CASE AppendCommand(p)
  <2>1. /\ Len(log') = Len(log) + 1 /\ entry' = [entry EXCEPT ![p] = Len(log) + 1]
        /\ failures' \in 0..MaxFailures
    BY <1>1, <1>5, CallTypes, AppendProperties DEF AppendCommand, NewEntry, RestTypes
  <2>2. 0..Len(log) \subseteq 0..Len(log') /\ Len(log) + 1 \in 0..Len(log')
    BY <1>1, <2>1
  <2>3. entry' \in [Process -> 0..Len(log')]
    BY <2>1, <2>2 DEF RestTypes
  <2>4. snapshot \in [book : Seq(Command), id : 0..Len(log')]
    BY <2>2 DEF RestTypes
  <2>5. QED
    BY <1>5, <2>1, <2>3, <2>4 DEF AppendCommand, RestTypes, brokerVars
<1>6. CASE AppendEvents(p) \/ SaveReadModel(p) \/ SaveSnapshot(p) \/ SaveProcessed(p)
  <2>1. failures' \in 0..MaxFailures
    BY <1>6, CallTypes DEF AppendEvents, SaveReadModel, SaveSnapshot, SaveProcessed, RestTypes
  <2>2. [book |-> HeldBook(p), id |-> entry[p]] \in [book : Seq(Command), id : 0..Len(log)]
    BY <1>2 DEF RestTypes
  <2>3. readModel' \in Seq(Command) /\ snapshot' \in [book : Seq(Command), id : 0..Len(log)]
    BY <1>2, <1>6, <2>2 DEF AppendEvents, SaveReadModel, SaveSnapshot, SaveProcessed, RestTypes
  <2>4. UNCHANGED <<dlq, log, leader, book, held, entry, crashes, doubts>>
    BY <1>6 DEF AppendEvents, SaveReadModel, SaveSnapshot, SaveProcessed, brokerVars
  <2>5. QED
    BY <2>1, <2>3, <2>4 DEF RestTypes
<1>7. QED
  BY <1>3, <1>4, <1>5, <1>6 DEF StoreStep

\* A step that leaves the log, the checkpoint and the handlers' entries alone.
LEMMA StillLogTypes ==
  ASSUME RestTypes,
         UNCHANGED <<log, readModel, snapshot, entry>>,
         crashes' = crashes \/ (crashes < MaxCrashes /\ crashes' = crashes + 1),
         failures' = failures \/ (failures < MaxFailures /\ failures' = failures + 1),
         doubts' = doubts \/ (doubts < MaxDoubts /\ doubts' = doubts + 1),
         leader' \in Process \cup {leader, Nobody},
         book' = book \/ \E p \in Process, b \in Seq(Command) : book' = [book EXCEPT ![p] = b],
         held' = held \/ \E p \in Process : held' = [held EXCEPT ![p] = Nobody],
         dlq' = dlq \/ \E p \in Process : delivery[p] \in Command /\ dlq' = dlq \cup {delivery[p]}
  PROVE  RestTypes'
<1>1. crashes' \in 0..MaxCrashes /\ failures' \in 0..MaxFailures /\ doubts' \in 0..MaxDoubts
  <2>1. \A m \in Nat : \A k \in 0..m : k < m => k + 1 \in 0..m
    OBVIOUS
  <2>2. crashes \in 0..MaxCrashes /\ failures \in 0..MaxFailures /\ doubts \in 0..MaxDoubts
    BY DEF RestTypes
  <2>3. QED
    BY <2>1, <2>2, BoundsAssumption
<1>2. book' \in [Process -> Seq(Command)]
  BY DEF RestTypes
<1>3. held' \in [Process -> Seq(Command) \cup {Nobody}]
  BY DEF RestTypes
<1>4. dlq' \subseteq Command /\ leader' \in Process \cup {Nobody}
  BY DEF RestTypes
<1>5. QED
  BY <1>1, <1>2, <1>3, <1>4 DEF RestTypes

\* The API, a delivery, the end of one, a failing call, a crash.
LEMMA OtherTypes ==
  ASSUME RestTypes,
         \/ Api \/ UNCHANGED vars
         \/ \E p \in Process :
              \/ Deliver(p) \/ CallFails(p) \/ Acknowledge(p) \/ Crash(p)
              \/ ReportingStep(p) /\ StepDown(p)
              \/ (RefuseForeign(p) \/ RejectFails(p)) /\ delivery[p] \in Command
  PROVE  RestTypes'
<1>1. UNCHANGED <<log, readModel, snapshot, entry>>
  BY DEF Api, SaveQueued, Publish, PublishFails, Deliver, CallFails, Acknowledge, EndDelivery,
         Crash, LoseProcess, LoseMemory, ReportingStep, GiveBack, HandBack,
         AcknowledgeAndReport, AcknowledgeLast, RefuseForeign, RejectFails, vars, storeVars,
         processVars
<1>2. /\ crashes' = crashes \/ (crashes < MaxCrashes /\ crashes' = crashes + 1)
      /\ failures' = failures \/ (failures < MaxFailures /\ failures' = failures + 1)
      /\ doubts' = doubts \/ (doubts < MaxDoubts /\ doubts' = doubts + 1)
  <2>1. CASE Api
    BY <2>1 DEF Api, SaveQueued, Publish, PublishFails, faultVars
  <2>2. CASE UNCHANGED vars
    BY <2>2 DEF vars, faultVars
  <2>3. ASSUME NEW p \in Process,
               Deliver(p) \/ CallFails(p) \/ Acknowledge(p) \/ RefuseForeign(p) \/ RejectFails(p)
        PROVE  /\ UNCHANGED <<crashes, doubts>>
               /\ failures' = failures \/ (failures < MaxFailures /\ failures' = failures + 1)
    BY <2>3 DEF Deliver, CallFails, Acknowledge, EndDelivery, RefuseForeign, RejectFails,
                faultVars
  <2>4. ASSUME NEW p \in Process, ReportingStep(p)
        PROVE  /\ UNCHANGED <<crashes, failures>>
               /\ doubts' = doubts \/ (doubts < MaxDoubts /\ doubts' = doubts + 1)
    BY <2>4 DEF ReportingStep, GiveBack, HandBack, CheckSaysNo, AcknowledgeAndReport,
                AcknowledgeLast, EndDelivery
  <2>5. ASSUME NEW p \in Process, Crash(p)
        PROVE  crashes < MaxCrashes /\ crashes' = crashes + 1 /\ UNCHANGED <<failures, doubts>>
    BY <2>5 DEF Crash, LoseProcess, LoseMemory
  <2>6. QED
    BY <2>1, <2>2, <2>3, <2>4, <2>5
<1>3. leader' = leader \/ leader' = Nobody
  BY DEF Api, SaveQueued, Publish, PublishFails, Deliver, CallFails, Acknowledge, EndDelivery,
         Crash, LoseProcess, LoseMemory, ReportingStep, GiveBack, HandBack, StepDown,
         AcknowledgeAndReport, AcknowledgeLast, RefuseForeign, RejectFails, vars,
         processVars
<1>4. book' = book \/ \E p \in Process : book' = [book EXCEPT ![p] = <<>>]
  BY DEF Api, SaveQueued, Publish, PublishFails, Deliver, CallFails, Acknowledge, EndDelivery,
         Crash, LoseProcess, LoseMemory, ReportingStep, GiveBack, HandBack, StepDown,
         AcknowledgeAndReport, AcknowledgeLast, RefuseForeign, RejectFails, vars,
         processVars
<1>5. held' = held \/ \E p \in Process : held' = [held EXCEPT ![p] = Nobody]
  BY DEF Api, SaveQueued, Publish, PublishFails, Deliver, CallFails, Acknowledge, EndDelivery,
         Crash, LoseProcess, LoseMemory, ReportingStep, GiveBack, HandBack, StepDown,
         AcknowledgeAndReport, AcknowledgeLast, RefuseForeign, RejectFails, vars,
         processVars
<1>6. dlq' = dlq \/ \E p \in Process : delivery[p] \in Command /\ dlq' = dlq \cup {delivery[p]}
  BY DEF Api, SaveQueued, Publish, PublishFails, Deliver, CallFails, Acknowledge, EndDelivery,
         Crash, LoseProcess, LoseMemory, ReportingStep, GiveBack, HandBack, StepDown,
         AcknowledgeAndReport, AcknowledgeLast, RefuseForeign, RejectFails, vars,
         brokerVars, DeadLetter
<1>7. <<>> \in Seq(Command)
  BY EmptySeq
<1>8. leader' \in Process \cup {leader, Nobody}
  BY <1>3
<1>9. book' = book \/ \E p \in Process, b \in Seq(Command) : book' = [book EXCEPT ![p] = b]
  BY <1>4, <1>7
<1>10. QED
  BY <1>1, <1>2, <1>5, <1>6, <1>8, <1>9, StillLogTypes

-----------------------------------------------------------------------------
(* The stores and the book *)

\* No call has failed, and no command changes the book before it throws.
Clean == failures = 0 /\ HalfApplied = {}

\* The snapshot has the log up to its checkpoint in it, and is nothing else as long as
\* all went well.
StoredBooks ==
  /\ \A i \in 1..snapshot.id : Holds(snapshot.book, log[i])
  /\ Clean => /\ snapshot.book = SubSeq(log, 1, snapshot.id)
              /\ \E n \in 0..Len(log) : readModel = SubSeq(log, 1, n)

\* The handler has executed its command and not logged it yet.
Executed == {"checkAfterExecution", "appendCommand"}

\* The handler has logged its command and not saved the books yet.
Logged == {"appendEvents", "saveReadModel", "saveSnapshot"}

\* The book of a process has the log in it and the command that is executed, and is
\* nothing else as long as all went well; the handler's entry is the last of the log.
BookSound(p) ==
  /\ \A i \in 1..Len(log) : Holds(book[p], log[i])
  /\ handler[p] \in Executed => Holds(book[p], delivery[p])
  /\ handler[p] \in Logged => entry[p] = Len(log)
  /\ Clean => book[p] = IF handler[p] \in Executed THEN Append(log, delivery[p]) ELSE log

\* The handler works on the book of the registry.
NoneHeld == \A p \in Process : held[p] = Nobody

ReplayInv ==
  /\ RestTypes
  /\ StoredBooks
  /\ NoneHeld
  /\ \A p \in Process : consuming[p] => BookSound(p)

\* The log grows: the stored books are beginnings of the new one too.
LEMMA StoredBooksOfLongerLog ==
  ASSUME log \in Seq(Command), RestTypes, StoredBooks, NEW c \in Command,
         log' = Append(log, c), UNCHANGED <<snapshot, readModel>>, Clean' => Clean
  PROVE  StoredBooks'
<1>1. /\ Len(log) \in Nat /\ Len(log') = Len(log) + 1 /\ snapshot.id \in 0..Len(log)
      /\ \A i \in 1..Len(log) : log'[i] = log[i]
  BY LenProperties, AppendProperties DEF RestTypes
<1>2. \A i \in 1..snapshot.id : i \in 1..Len(log)
  BY <1>1
<1>3. \A n \in 0..Len(log) : SubSeq(log', 1, n) = SubSeq(log, 1, n) /\ n \in 0..Len(log')
  BY <1>1, PrefixOfAppend
<1>4. \A i \in 1..snapshot.id : Holds(snapshot.book, log'[i])
  BY <1>1, <1>2 DEF StoredBooks
<1>5. ASSUME Clean'
      PROVE  /\ snapshot.book = SubSeq(log', 1, snapshot.id)
             /\ \E n \in 0..Len(log') : readModel = SubSeq(log', 1, n)
  BY <1>1, <1>3, <1>5 DEF StoredBooks
<1>6. QED
  BY <1>4, <1>5 DEF StoredBooks, Holds

\* The handler's calls to the stores, in a process whose book is sound.
LEMMA HandlerStores ==
  ASSUME log \in Seq(Command), handler \in [Process -> HandlerStep], failures \in Nat,
         RestTypes, StoredBooks, NoneHeld,
         NEW p \in Process, delivery[p] \in Command, BookSound(p), StoreStep(p)
  PROVE  StoredBooks' /\ NoneHeld' /\ BookSound(p)'
<1>1. /\ Len(log) \in Nat /\ book \in [Process -> Seq(Command)]
      /\ held \in [Process -> Seq(Command) \cup {Nobody}] /\ held[p] = Nobody
      /\ entry \in [Process -> 0..Len(log)]
  BY LenProperties DEF RestTypes, NoneHeld
<1>2. CASE Accept(p) \/ SkipProcessed(p) \/ SaveSkipped(p) \/ SaveRejected(p)
  <2>1. /\ UNCHANGED <<log, snapshot, readModel, book, held, failures>>
        /\ handler'[p] \notin Executed \cup Logged /\ handler[p] \notin Executed
    BY <1>2 DEF Accept, SkipProcessed, SaveSkipped, SaveRejected, AfterRejection, At, GoTo,
                Executed, Logged, HandlerStep, storeVars, faultVars
  <2>2. QED
    BY <2>1 DEF StoredBooks, NoneHeld, BookSound, Clean, Holds
<1>3. CASE StillLeads(p)
  <2>1. /\ UNCHANGED <<log, snapshot, readModel, book, held, failures, delivery>>
        /\ handler[p] \in Executed /\ handler'[p] \in Executed
    BY <1>3 DEF StillLeads, At, GoTo, Following, Executed, HandlerStep, brokerVars, storeVars,
                faultVars
  <2>2. handler'[p] \notin Logged
    BY <2>1 DEF Executed, Logged
  <2>3. QED
    BY <2>1, <2>2 DEF StoredBooks, NoneHeld, BookSound, Clean, Holds
<1>4. CASE Execute(p)
  <2>1. /\ UNCHANGED <<log, snapshot, readModel, failures, delivery>>
        /\ held' = [held EXCEPT ![p] = Nobody]
        /\ book'[p] = Apply(book[p], delivery[p])
        /\ handler'[p] = IF Throws(delivery[p]) THEN "reject" ELSE "checkAfterExecution"
        /\ handler[p] = "isCommandProcessed"
    BY <1>1, <1>4 DEF Execute, At, GoTo, brokerVars, storeVars, faultVars
  <2>2. handler[p] \notin Executed /\ handler'[p] \notin Logged
    BY <2>1 DEF Executed, Logged
  <2>3. StoredBooks' /\ NoneHeld'
    BY <1>1, <2>1 DEF StoredBooks, NoneHeld, Clean, Holds
  <2>4. \/ /\ delivery[p] \in Refused /\ book'[p] = book[p] /\ handler'[p] \notin Executed
        \/ /\ delivery[p] \notin Refused /\ book'[p] = Append(book[p], delivery[p])
           /\ ~Throws(delivery[p]) \/ HalfApplied # {}
           /\ ~Throws(delivery[p]) => handler'[p] \in Executed
    BY <2>1 DEF Apply, Throws, Executed
  <2>5. CASE delivery[p] \in Refused
    <3>1. book'[p] = book[p] /\ handler'[p] \notin Executed /\ (Clean' => Clean)
      BY <2>1, <2>4, <2>5 DEF Clean
    <3>2. QED
      BY <2>1, <2>2, <2>3, <3>1 DEF BookSound, Holds
  <2>6. CASE delivery[p] \notin Refused
    <3>1. /\ Holds(book'[p], delivery[p])
          /\ \A i \in 1..Len(log) : Holds(book'[p], log[i])
      <4>1. book[p] \in Seq(Command) /\ book'[p] = Append(book[p], delivery[p])
        BY <1>1, <2>4, <2>6
      <4>2. /\ Holds(book'[p], delivery[p])
            /\ \A d : Holds(book[p], d) => Holds(book'[p], d)
        BY <4>1, AppendHolds
      <4>3. QED
        BY <4>2 DEF BookSound
    <3>2. Clean' => Clean /\ handler'[p] \in Executed /\ book'[p] = Append(log, delivery[p])
      BY <2>1, <2>2, <2>4, <2>6 DEF BookSound, Clean
    <3>3. BookSound(p)' <=>
            /\ \A i \in 1..Len(log') : Holds(book'[p], log'[i])
            /\ handler'[p] \in Executed => Holds(book'[p], delivery'[p])
            /\ handler'[p] \in Logged => entry'[p] = Len(log')
            /\ Clean' => book'[p] = IF handler'[p] \in Executed
                                    THEN Append(log', delivery'[p]) ELSE log'
      BY DEF BookSound, Holds
    <3>4. QED
      BY <2>1, <2>2, <2>3, <3>1, <3>2, <3>3
  <2>7. QED
    BY <2>3, <2>5, <2>6
<1>5. CASE AppendCommand(p)
  <2>1. /\ handler[p] = "appendCommand" /\ log' = Append(log, delivery[p])
        /\ entry'[p] = Len(log) + 1
        /\ UNCHANGED <<snapshot, readModel, book, held, delivery>>
        /\ \/ handler'[p] = "appendEvents" /\ failures' = failures
           \/ handler'[p] = "reject" /\ failures' = failures + 1
    BY <1>1, <1>5 DEF AppendCommand, NewEntry, CallReturns, Following, At, GoTo, brokerVars
  <2>2. /\ Len(log') = Len(log) + 1 /\ log'[Len(log) + 1] = delivery[p]
        /\ \A i \in 1..Len(log) : log'[i] = log[i]
    BY <2>1, AppendProperties
  <2>3. Clean' => Clean
    BY <2>1 DEF Clean
  <2>4. StoredBooks' /\ NoneHeld'
    BY <2>1, <2>3, StoredBooksOfLongerLog DEF NoneHeld
  <2>5. handler[p] \in Executed /\ handler'[p] \notin Executed
    BY <2>1 DEF Executed
  <2>6. \A i \in 1..Len(log') : Holds(book[p], log'[i])
    <3> SUFFICES ASSUME NEW i \in 1..Len(log) + 1 PROVE Holds(book[p], log'[i])
      BY <2>2
    <3>1. i \in 1..Len(log) \/ i = Len(log) + 1
      BY <1>1
    <3>2. QED
      BY <2>2, <2>5, <3>1 DEF BookSound
  <2>7. Clean' => book'[p] = log'
    BY <2>1, <2>3, <2>5 DEF BookSound
  <2>8. BookSound(p)'
    BY <2>1, <2>2, <2>5, <2>6, <2>7 DEF BookSound, Holds
  <2>9. QED
    BY <2>4, <2>8
<1>6. CASE AppendEvents(p) \/ SaveReadModel(p) \/ SaveSnapshot(p) \/ SaveProcessed(p)
  <2>1. /\ handler[p] \in Logged \cup {"saveProcessed"}
        /\ handler'[p] \in Logged => handler[p] \in Logged
        /\ handler[p] \notin Executed /\ handler'[p] \notin Executed
    BY <1>6 DEF AppendEvents, SaveReadModel, SaveSnapshot, SaveProcessed, CallReturns,
                Following, At, GoTo, Executed, Logged, HandlerStep
  <2>2. /\ UNCHANGED <<log, book, held, entry, delivery>>
        /\ failures' = failures \/ failures' = failures + 1
    BY <1>6 DEF AppendEvents, SaveReadModel, SaveSnapshot, SaveProcessed, CallReturns,
                brokerVars
  <2>3. Clean' => Clean
    BY <2>2 DEF Clean
  <2>4. BookSound(p)'
    BY <2>1, <2>2, <2>3 DEF BookSound, Holds
  <2>5. /\ readModel' = readModel \/ readModel' = book[p]
        /\ snapshot' = snapshot
             \/ (handler[p] \in Logged /\ snapshot' = [book |-> book[p], id |-> entry[p]])
    BY <1>1, <1>6 DEF AppendEvents, SaveReadModel, SaveSnapshot, SaveProcessed, HeldBook, At,
                      Logged
  <2>6. SubSeq(log, 1, Len(log)) = log /\ Len(log) \in 0..Len(log)
    BY <1>1, SubSeqFull
  <2>7. Clean => book[p] = log
    BY <2>1 DEF BookSound
  <2>8. \A i \in 1..snapshot'.id : Holds(snapshot'.book, log[i])
    BY <2>5 DEF StoredBooks, BookSound
  <2>9. Clean' => /\ snapshot'.book = SubSeq(log, 1, snapshot'.id)
                  /\ \E n \in 0..Len(log) : readModel' = SubSeq(log, 1, n)
    BY <2>3, <2>5, <2>6, <2>7 DEF StoredBooks, BookSound
  <2>10. StoredBooks'
    BY <2>2, <2>8, <2>9 DEF StoredBooks, Holds
  <2>11. QED
    BY <2>2, <2>4, <2>10 DEF NoneHeld
<1>7. QED
  BY <1>2, <1>3, <1>4, <1>5, <1>6 DEF StoreStep

\* The stores are left alone.
LEMMA StillStores ==
  ASSUME RestTypes, StoredBooks, NoneHeld,
         UNCHANGED <<log, snapshot, readModel>>, Clean' => Clean,
         held' = held \/ \E p \in Process : held' = [held EXCEPT ![p] = Nobody]
  PROVE  StoredBooks' /\ NoneHeld'
<1>1. StoredBooks'
  BY DEF StoredBooks, Holds
<1>2. NoneHeld'
  BY DEF NoneHeld, RestTypes
<1>3. QED
  BY <1>1, <1>2

\* The book and the log are left alone, and the handler is at none of the steps between
\* the execution and the last snapshot.
LEMMA SoundAtRest ==
  ASSUME NEW p \in Process, BookSound(p), log' = log, book'[p] = book[p],
         handler'[p] \notin Executed \cup Logged,
         Clean' => Clean /\ handler[p] \notin Executed
  PROVE  BookSound(p)'
BY DEF BookSound, Holds

\* Another process is at work.
LEMMA SoundAside ==
  ASSUME NEW p \in Process, BookSound(p), log' = log, book'[p] = book[p],
         handler'[p] = handler[p], delivery'[p] = delivery[p], entry'[p] = entry[p],
         Clean' => Clean
  PROVE  BookSound(p)'
BY DEF BookSound, Holds

\* What a recovery builds: it has the log in it, and is nothing else as long as all
\* went well (recoverSymbolFromCommandLog).
LEMMA RecoveryReaches ==
  ASSUME log \in Seq(Command), RestTypes, StoredBooks, NoneThrows
  PROVE  /\ RecoveredBook \in Seq(Command)
         /\ \A i \in 1..Len(log) : Holds(RecoveredBook, log[i])
         /\ Clean => RecoveredBook = log
<1>1. /\ Len(log) \in Nat /\ snapshot.id \in 0..Len(log) /\ snapshot.book \in Seq(Command)
      /\ \A i \in 1..Len(log) : log[i] \notin Refused
  BY LenProperties DEF RestTypes, NoneThrows, Throws
<1>2. /\ RecoveredBook \in Seq(Command)
      /\ \A c : Holds(snapshot.book, c) => Holds(RecoveredBook, c)
      /\ \A i \in snapshot.id + 1..Len(log) : Holds(RecoveredBook, log[i])
      /\ snapshot.book = SubSeq(log, 1, snapshot.id) => RecoveredBook = log
  BY <1>1, ReplayReaches DEF RecoveredBook, AfterCheckpoint
<1>3. \A i \in 1..Len(log) : i \in 1..snapshot.id \/ i \in snapshot.id + 1..Len(log)
  BY <1>1
<1>4. QED
  BY <1>2, <1>3 DEF StoredBooks

\* What is known to be logged survives in what a recovery builds.
LEMMA LoggedSurvives ==
  ASSUME IInv, LogKnown, RestTypes, StoredBooks
  PROVE  ProcessedSurvives
<1> SUFFICES ASSUME NEW c \in Command, status[c] = "PROCESSED"
             PROVE  c \in ToSet(RecoveredBook)
  BY DEF ProcessedSurvives
<1>1. InLog(c)
  BY DEF LogKnown
<1>2. \A i \in 1..Len(log) : Holds(RecoveredBook, log[i])
  BY RecoveryReaches DEF IInv, Shape, LogKnown
<1>3. Holds(RecoveredBook, c)
  BY <1>1, <1>2 DEF InLog
<1>4. QED
  BY <1>3 DEF ToSet, Holds

LEMMA StartReplays ==
  ASSUME IInv, StatusInv, ReplayInv, NEW p \in Process, Start(p)
  PROVE  ReplayInv'
<1>1. /\ \A q \in Process : ~consuming[q]
      /\ consuming' = [consuming EXCEPT ![p] = TRUE]
      /\ leader' = p /\ book' = [book EXCEPT ![p] = RecoveredBook]
      /\ UNCHANGED <<dlq, log, readModel, snapshot, held, handler, entry, crashes, failures,
                     doubts>>
  BY DEF Start, brokerVars, storeVars, faultVars
<1>2. /\ RecoveredBook \in Seq(Command)
      /\ \A i \in 1..Len(log) : Holds(RecoveredBook, log[i])
      /\ Clean => RecoveredBook = log
  BY RecoveryReaches DEF IInv, Shape, StatusInv, LogKnown, ReplayInv
<1>3. handler[p] = "idle"
  BY <1>1 DEF IInv, OneTurn
<1>4. RestTypes'
  BY <1>1, <1>2 DEF ReplayInv, RestTypes
<1>5. StoredBooks' /\ NoneHeld'
  BY <1>1, StillStores DEF ReplayInv, Clean
<1>6. \A q \in Process : consuming'[q] => q = p
  BY <1>1 DEF IInv, Shape
<1>7. BookSound(p)'
  <2>1. book'[p] = RecoveredBook
    BY <1>1 DEF ReplayInv, RestTypes
  <2>2. handler[p] \notin Executed \cup Logged
    BY <1>3 DEF Executed, Logged
  <2>3. Clean' => Clean
    BY <1>1 DEF Clean
  <2>4. QED
    BY <1>1, <1>2, <2>1, <2>2, <2>3 DEF BookSound, Holds
<1>8. QED
  BY <1>4, <1>5, <1>6, <1>7 DEF ReplayInv

\* A step that leaves every process with the book it has, or with none to consume.
LEMMA QuietStepReplays ==
  ASSUME IInv, ReplayInv, RestTypes', NEW p \in Process,
         \/ Deliver(p) \/ CallFails(p) \/ Acknowledge(p) \/ RefuseForeign(p) \/ RejectFails(p)
  PROVE  ReplayInv'
<1>1. /\ handler \in [Process -> HandlerStep] /\ failures \in Nat
      /\ delivery \in [Process -> Command \cup {Nobody}]
  BY DEF IInv, Shape
<1>2. /\ UNCHANGED <<log, snapshot, readModel, consuming, book, held, entry>>
      /\ failures' = failures \/ failures' = failures + 1
  BY DEF Deliver, CallFails, Acknowledge, EndDelivery, RefuseForeign, RejectFails, storeVars,
         faultVars
<1>3. Clean' => Clean
  BY <1>1, <1>2 DEF Clean
<1>4. handler'[p] \notin Executed \cup Logged /\ (Clean' => handler[p] \notin Executed)
  <2>1. CASE CallFails(p)
    BY <1>1, <2>1 DEF CallFails, GoTo, Executed, Logged, Clean
  <2>2. CASE Deliver(p) \/ Acknowledge(p) \/ RefuseForeign(p) \/ RejectFails(p)
    BY <1>1, <2>2 DEF Deliver, Acknowledge, EndDelivery, RefuseForeign, RejectFails, At, GoTo,
                      Executed, Logged
  <2>3. QED
    BY <2>1, <2>2
<1>5. \A q \in Process \ {p} : handler'[q] = handler[q] /\ delivery'[q] = delivery[q]
  BY <1>1 DEF Deliver, CallFails, Acknowledge, EndDelivery, RefuseForeign, RejectFails,
              DeadLetter, Settle, GoTo, brokerVars
<1>6. StoredBooks' /\ NoneHeld'
  BY <1>2, <1>3, StillStores DEF ReplayInv
<1>7. ASSUME NEW q \in Process, consuming'[q] PROVE BookSound(q)'
  <2>1. BookSound(q)
    BY <1>2, <1>7 DEF ReplayInv
  <2>2. CASE q = p
    BY <1>2, <1>3, <1>4, <2>1, <2>2, SoundAtRest
  <2>3. CASE q # p
    BY <1>2, <1>3, <1>5, <2>1, <2>3, SoundAside
  <2>4. QED
    BY <2>2, <2>3
<1>8. QED
  BY <1>6, <1>7 DEF ReplayInv

\* A process that loses its turn loses its book with it.
LEMMA EndOfTurnReplays ==
  ASSUME IInv, ReplayInv, RestTypes', NEW p \in Process,
         (ReportingStep(p) /\ StepDown(p)) \/ Crash(p)
  PROVE  ReplayInv'
<1>1. /\ handler \in [Process -> HandlerStep] /\ consuming \in [Process -> BOOLEAN]
      /\ delivery \in [Process -> Command \cup {Nobody}]
      /\ book \in [Process -> Seq(Command)]
  BY DEF IInv, Shape, ReplayInv, RestTypes
<1>2. /\ UNCHANGED <<log, snapshot, readModel, entry, failures>>
      /\ consuming' = [consuming EXCEPT ![p] = FALSE]
      /\ book' = [book EXCEPT ![p] = <<>>]
      /\ GoTo(p, "idle")
      /\ delivery' = delivery \/ Settle(p)
      /\ held' = held \/ held' = [held EXCEPT ![p] = Nobody]
  BY DEF ReportingStep, GiveBack, HandBack, NackAndRequeue, Requeue, AcknowledgeAndReport,
         AcknowledgeLast, EndDelivery, StepDown, Crash, LoseProcess, LoseMemory, storeVars
<1>3. StoredBooks' /\ NoneHeld'
  BY <1>2, StillStores DEF ReplayInv, Clean
<1>4. ASSUME NEW q \in Process, consuming'[q] PROVE BookSound(q)'
  <2>1. /\ q # p /\ consuming[q] /\ book'[q] = book[q] /\ handler'[q] = handler[q]
        /\ delivery'[q] = delivery[q]
    BY <1>1, <1>2, <1>4 DEF GoTo, Settle
  <2>2. QED
    BY <1>2, <2>1, SoundAside DEF ReplayInv, Clean
<1>5. QED
  BY <1>3, <1>4 DEF ReplayInv

LEMMA HandlerReplays ==
  ASSUME IInv, ReplayInv, NEW p \in Process, StoreStep(p)
  PROVE  ReplayInv'
<1>1. handler[p] # "idle"
  BY DEF StoreStep, Accept, SkipProcessed, Execute, StillLeads, AppendCommand, AppendEvents,
         SaveReadModel, SaveSnapshot, SaveProcessed, SaveSkipped, SaveRejected, At
<1>2. delivery[p] \in Command /\ consuming[p] /\ \A q \in Process : consuming[q] => q = p
  BY <1>1 DEF IInv, Shape, OneTurn
<1>3. consuming' = consuming
  BY DEF StoreStep, Accept, SkipProcessed, Execute, StillLeads, AppendCommand, AppendEvents,
         SaveReadModel, SaveSnapshot, SaveProcessed, SaveSkipped, SaveRejected
<1>4. StoredBooks' /\ NoneHeld' /\ BookSound(p)'
  BY <1>2, HandlerStores DEF IInv, Shape, ReplayInv
<1>5. RestTypes'
  BY <1>2, HandlerTypes DEF IInv, Shape, ReplayInv
<1>6. QED
  BY <1>2, <1>3, <1>4, <1>5 DEF ReplayInv

LEMMA ApiReplays ==
  ASSUME IInv, ReplayInv, Api \/ UNCHANGED vars
  PROVE  ReplayInv'
<1>1. /\ UNCHANGED <<log, snapshot, readModel, consuming, book, handler, delivery, held, entry>>
      /\ failures' = failures \/ failures' = failures + 1
  BY DEF Api, SaveQueued, Publish, PublishFails, vars, brokerVars, storeVars, processVars,
         faultVars
<1>2. Clean' => Clean
  BY <1>1 DEF IInv, Shape, Clean
<1>3. RestTypes'
  BY OtherTypes DEF ReplayInv
<1>4. StoredBooks' /\ NoneHeld'
  BY <1>1, <1>2, StillStores DEF ReplayInv
<1>5. \A q \in Process : consuming'[q] => BookSound(q)'
  BY <1>1, <1>2, SoundAside DEF ReplayInv
<1>6. QED
  BY <1>3, <1>4, <1>5 DEF ReplayInv

LEMMA ReplayStep ==
  ASSUME IInv, StatusInv, ReplayInv, [Next]_vars
  PROVE  ReplayInv'
<1>1. ASSUME NEW p \in Process,
             \/ Deliver(p) \/ CallFails(p) \/ Acknowledge(p) \/ RefuseForeign(p) \/ RejectFails(p)
      PROVE  ReplayInv'
  <2>1. RefuseForeign(p) \/ RejectFails(p) => delivery[p] \in Command
    BY DEF RefuseForeign, RejectFails, At, IInv, Shape, OneTurn
  <2>2. RestTypes'
    BY <1>1, <2>1, OtherTypes DEF ReplayInv
  <2>3. QED
    BY <1>1, <2>2, QuietStepReplays
<1>2. ASSUME NEW p \in Process, (ReportingStep(p) /\ StepDown(p)) \/ Crash(p)
      PROVE  ReplayInv'
  BY <1>2, OtherTypes, EndOfTurnReplays DEF ReplayInv
<1>3. QED
  BY <1>1, <1>2, StartReplays, HandlerReplays, ApiReplays
     DEF Next, HandlerNext, QuietStep

LEMMA ReplayInitially == Init => ReplayInv
<1> SUFFICES ASSUME Init PROVE ReplayInv
  OBVIOUS
<1>1. <<>> \in Seq(Command) /\ Len(<<>>) = 0 /\ SubSeq(<<>>, 1, 0) = <<>>
  BY EmptySeq, SubSeqEmpty
<1>2. RestTypes
  BY <1>1, BoundsAssumption DEF Init, RestTypes
<1>3. StoredBooks /\ NoneHeld
  BY <1>1 DEF Init, StoredBooks, NoneHeld
<1>4. QED
  BY <1>2, <1>3 DEF Init, ReplayInv

-----------------------------------------------------------------------------
(* The theorems *)

WorkerInv == IInv /\ StatusInv /\ ReplayInv

LEMMA WorkerInitially == Init => WorkerInv
  BY InitIsInvariant, StatusInitially, ReplayInitially DEF WorkerInv

LEMMA WorkerInvStep == ASSUME WorkerInv, [Next]_vars PROVE WorkerInv'
  BY ShapeKeeps, StepKeeps, StatusStep, ReplayStep DEF IInv, WorkerInv

LEMMA WorkerInvariance == Spec => []WorkerInv
  BY WorkerInitially, WorkerInvStep, PTL DEF Spec

\* Every variable of the worker has its type, the bounds of the fault counters included.
THEOREM WorkerTypeCorrect == Spec => []TypeOK
<1>1. WorkerInv => TypeOK
  <2> SUFFICES ASSUME IInv, ReplayInv PROVE TypeOK
    BY DEF WorkerInv
  <2>1. entry \in [Process -> Nat]
    BY LenProperties DEF ReplayInv, RestTypes, IInv, Shape
  <2>2. QED
    BY <2>1 DEF ReplayInv, RestTypes, IInv, Shape, TypeOK
<1>2. QED
  BY <1>1, WorkerInvariance, PTL

\* What was reported as processed survives: whenever a recovery begins, through crashes,
\* redeliveries and failing calls and with commands that throw halfway, it builds a book
\* that has every PROCESSED command in it ("zero-data-loss failover", README.md:2).
THEOREM ProcessedAlwaysSurvives == Spec => []ProcessedSurvives
<1>1. WorkerInv => ProcessedSurvives
  BY LoggedSurvives DEF WorkerInv, StatusInv, ReplayInv
<1>2. QED
  BY <1>1, WorkerInvariance, PTL

\* Provided that no command throws after it has changed the book: as long as no call has
\* failed, the snapshot is the replay of the log up to its checkpoint, and the read model
\* that of a beginning of the log (saveSnapshot, saveBook).
THEOREM SnapshotAlwaysReplay ==
  ASSUME HalfApplied = {}
  PROVE  Spec => []SnapshotIsReplay
<1>1. WorkerInv => SnapshotIsReplay
  BY DEF WorkerInv, ReplayInv, StoredBooks, Clean, SnapshotIsReplay
<1>2. QED
  BY <1>1, WorkerInvariance, PTL

\* Provided that no command throws after it has changed the book: as long as no call has
\* failed, the book of the process that consumes is the replay of the log, but for the
\* command in hand between its execution and its entry in the log.
THEOREM LiveBookAlwaysReplay ==
  ASSUME HalfApplied = {}
  PROVE  Spec => []LiveBookIsReplay
<1>1. WorkerInv => LiveBookIsReplay
  BY DEF WorkerInv, ReplayInv, BookSound, Clean, Executed, LiveBookIsReplay
<1>2. QED
  BY <1>1, WorkerInvariance, PTL
=============================================================================
