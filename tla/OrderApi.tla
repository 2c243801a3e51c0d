------------------------------ MODULE OrderApi ------------------------------
(***************************************************************************)
(* The API process as it takes order commands (api/routes/bookRoutes.js,   *)
(* infrastructure/rabbitmq/RabbitOrderCommandBus.js, rabbitConnection.js)  *)
(* up to the queues of the partitions.  Requests run side by side and meet *)
(* at their awaits; they share the module's one channel variable, and more *)
(* than one of them may be opening a channel at a time.                    *)
(*                                                                         *)
(* Behind the queues a worker decides each command: CommandWorker tells    *)
(* how.  A request is named by the command it creates.                     *)
(***************************************************************************)
EXTENDS SymbolPartitioner, SequencesExt

CONSTANTS
  Command,
  Symbols,  \* the symbols that requests name
  Retries,  \* attempts to connect to RabbitMQ (10 in the code)
  MaxStops  \* bound on the number of times the broker stops

ASSUME RetriesAssumption == Retries \in Nat \ {0}

ASSUME SymbolsAssumption == \A s \in Symbols : s \in Seq(CodeUnit)

VARIABLES
  step,      \* per request: what its handler awaits
  symbol,    \* per request
  partitionId,  \* per request: of its symbol
  attempt,   \* per request: of connectRabbitMQ
  answer,    \* per request: what the client was told
  status,    \* per command: the stored status
  outcome,   \* per command: what a worker has made of it
  channel,   \* the module's channel: an index into open, or 0 for null
  open,      \* per channel ever opened: its connection still stands
  wire,      \* per channel: messages written and not yet taken by the broker
  queue,     \* per partition
  declared,  \* a worker has started and asserted the partitions' queues
  up,        \* RabbitMQ is running
  stops,
  early,     \* history: messages routed before the queues were declared
  cut        \* history: messages lost with a connection

requestVars == <<step, symbol, partitionId, attempt, answer>>
channelVars == <<channel, open, wire>>
brokerVars == <<queue, declared, up, stops, early, cut>>
vars == <<requestVars, status, outcome, channelVars, brokerVars>>

Step == {"none", "saveStatus", "connect", "connecting", "opening", "settingUp",
         "failing", "sleeping", "done"}

Null == 0

GoTo(c, s) == step' = [step EXCEPT ![c] = s]

At(c, s) == step[c] = s

Answer(c, a) == GoTo(c, "done") /\ answer' = [answer EXCEPT ![c] = a]

-----------------------------------------------------------------------------
(* An order route *)

\* The partition is computed once the status has been saved; it depends on the
\* symbol only.
Receive(c) ==
  /\ At(c, "none")
  /\ GoTo(c, "saveStatus")
  /\ \E s \in Symbols :
       /\ symbol' = [symbol EXCEPT ![c] = s]
       /\ partitionId' = [partitionId EXCEPT ![c] = GetPartitionId(s)]
  /\ UNCHANGED <<attempt, answer, status, outcome, channelVars, brokerVars>>

\* Slip: the status is saved once the command has been published.
SaveAfterPublish(c) ==
  /\ \/ At(c, "saveStatus") /\ GoTo(c, "connect") /\ UNCHANGED status
     \/ /\ answer[c] = "accepted" /\ status[c] # "QUEUED"
        /\ status' = [status EXCEPT ![c] = "QUEUED"]
        /\ UNCHANGED step
  /\ UNCHANGED <<symbol, partitionId, attempt, answer, outcome, channelVars, brokerVars>>

SaveQueued(c) ==
  /\ At(c, "saveStatus")
  /\ status' = [status EXCEPT ![c] = "QUEUED"]
  /\ GoTo(c, "connect")
  /\ UNCHANGED <<symbol, partitionId, attempt, answer, outcome, channelVars, brokerVars>>

SaveFails(c) ==
  /\ At(c, "saveStatus")
  /\ Answer(c, "failed")
  /\ UNCHANGED <<symbol, partitionId, attempt, status, outcome, channelVars, brokerVars>>

\* publish, from where it has its channel: null and a closed channel throw, and a
\* full write buffer makes the request fail although the message is written.
Send(c, ch) ==
  IF ch # Null /\ open[ch]
  THEN /\ wire' = [wire EXCEPT ![ch] = Append(@, c)]
       /\ \E a \in {"accepted", "failed"} : Answer(c, a)
  ELSE Answer(c, "failed") /\ UNCHANGED wire

\* getPartitionId throws for a blank symbol; then connectRabbitMQ is called, which
\* returns the channel that is there or makes its first attempt.
Connect(c) ==
  /\ At(c, "connect")
  /\ \/ IsBlank(symbol[c]) /\ Answer(c, "failed") /\ UNCHANGED <<attempt, wire>>
     \/ /\ ~IsBlank(symbol[c]) /\ channel # Null
        /\ Send(c, channel)
        /\ UNCHANGED attempt
     \/ /\ ~IsBlank(symbol[c]) /\ channel = Null
        /\ attempt' = [attempt EXCEPT ![c] = 1]
        /\ GoTo(c, "connecting")
        /\ UNCHANGED <<answer, wire>>
  /\ UNCHANGED <<symbol, partitionId, status, outcome, channel, open, brokerVars>>

-----------------------------------------------------------------------------
(* connectRabbitMQ *)

Connected(c) ==
  /\ At(c, "connecting")
  /\ up
  /\ GoTo(c, "opening")
  /\ UNCHANGED <<symbol, partitionId, attempt, answer, status, outcome, channelVars, brokerVars>>

\* The module's variable is set before the exchange and the queue are asserted,
\* and over a channel that another request may have put there.
ChannelCreated(c) ==
  /\ At(c, "opening")
  /\ open' = Append(open, TRUE)
  /\ wire' = Append(wire, <<>>)
  /\ channel' = Len(open) + 1
  /\ GoTo(c, "settingUp")
  /\ UNCHANGED <<symbol, partitionId, attempt, answer, status, outcome, brokerVars>>

\* The three calls that set the channel up are one step.  What is returned, and
\* sent to, is the module's variable, whatever other requests have done to it.
SetUp(c) ==
  /\ At(c, "settingUp")
  /\ Send(c, channel)
  /\ UNCHANGED <<symbol, partitionId, attempt, status, outcome, channel, open, brokerVars>>

\* The attempt's catch block.  A call on a channel that is null throws as well.
AttemptFails(c) ==
  /\ \/ At(c, "failing")
     \/ At(c, "connecting") /\ ~up
     \/ At(c, "settingUp") /\ channel = Null
  /\ channel' = Null
  /\ GoTo(c, "sleeping")
  /\ UNCHANGED <<symbol, partitionId, attempt, answer, status, outcome, open, wire, brokerVars>>

\* Slip: the loop forgets to count.
SameAttempt(n) == n

NextAttempt(n) == n + 1

\* The end of the delay.  The next attempt does not look for a channel again.
Wake(c) ==
  /\ At(c, "sleeping")
  /\ IF attempt[c] < Retries
     THEN /\ attempt' = [attempt EXCEPT ![c] = NextAttempt(@)]
          /\ GoTo(c, "connecting")
          /\ UNCHANGED answer
     ELSE Answer(c, "failed") /\ UNCHANGED attempt
  /\ UNCHANGED <<symbol, partitionId, status, outcome, channelVars, brokerVars>>

RouteStep(c) ==
  \/ SaveQueued(c) \/ SaveFails(c) \/ Connect(c) \/ Connected(c) \/ ChannelCreated(c)
  \/ SetUp(c) \/ AttemptFails(c) \/ Wake(c)

-----------------------------------------------------------------------------
(* RabbitMQ and the workers *)

\* A message for a queue that does not exist is dropped without a word.
Take(ch) ==
  /\ wire[ch] # <<>>
  /\ wire' = [wire EXCEPT ![ch] = Tail(@)]
  /\ LET c == Head(wire[ch])
         i == partitionId[c]
     IN IF declared /\ i \in Partition
        THEN queue' = [queue EXCEPT ![i] = Append(@, c)] /\ UNCHANGED early
        ELSE early' = (IF declared THEN early ELSE early \cup {c}) /\ UNCHANGED queue
  /\ UNCHANGED <<requestVars, status, outcome, channel, open, declared, up, stops, cut>>

\* assertPartitionQueues, by the first worker: all partitions' queues.  The API
\* asserts none.
AssertPartitionQueues ==
  /\ up /\ ~declared
  /\ declared' = TRUE
  /\ UNCHANGED <<requestVars, status, outcome, channelVars, queue, up, stops, early, cut>>

\* The worker of partition i is through with a command and has stored its status.
Decide(i) ==
  /\ up /\ queue[i] # <<>>
  /\ queue' = [queue EXCEPT ![i] = Tail(@)]
  /\ \E s \in {"PROCESSED", "REJECTED"} :
       /\ outcome' = [outcome EXCEPT ![Head(queue[i])] = s]
       /\ status' = [status EXCEPT ![Head(queue[i])] = s]
  /\ UNCHANGED <<requestVars, channelVars, declared, up, stops, early, cut>>

\* A Go worker dead-letters, without a status, a symbol that is blank for it or that it
\* takes for another partition's.
Refuse(i) ==
  /\ up /\ queue[i] # <<>>
  /\ GoPartitionId(symbol[Head(queue[i])]) # i
  /\ queue' = [queue EXCEPT ![i] = Tail(@)]
  /\ outcome' = [outcome EXCEPT ![Head(queue[i])] = "refused"]
  /\ UNCHANGED <<requestVars, status, channelVars, declared, up, stops, early, cut>>

\* A shutdown closes every connection.  Queues and messages are durable; what is
\* on its way is lost, and the module keeps the channel that is closed.
BrokerStops ==
  /\ up /\ stops < MaxStops
  /\ up' = FALSE
  /\ stops' = stops + 1
  /\ open' = [ch \in DOMAIN open |-> FALSE]
  /\ wire' = [ch \in DOMAIN wire |-> <<>>]
  /\ cut' = cut \cup UNION {ToSet(wire[ch]) : ch \in DOMAIN wire}
  /\ step' = [c \in Command |->
                IF step[c] \in {"opening", "settingUp"} THEN "failing" ELSE step[c]]
  /\ UNCHANGED <<symbol, partitionId, attempt, answer, status, outcome, channel, queue, declared, early>>

BrokerStarts ==
  /\ ~up
  /\ up' = TRUE
  /\ UNCHANGED <<requestVars, status, outcome, channelVars, queue, declared, stops, early, cut>>

-----------------------------------------------------------------------------
Init ==
  /\ step = [c \in Command |-> "none"]
  /\ symbol = [c \in Command |-> <<>>] /\ partitionId = [c \in Command |-> 0]
  /\ attempt = [c \in Command |-> 0]
  /\ answer = [c \in Command |-> "none"]
  /\ status = [c \in Command |-> "none"]
  /\ outcome = [c \in Command |-> "none"]
  /\ channel = Null /\ open = <<>> /\ wire = <<>>
  /\ queue = [i \in Partition |-> <<>>]
  /\ declared = FALSE
  /\ up \in BOOLEAN
  /\ stops = 0 /\ early = {} /\ cut = {}

Next ==
  \/ \E c \in Command : Receive(c) \/ RouteStep(c)
  \/ \E ch \in DOMAIN wire : Take(ch)
  \/ \E i \in Partition : Decide(i) \/ Refuse(i)
  \/ AssertPartitionQueues \/ BrokerStops \/ BrokerStarts

Spec == Init /\ [][Next]_vars

\* The event loop goes on with every request, the broker reads what is written to
\* it, and the workers consume.  Nothing starts a broker or a first worker.
FairSpec ==
  /\ Spec
  /\ \A c \in Command : WF_vars(RouteStep(c))
  /\ WF_vars(\E ch \in DOMAIN wire : Take(ch))
  /\ \A i \in Partition : WF_vars(Decide(i))

-----------------------------------------------------------------------------
(* Properties *)

\* A command that a client finds QUEUED has not been decided, unless a Go worker has
\* refused it: the status that the route saves never overwrites the worker's ("store
\* command status as `QUEUED`" precedes the publication, README.md:206).
QueuedIsUndecided ==
  \A c \in Command : status[c] = "QUEUED" => outcome[c] \in {"none", "refused"}

\* A message is in the queue of the partition that both workers, the Node one and
\* the Go one, take its symbol for, unless it is a symbol that Go reads otherwise:
\* neither dead-letters it as foreign ("This guarantees that all commands for the
\* same symbol always go to the same partition", README.md:74).
InOwnQueue ==
  \A i \in Partition : \A c \in ToSet(queue[i]) :
    /\ GetPartitionId(symbol[c]) = i
    /\ IsCommon(symbol[c]) => GoPartitionId(symbol[c]) = i

\* Every request is answered, whatever becomes of the broker: the attempts of
\* connectRabbitMQ run out.
EveryRequestIsAnswered ==
  \A c \in Command : step[c] # "none" ~> answer[c] # "none"

\* With a broker that comes back, an accepted command for a symbol that both workers
\* read alike is decided, but for two ways in which it is lost: no worker had asserted
\* the queues yet, or the connection went with the message on its way.
AcceptedIsDecided ==
  []<>up => \A c \in Command :
    answer[c] = "accepted" ~> \/ outcome[c] \in {"PROCESSED", "REJECTED"}
                              \/ c \in early \cup cut \/ ~IsCommon(symbol[c])
=============================================================================
