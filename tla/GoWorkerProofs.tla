--------------------------- MODULE GoWorkerProofs ---------------------------
(***************************************************************************)
(* The Go workers of a partition: as long as no key expires in use, one    *)
(* worker consumes and the partition passes from worker to worker without  *)
(* loss or repetition; and the end of a worker costs one command at most.  *)
(* For any number of workers, signals, crashes and failing calls.          *)
(***************************************************************************)
EXTENDS GoWorker, CommandWorkerProofs, FiniteSetTheorems

-----------------------------------------------------------------------------
(* One worker consumes *)

RunShape ==
  /\ DOMAIN stage = Process /\ consuming \in [Process -> BOOLEAN]
  /\ requeued \in [Process -> BOOLEAN] /\ expiries \in Nat

\* From the acquisition of the key until service.Run begins to return; and nobody else
\* has use for a message that goes back before its handler has ended.
KeyOutlivesRun ==
  \A p \in Process :
    /\ stage[p] \in Leading => leader = p
    /\ consuming[p] => stage[p] = "consuming"
    /\ ~requeued[p]

GInv == RunShape /\ (expiries = 0 => KeyOutlivesRun)

\* The steps that change none of what this is about.
LEMMA StillSteps ==
  ASSUME NEW p \in Process,
         \/ Api /\ UNCHANGED <<runVars, runFaults>>
         \/ Deliver(p) /\ UNCHANGED <<runVars, runFaults>>
         \/ RejectForeign(p) \/ HandlerGoesOn(p) \/ HandlerFails(p) \/ RejectionFails(p)
         \/ NoticeLoss(p) \/ UNCHANGED goVars
  PROVE  UNCHANGED <<stage, consuming, leader, expiries, requeued>>
BY DEF Api, SaveQueued, Publish, PublishFails, Deliver, RejectForeign, HandlerGoesOn, StoreStep,
       Acknowledge, EndDelivery, Accept, SkipProcessed, Execute, StillLeads, AppendCommand,
       AppendEvents, SaveReadModel, SaveSnapshot, SaveProcessed, SaveSkipped, SaveRejected,
       HandlerFails, RejectionFails, NoticeLoss, goVars, vars, runVars, runFaults, processVars

\* How a worker's own steps lead it through service.Run.
RunsOn(p) ==
  /\ expiries' = expiries
  /\ requeued' = requeued \/ requeued' = [requeued EXCEPT ![p] = FALSE]
  /\ \/ UNCHANGED <<stage, consuming, leader>>
     \/ /\ stage[p] = "waiting" /\ leader = Nobody
        /\ stage' = [stage EXCEPT ![p] = "recovering"] /\ leader' = p
        /\ UNCHANGED consuming
     \/ /\ stage[p] \in Leading \ {"consuming"}
        /\ \E s \in Leading \ {"consuming"} : stage' = [stage EXCEPT ![p] = s]
        /\ UNCHANGED <<consuming, leader>>
     \/ /\ stage[p] \in Leading
        /\ stage' = [stage EXCEPT ![p] = "consuming"]
        /\ consuming' = [consuming EXCEPT ![p] = TRUE]
        /\ UNCHANGED leader
     \/ /\ \E s : s \notin Leading /\ stage' = [stage EXCEPT ![p] = s]
        /\ consuming' = [consuming EXCEPT ![p] = FALSE]
        /\ UNCHANGED leader
     \/ /\ stage[p] \notin Leading
        /\ \E s : s \notin Leading /\ stage' = [stage EXCEPT ![p] = s]
        /\ UNCHANGED consuming
        /\ leader' = leader \/ (leader = p /\ leader' = Nobody)

LEMMA RunSteps ==
  ASSUME NEW p \in Process, RunStep(p) \/ ConsumerStep(p) \/ Fault(p) \/ StartAgain(p),
         ~LosesDelivery(p)
  PROVE  RunsOn(p)
<1>1. CASE \/ RejectForeign(p) \/ HandlerGoesOn(p) \/ HandlerFails(p) \/ RejectionFails(p)
           \/ NoticeLoss(p)
  BY <1>1, StillSteps DEF RunsOn
<1>2. CASE Restart(p) \/ StartAgain(p)
  BY <1>2 DEF Restart, StartAgain, Boot, Enter, Leading, RunsOn, runFaults
<1>3. CASE Acquire(p)
  BY <1>3 DEF Acquire, Enter, RunsOn, runFaults
<1>4. CASE LoadSnapshot(p) \/ ReplayRest(p)
  BY <1>4 DEF LoadSnapshot, ReplayRest, Enter, Leading, RunsOn, runFaults
<1>5. CASE Connect(p)
  BY <1>5 DEF Connect, Enter, Leading, RunsOn, runFaults
<1>6. CASE GiveUp(p) \/ LeadershipLost(p) \/ Done(p) \/ ConnectionLost(p) \/ SettleFails(p)
  <2>1. Leave(p)
    BY <1>6 DEF GiveUp, LeadershipLost, Done, ConnectionLost, Abandon, SettleFails
  <2>2. QED
    BY <2>1 DEF Leave, Enter, Leading, RunsOn, runFaults
<1>7. CASE Release(p)
  BY <1>7 DEF Release, ReleaseKey, EndRun, Enter, Leading, RunsOn, runFaults
<1>8. CASE Signal(p)
  BY <1>8 DEF Signal, Enter, Leading, RunsOn
<1>9. CASE GoCrash(p) \/ CrashEmptyHanded(p)
  BY <1>9 DEF GoCrash, CrashEmptyHanded, LoseProcess, LoseMemory, EndRun, Enter, Leading, RunsOn, runFaults
<1>10. QED
  BY <1>1, <1>2, <1>3, <1>4, <1>5, <1>6, <1>7, <1>8, <1>9 DEF RunStep, ConsumerStep, Fault

LEMMA RunsOnKeeps ==
  ASSUME GInv, NEW p \in Process, RunsOn(p)
  PROVE  GInv'
<1>1. RunShape'
  BY DEF GInv, RunShape, RunsOn
<1>2. ASSUME expiries' = 0 PROVE KeyOutlivesRun'
  <2>1. KeyOutlivesRun
    BY <1>2 DEF GInv, RunsOn
  <2> SUFFICES ASSUME NEW q \in Process
               PROVE  /\ stage'[q] \in Leading => leader' = q
                      /\ consuming'[q] => stage'[q] = "consuming"
                      /\ ~requeued'[q]
    BY DEF KeyOutlivesRun
  <2>2. CASE q = p
    BY <2>1, <2>2 DEF GInv, RunShape, KeyOutlivesRun, RunsOn, Leading
  <2>3. CASE q # p
    <3>1. stage'[q] = stage[q] /\ consuming'[q] = consuming[q] /\ requeued'[q] = requeued[q]
      BY <2>3 DEF GInv, RunShape, RunsOn
    <3>2. leader = q => leader' = q
      BY <2>3, CommandAssumption DEF RunsOn
    <3>3. QED
      BY <2>1, <3>1, <3>2 DEF KeyOutlivesRun
  <2>4. QED
    BY <2>2, <2>3
<1>3. QED
  BY <1>1, <1>2 DEF GInv

LEMMA GoStepKeeps == ASSUME GInv, [GoNext]_goVars PROVE GInv'
<1>1. CASE Expire
  <2>1. UNCHANGED <<stage, consuming, expiries, requeued>> /\ stage[leader] \notin Leading
    BY <1>1 DEF Expire, LoseKey, runVars
  <2>2. QED
    BY <2>1 DEF GInv, RunShape, KeyOutlivesRun
<1>2. CASE ExpireInUse
  <2>1. UNCHANGED <<stage, consuming, requeued>> /\ expiries' = expiries + 1
    BY <1>2 DEF ExpireInUse, LoseKey, runVars
  <2>2. QED
    BY <2>1 DEF GInv, RunShape
<1>3. ASSUME UNCHANGED <<stage, consuming, leader, expiries, requeued>> PROVE GInv'
  BY <1>3 DEF GInv, RunShape, KeyOutlivesRun
<1>4. CASE (Api /\ UNCHANGED <<runVars, runFaults>>) \/ UNCHANGED goVars
  <2>1. UNCHANGED <<stage, consuming, leader, expiries, requeued>>
    BY <1>4 DEF Api, SaveQueued, Publish, PublishFails, goVars, vars, runVars, runFaults,
                processVars
  <2>2. QED
    BY <1>3, <2>1
<1>5. ASSUME NEW p \in Process,
             \/ Deliver(p) /\ UNCHANGED <<runVars, runFaults>>
             \/ RunStep(p) \/ ConsumerStep(p) \/ Fault(p) \/ StartAgain(p)
      PROVE  GInv'
  <2>1. CASE LosesDelivery(p)
    <3>1. /\ UNCHANGED <<stage, consuming, expiries>> /\ requeued' \in [Process -> BOOLEAN]
          /\ leader # p /\ consuming[p]
      BY <2>1 DEF LosesDelivery, processVars, runFaults, GInv, RunShape
    <3>2. expiries # 0
      BY <3>1 DEF GInv, KeyOutlivesRun, Leading
    <3>3. QED
      BY <3>1, <3>2 DEF GInv, RunShape
  <2>2. CASE ~LosesDelivery(p)
    BY <1>3, <1>5, <2>2, StillSteps, RunSteps, RunsOnKeeps
  <2>3. QED
    BY <2>1, <2>2
<1>6. QED
  BY <1>1, <1>2, <1>4, <1>5 DEF GoNext, GoStep

\* As long as no key expires in use, two workers of a partition never consume at one
\* time: a worker gives up its consumer before its key, through signals, crashes, lost
\* connections and failing calls (Run's deferred calls in service.go).
THEOREM OneGoConsumer ==
  GoSpec => [](expiries = 0 => \A p, q \in Process : consuming[p] /\ consuming[q] => p = q)
<1>1. GoInit => GInv
  BY DEF GoInit, Init, GInv, RunShape, KeyOutlivesRun, Leading
<1>2. GInv /\ [GoNext]_goVars => GInv'
  BY GoStepKeeps
<1>3. GInv => (expiries = 0 => \A p, q \in Process : consuming[p] /\ consuming[q] => p = q)
  BY DEF GInv, KeyOutlivesRun, Leading
<1>4. QED
  BY <1>1, <1>2, <1>3, PTL DEF GoSpec

-----------------------------------------------------------------------------
(* A partition passes from one worker to the next *)

\* A worker that has loaded the snapshot has the log up to its checkpoint in its book.
Loaded(p) ==
  stage[p] = "replaying" =>
    /\ \A i \in 1..checkpoint[p] : Holds(book[p], log[i])
    /\ Clean => book[p] = SubSeq(log, 1, checkpoint[p])

\* The book of a worker that has recovered is sound for as long as its context lives.
\* After that a call may fail between an execution and its entry in the log, but a
\* worker without a context stores nothing any more.
Ready(p) == stage[p] \in {"connecting", "consuming"} /\ ~cancelled[p] => BookSound(p)

HandoverInv ==
  /\ PromiseInv /\ IInv /\ LogKnown
  /\ RestTypes /\ StoredBooks /\ NoneHeld
  /\ checkpoint \in [Process -> 0..Len(log)]
  /\ cancelled \in [Process -> BOOLEAN]
  /\ \A p \in Process : Loaded(p) /\ Ready(p)

RInv == GInv /\ (expiries = 0 => HandoverInv)

\* A step of worker p that leaves the log and what is stored as they are.
LEMMA RunKeeps ==
  ASSUME HandoverInv, PromiseInv', IInv', LogKnown', RestTypes', NEW p \in Process,
         UNCHANGED <<log, snapshot, readModel>>, Clean' => Clean,
         held' = held \/ \E q \in Process : held' = [held EXCEPT ![q] = Nobody],
         checkpoint' \in [Process -> 0..Len(log)], cancelled' \in [Process -> BOOLEAN],
         \A q \in Process \ {p} :
           /\ stage'[q] = stage[q] /\ checkpoint'[q] = checkpoint[q]
           /\ cancelled'[q] = cancelled[q] /\ book'[q] = book[q]
           /\ handler'[q] = handler[q] /\ delivery'[q] = delivery[q] /\ entry'[q] = entry[q],
         Loaded(p)', Ready(p)'
  PROVE  HandoverInv'
<1>1. StoredBooks' /\ NoneHeld'
  BY StillStores DEF HandoverInv
<1>2. ASSUME NEW q \in Process \ {p} PROVE Loaded(q)' /\ Ready(q)'
  <2>1. Loaded(q) /\ Ready(q)
    BY DEF HandoverInv
  <2>2. /\ stage'[q] = stage[q] /\ checkpoint'[q] = checkpoint[q] /\ book'[q] = book[q]
        /\ log' = log /\ (Clean' => Clean)
    OBVIOUS
  <2>3. Loaded(q)'
    BY <2>1, <2>2 DEF Loaded, Holds
  <2>4. Ready(q)'
    BY <2>1, SoundAside DEF Ready
  <2>5. QED
    BY <2>3, <2>4
<1>3. \A q \in Process : Loaded(q)' /\ Ready(q)'
  BY <1>2
<1>4. QED
  BY <1>1, <1>3 DEF HandoverInv

\* The same, in terms of the functions that the step changes.
LEMMA RunChanges ==
  ASSUME HandoverInv, IInv', LogKnown', NEW p \in Process,
         UNCHANGED <<sent, log, eventLog, snapshot, readModel, entry>>,
         stage' = stage \/ \E s : stage' = [stage EXCEPT ![p] = s],
         checkpoint' = checkpoint
           \/ \E n \in 0..Len(log) : checkpoint' = [checkpoint EXCEPT ![p] = n],
         cancelled' = cancelled \/ \E b \in BOOLEAN : cancelled' = [cancelled EXCEPT ![p] = b],
         book' = book \/ \E b \in Seq(Command) : book' = [book EXCEPT ![p] = b],
         handler' = handler \/ \E s : handler' = [handler EXCEPT ![p] = s],
         delivery' = delivery \/ \E c : delivery' = [delivery EXCEPT ![p] = c],
         held' = held \/ held' = [held EXCEPT ![p] = Nobody],
         dlq' = dlq \/ (delivery[p] \in Command /\ dlq' = dlq \cup {delivery[p]}),
         leader' \in {leader, p, Nobody},
         crashes' = crashes \/ (crashes < MaxCrashes /\ crashes' = crashes + 1),
         failures' = failures \/ (failures < MaxFailures /\ failures' = failures + 1),
         doubts' = doubts \/ (doubts < MaxDoubts /\ doubts' = doubts + 1),
         DOMAIN stage = Process,
         Loaded(p)', Ready(p)'
  PROVE  HandoverInv'
<1>1. RestTypes'
  <2>1. leader' \in Process \cup {leader, Nobody}
    OBVIOUS
  <2>2. book' = book \/ \E q \in Process, b \in Seq(Command) : book' = [book EXCEPT ![q] = b]
    OBVIOUS
  <2>3. held' = held \/ \E q \in Process : held' = [held EXCEPT ![q] = Nobody]
    OBVIOUS
  <2>4. dlq' = dlq \/ \E q \in Process : delivery[q] \in Command /\ dlq' = dlq \cup {delivery[q]}
    OBVIOUS
  <2>5. QED
    BY <2>1, <2>2, <2>3, <2>4, StillLogTypes DEF HandoverInv
<1>2. PromiseInv'
  BY DEF HandoverInv, PromiseInv
<1>3. Clean' => Clean
  BY DEF HandoverInv, IInv, Shape, Clean
<1>4. checkpoint' \in [Process -> 0..Len(log)] /\ cancelled' \in [Process -> BOOLEAN]
  BY DEF HandoverInv
<1>5. \A q \in Process \ {p} :
        /\ stage'[q] = stage[q] /\ checkpoint'[q] = checkpoint[q]
        /\ cancelled'[q] = cancelled[q] /\ book'[q] = book[q]
        /\ handler'[q] = handler[q] /\ delivery'[q] = delivery[q] /\ entry'[q] = entry[q]
  BY DEF HandoverInv, RestTypes, IInv, Shape
<1>6. held' = held \/ \E q \in Process : held' = [held EXCEPT ![q] = Nobody]
  OBVIOUS
<1>7. QED
  BY <1>1, <1>2, <1>3, <1>4, <1>5, <1>6, RunKeeps

\* A worker without a delivery in hand is at rest.
LEMMA AtRest ==
  ASSUME IInv, KeyOutlivesRun, NEW p \in Process, stage[p] # "consuming"
  PROVE  ~consuming[p] /\ delivery[p] = Nobody /\ handler[p] = "idle"
BY DEF IInv, OneTurn, KeyOutlivesRun

\* The steps of service.Run around its consumer, but for Connect.
LEMMA RunLeavesMessages ==
  ASSUME HandoverInv, KeyOutlivesRun, NEW p \in Process,
         QuietStores, UNCHANGED consuming, failures' \in Nat
  PROVE  IInv' /\ LogKnown' /\ UNCHANGED <<sent, log, eventLog, snapshot, readModel, entry, handler, delivery, dlq, held>>
<1>1. UNCHANGED <<request, status, sent, queue, dlq, delivery, handler, held, log, eventLog, snapshot,
                  readModel, entry>>
  BY DEF QuietStores, apiVars, brokerVars, storeVars
<1>2. IInv'
  BY <1>1, TurnKeepsInv DEF HandoverInv, IInv, Shape, OneTurn
<1>3. LogKnown'
  BY <1>1, OthersKnow DEF HandoverInv, IInv, Shape
<1>4. QED
  BY <1>1, <1>2, <1>3

LEMMA QuietRunSteps ==
  ASSUME HandoverInv, RunShape, KeyOutlivesRun, NEW p \in Process,
         \/ Restart(p) \/ StartAgain(p) \/ Acquire(p) \/ NoticeLoss(p) \/ Signal(p) \/ Release(p)
  PROVE  HandoverInv'
<1>1. /\ QuietStores /\ UNCHANGED <<consuming, crashes, doubts>>
      /\ failures' = failures \/ (failures < MaxFailures /\ failures' = failures + 1)
      /\ leader' \in {leader, p, Nobody}
      /\ book' = book \/ book' = [book EXCEPT ![p] = <<>>]
      /\ checkpoint' = checkpoint \/ checkpoint' = [checkpoint EXCEPT ![p] = 0]
      /\ \/ /\ UNCHANGED <<stage, checkpoint, book>>
            /\ cancelled' = [cancelled EXCEPT ![p] = TRUE]
         \/ /\ \E s \in {"waiting", "recovering", "stopped", "down"} :
                 stage' = [stage EXCEPT ![p] = s]
            /\ cancelled' = cancelled \/ cancelled' = [cancelled EXCEPT ![p] = FALSE]
  BY DEF Restart, StartAgain, Boot, Acquire, NoticeLoss, Signal, Release, ReleaseKey, EndRun,
         Enter, faultVars
<1>2. failures' \in Nat
  BY <1>1 DEF HandoverInv, IInv, Shape
<1>3. /\ IInv' /\ LogKnown'
      /\ UNCHANGED <<sent, log, eventLog, snapshot, readModel, entry, handler, delivery, dlq, held>>
  BY <1>1, <1>2, RunLeavesMessages
<1>4. Loaded(p)' /\ Ready(p)'
  <2>1. CASE /\ UNCHANGED <<stage, checkpoint, book>>
             /\ cancelled' = [cancelled EXCEPT ![p] = TRUE]
    <3>1. cancelled'[p]
      BY <2>1 DEF HandoverInv
    <3>2. Clean' => Clean
      BY <1>1 DEF HandoverInv, IInv, Shape, Clean
    <3>3. QED
      BY <1>3, <2>1, <3>1, <3>2 DEF HandoverInv, Loaded, Ready, Holds
  <2>2. CASE \E s \in {"waiting", "recovering", "stopped", "down"} :
               stage' = [stage EXCEPT ![p] = s]
    BY <2>2 DEF RunShape, Loaded, Ready
  <2>3. QED
    BY <1>1, <2>1, <2>2
<1>5. 0 \in 0..Len(log) /\ <<>> \in Seq(Command)
  BY LenProperties, EmptySeq DEF HandoverInv, IInv, Shape
<1>6. /\ stage' = stage \/ \E s : stage' = [stage EXCEPT ![p] = s]
      /\ checkpoint' = checkpoint
           \/ \E n \in 0..Len(log) : checkpoint' = [checkpoint EXCEPT ![p] = n]
      /\ cancelled' = cancelled \/ \E b \in BOOLEAN : cancelled' = [cancelled EXCEPT ![p] = b]
      /\ book' = book \/ \E b \in Seq(Command) : book' = [book EXCEPT ![p] = b]
  BY <1>1, <1>5
<1>7. QED
  BY <1>1, <1>3, <1>4, <1>6, RunChanges DEF RunShape

\* The recovery: the snapshot, the commands after it, the consumer.
LEMMA RecoverySteps ==
  ASSUME HandoverInv, RunShape, KeyOutlivesRun, NEW p \in Process,
         LoadSnapshot(p) \/ ReplayRest(p) \/ Connect(p)
  PROVE  HandoverInv'
<1>1. /\ QuietStores
      /\ UNCHANGED <<leader, crashes, failures, doubts, cancelled>>
      /\ stage[p] \in {"recovering", "replaying", "connecting"}
      /\ \E s : stage' = [stage EXCEPT ![p] = s]
  BY DEF LoadSnapshot, ReplayRest, Connect, Enter, faultVars
<1>2. /\ UNCHANGED <<request, status, sent, queue, dlq, delivery, handler, held, log, eventLog,
                     snapshot, readModel, entry>>
      /\ Clean' => Clean
  BY <1>1 DEF QuietStores, apiVars, brokerVars, storeVars, Clean
<1>3. /\ ~consuming[p] /\ delivery[p] = Nobody /\ handler[p] = "idle"
      /\ handler[p] \notin Executed \cup Logged
  BY <1>1, AtRest DEF HandoverInv, Executed, Logged
<1>4. failures' \in Nat /\ Loaded(p) /\ Ready(p) /\ DOMAIN stage = Process
      /\ log \in Seq(Command) /\ Len(log) \in Nat
  BY <1>1, LenProperties DEF HandoverInv, IInv, Shape, RunShape
<1>5. CASE LoadSnapshot(p)
  <2>1. /\ stage' = [stage EXCEPT ![p] = "replaying"] /\ UNCHANGED consuming
        /\ checkpoint' = [checkpoint EXCEPT ![p] = snapshot.id]
        /\ book' = [book EXCEPT ![p] = snapshot.book]
    BY <1>5 DEF LoadSnapshot, Enter
  <2>2. snapshot.id \in 0..Len(log) /\ snapshot.book \in Seq(Command)
    BY DEF HandoverInv, RestTypes
  <2>3. IInv' /\ LogKnown'
    BY <1>1, <1>4, <2>1, RunLeavesMessages
  <2>4. checkpoint'[p] = snapshot.id /\ book'[p] = snapshot.book
    BY <2>1 DEF HandoverInv, RestTypes
  <2>5. Loaded(p)'
    BY <1>2, <2>4 DEF HandoverInv, StoredBooks, Loaded, Holds
  <2>6. Ready(p)'
    BY <1>4, <2>1 DEF Ready
  <2>7. QED
    BY <1>1, <1>2, <1>4, <2>1, <2>2, <2>3, <2>5, <2>6, RunChanges
<1>6. CASE ReplayRest(p)
  <2> DEFINE new == ApplyAll(book[p], SubSeq(log, checkpoint[p] + 1, Len(log)))
  <2>1. /\ stage[p] = "replaying" /\ stage' = [stage EXCEPT ![p] = "connecting"]
        /\ UNCHANGED <<consuming, checkpoint>>
        /\ book' = [book EXCEPT ![p] = new]
    BY <1>6 DEF ReplayRest, Enter
  <2>2. /\ book[p] \in Seq(Command) /\ checkpoint[p] \in 0..Len(log)
        /\ \A i \in 1..Len(log) : log[i] \notin Refused
    BY DEF HandoverInv, RestTypes, LogKnown, NoneThrows, Throws
  <2>3. /\ new \in Seq(Command)
        /\ \A c : Holds(book[p], c) => Holds(new, c)
        /\ \A i \in checkpoint[p] + 1..Len(log) : Holds(new, log[i])
        /\ book[p] = SubSeq(log, 1, checkpoint[p]) => new = log
    BY <1>4, <2>2, ReplayReaches
  <2>4. IInv' /\ LogKnown'
    BY <1>1, <1>4, <2>1, RunLeavesMessages
  <2> HIDE DEF new
  <2>5. book'[p] = new
    BY <2>1 DEF HandoverInv, RestTypes
  <2>6. \A i \in 1..Len(log) : Holds(new, log[i])
    <3>1. \A i \in 1..Len(log) : i \in 1..checkpoint[p] \/ i \in checkpoint[p] + 1..Len(log)
      BY <1>4, <2>2
    <3>2. QED
      BY <1>4, <2>1, <2>3, <3>1 DEF Loaded
  <2>7. Clean => new = log
    BY <1>4, <2>1, <2>3 DEF Loaded
  <2>8. BookSound(p)'
    BY <1>2, <1>3, <2>5, <2>6, <2>7 DEF BookSound, Holds
  <2>9. Loaded(p)' /\ Ready(p)'
    BY <1>4, <2>1, <2>8 DEF Loaded, Ready
  <2>10. QED
    BY <1>1, <1>2, <1>4, <2>1, <2>3, <2>4, <2>9, RunChanges
<1>7. CASE Connect(p)
  <2>1. /\ stage[p] = "connecting" /\ stage' = [stage EXCEPT ![p] = "consuming"]
        /\ consuming' = [consuming EXCEPT ![p] = TRUE]
        /\ UNCHANGED <<checkpoint, book>>
    BY <1>7 DEF Connect, Enter
  <2>2. \A q \in Process : consuming[q] => q = p
    BY <2>1 DEF KeyOutlivesRun, Leading
  <2>3. /\ consuming' \in [Process -> BOOLEAN]
        /\ \A q, r \in Process : consuming'[q] /\ consuming'[r] => q = r
        /\ \A q \in Process : delivery[q] # Nobody => consuming'[q]
    BY <2>1, <2>2 DEF HandoverInv, IInv, Shape, OneTurn
  <2>4. IInv'
    BY <1>2, <1>4, <2>3, TurnKeepsInv DEF HandoverInv
  <2>5. LogKnown'
    BY <1>2, OthersKnow DEF HandoverInv, IInv, Shape
  <2>6. Loaded(p)' /\ Ready(p)'
    BY <1>1, <1>2, <1>4, <2>1, SoundAside DEF Loaded, Ready
  <2>7. QED
    BY <1>1, <1>2, <1>4, <2>1, <2>4, <2>5, <2>6, RunChanges
<1>8. QED
  BY <1>5, <1>6, <1>7

\* A delivery ends, or there is none to end.
LEMMA GoDepartures ==
  ASSUME IInv, KeyOutlivesRun, NEW p \in Process,
         \/ RejectForeign(p) \/ RejectionFails(p) \/ LeadershipLost(p) \/ Done(p)
         \/ ConnectionLost(p) \/ GiveUp(p) \/ GoCrash(p)
  PROVE  Settles(p) \/ Returns(p) \/ Leaves(p)
<1>1. handler[p] # "idle" => delivery[p] # Nobody
  BY DEF IInv, OneTurn
<1>2. CASE RejectForeign(p) \/ RejectionFails(p)
  BY <1>1, <1>2 DEF RejectForeign, RejectionFails, DeadLetter, At, Settles, Parts, apiVars,
                    storeVars
<1>3. CASE LeadershipLost(p)
  <2>1. CASE HandBack(p)
    BY <1>1, <1>3, <2>1 DEF LeadershipLost, Leave, HandBack, NackAndRequeue, At, Returns, Parts,
                            apiVars, storeVars
  <2>2. CASE AcknowledgeLast(p)
    BY <1>1, <1>3, <2>2 DEF LeadershipLost, Leave, AcknowledgeLast, EndDelivery, At, Settles,
                            Parts, apiVars, storeVars
  <2>3. QED
    BY <1>3, <2>1, <2>2 DEF LeadershipLost
<1>4. CASE Done(p) \/ ConnectionLost(p)
  BY <1>4 DEF Done, ConnectionLost, Abandon, Leave, Returns, Leaves, Parts, apiVars, storeVars
<1>5. CASE GiveUp(p)
  <2>1. delivery[p] = Nobody /\ handler[p] = "idle"
    BY <1>5, AtRest DEF GiveUp
  <2>2. handler' = [handler EXCEPT ![p] = "idle"]
    BY <1>5, <2>1 DEF GiveUp, IInv, Shape
  <2>3. QED
    BY <1>5, <2>1, <2>2 DEF GiveUp, Leave, GoTo, Leaves, Parts, apiVars, brokerVars, storeVars
<1>6. CASE GoCrash(p)
  BY <1>6 DEF GoCrash, LoseProcess, LoseMemory, Returns, Leaves, Parts, apiVars, storeVars
<1>7. QED
  BY <1>2, <1>3, <1>4, <1>5, <1>6

\* The ends of a run, with whatever is in hand.
LEMMA EndingSteps ==
  ASSUME HandoverInv, RunShape, KeyOutlivesRun, NEW p \in Process,
         \/ LeadershipLost(p) \/ Done(p) \/ ConnectionLost(p) \/ GiveUp(p) \/ GoCrash(p)
  PROVE  HandoverInv'
<1>1. /\ UNCHANGED <<sent, log, eventLog, snapshot, readModel, status, entry, dlq, leader>>
      /\ \E s \in {"leaving", "down"} : stage' = [stage EXCEPT ![p] = s]
      /\ book' = book \/ book' = [book EXCEPT ![p] = <<>>]
      /\ held' = held \/ held' = [held EXCEPT ![p] = Nobody]
      /\ checkpoint' = checkpoint \/ checkpoint' = [checkpoint EXCEPT ![p] = 0]
      /\ \E b \in BOOLEAN : cancelled' = [cancelled EXCEPT ![p] = b]
      /\ handler' = handler \/ handler' = [handler EXCEPT ![p] = "idle"]
      /\ delivery' = delivery \/ delivery' = [delivery EXCEPT ![p] = Nobody]
  BY DEF LeadershipLost, HandBack, NackAndRequeue, Requeue, AcknowledgeLast, EndDelivery, Done,
         ConnectionLost, Abandon, GiveUp, Leave, GoCrash, LoseProcess, LoseMemory, EndRun, Enter,
         Settle, GoTo, apiVars, brokerVars, storeVars
<1>2. /\ crashes' = crashes \/ (crashes < MaxCrashes /\ crashes' = crashes + 1)
      /\ failures' = failures \/ (failures < MaxFailures /\ failures' = failures + 1)
      /\ doubts' = doubts \/ (doubts < MaxDoubts /\ doubts' = doubts + 1)
  BY DEF LeadershipLost, HandBack, AcknowledgeLast, EndDelivery, CheckSaysNo, Done,
         SaysNo, ConnectionLost, Abandon, GiveUp, Errs, GoCrash, LoseProcess, LoseMemory
<1>3. Settles(p) \/ Returns(p) \/ Leaves(p)
  BY GoDepartures DEF HandoverInv
<1>4. failures' \in Nat
  BY <1>2 DEF HandoverInv, IInv, Shape
<1>5. IInv'
  BY <1>1, <1>3, <1>4, KindKeepsInv DEF HandoverInv
<1>6. handler'[p] = "idle"
  BY <1>3 DEF Settles, Returns, Leaves, Parts, GoTo, HandoverInv, IInv, Shape
<1>7. LogKnown'
  <2>1. \A q \in Process \ {p} : handler'[q] = handler[q] /\ delivery'[q] = delivery[q]
    BY <1>1 DEF HandoverInv, IInv, Shape
  <2>2. QED
    BY <1>1, <1>6, <2>1, ForgettingKnows DEF HandoverInv
<1>8. Loaded(p)' /\ Ready(p)'
  BY <1>1 DEF RunShape, Loaded, Ready
<1>9. 0 \in 0..Len(log) /\ <<>> \in Seq(Command) /\ DOMAIN stage = Process
  BY LenProperties, EmptySeq DEF HandoverInv, IInv, Shape, RunShape
<1>10. /\ stage' = stage \/ \E s : stage' = [stage EXCEPT ![p] = s]
       /\ checkpoint' = checkpoint
            \/ \E n \in 0..Len(log) : checkpoint' = [checkpoint EXCEPT ![p] = n]
       /\ book' = book \/ \E b \in Seq(Command) : book' = [book EXCEPT ![p] = b]
       /\ handler' = handler \/ \E s : handler' = [handler EXCEPT ![p] = s]
       /\ delivery' = delivery \/ \E c : delivery' = [delivery EXCEPT ![p] = c]
  BY <1>1, <1>9
<1>11. QED
  BY <1>1, <1>2, <1>5, <1>7, <1>8, <1>9, <1>10, RunChanges

\* A delivery begins or is settled, or a call of its handler fails.
LEMMA MessageSteps ==
  ASSUME HandoverInv, RunShape, KeyOutlivesRun, NEW p \in Process,
         UNCHANGED <<runVars, runFaults>>,
         \/ Deliver(p) \/ Acknowledge(p) \/ RejectForeign(p) \/ RejectionFails(p)
         \/ HandlerFails(p)
  PROVE  HandoverInv'
<1>1. /\ UNCHANGED <<sent, log, eventLog, snapshot, readModel, entry, leader, book, held,
                     stage, checkpoint, cancelled, crashes, doubts>>
      /\ status' \in {status, [status EXCEPT ![delivery[p]] = "REJECTED"]}
      /\ \E s \in {"idle", "checkLeadership", "ack", "reject"} :
           handler' = [handler EXCEPT ![p] = s]
      /\ delivery' = delivery \/ \E c : delivery' = [delivery EXCEPT ![p] = c]
      /\ dlq' = dlq \/ (handler[p] # "idle" /\ dlq' = dlq \cup {delivery[p]})
      /\ failures' = failures \/ (failures < MaxFailures /\ failures' = failures + 1)
  BY DEF Deliver, Acknowledge, EndDelivery, RejectForeign, RejectionFails, HandlerFails,
         Errs, Rejection, DeadLetter, Settle, At, GoTo, apiVars, brokerVars, storeVars,
         faultVars, runVars
<1>2. /\ handler \in [Process -> HandlerStep] /\ failures \in Nat
      /\ delivery \in [Process -> Command \cup {Nobody}]
      /\ handler[p] # "idle" => delivery[p] \in Command
      /\ status \in [Command -> CommandStatus]
  BY DEF HandoverInv, IInv, Shape, OneTurn
<1>3. /\ status' \in [Command -> CommandStatus]
      /\ \A c \in Command : status'[c] = "PROCESSED" => status[c] = "PROCESSED"
  BY <1>1, <1>2 DEF CommandStatus
<1>4. IInv'
  <2>1. CASE Deliver(p) \/ Acknowledge(p)
    <3>1. [Next]_vars
      BY <2>1 DEF Next, HandlerNext, QuietStep
    <3>2. QED
      BY <3>1, ShapeKeeps, StepKeeps DEF HandoverInv, IInv
  <2>2. CASE RejectForeign(p) \/ RejectionFails(p)
    BY <1>1, <1>2, <1>3, <2>2, GoDepartures, KindKeepsInv DEF HandoverInv
  <2>3. CASE HandlerFails(p)
    <3>1. /\ handler[p] # "idle"
          /\ \E s \in {"ack", "reject"} : GoTo(p, s)
          /\ UNCHANGED <<request, sent, queue, delivery, consuming, log, eventLog>>
      BY <2>3 DEF HandlerFails, Fallible, Following, apiVars, brokerVars, storeVars
    <3>2. MovesQuietly(p)
      BY <1>2, <3>1 DEF MovesQuietly, Moves, GoTo, HandlerStep
    <3>3. QED
      BY <1>1, <1>2, <1>3, <3>2, KindKeepsInv DEF HandoverInv
  <2>4. QED
    BY <2>1, <2>2, <2>3
<1>5. LogKnown'
  <2>1. /\ handler'[p] \in {"idle", "checkLeadership", "ack", "reject"}
        /\ \A q \in Process \ {p} : handler'[q] = handler[q] /\ delivery'[q] = delivery[q]
    BY <1>1, <1>2
  <2>2. QED
    BY <1>1, <1>3, <2>1, ForgettingKnows DEF HandoverInv
<1>6. Clean' => Clean
  BY <1>1, <1>2 DEF Clean
<1>7. Loaded(p)'
  BY <1>1, <1>6 DEF HandoverInv, Loaded, Holds
<1>8. Ready(p)'
  <2> SUFFICES ASSUME stage[p] \in {"connecting", "consuming"}, ~cancelled[p]
               PROVE  BookSound(p)'
    BY <1>1 DEF Ready
  <2>1. handler'[p] \notin Executed \cup Logged
    BY <1>1, <1>2 DEF Executed, Logged
  <2>2. Clean' => handler[p] \notin Executed
    <3>1. CASE HandlerFails(p)
      BY <1>2, <3>1 DEF HandlerFails, Errs, Clean
    <3>2. CASE ~HandlerFails(p)
      BY <1>2, <3>2 DEF Deliver, Acknowledge, RejectForeign, RejectionFails, At, Executed
    <3>3. QED
      BY <3>1, <3>2
  <2>3. BookSound(p)
    BY DEF HandoverInv, Ready
  <2>4. QED
    BY <1>1, <1>6, <2>1, <2>2, <2>3, SoundAtRest
<1>9. dlq' = dlq \/ (delivery[p] \in Command /\ dlq' = dlq \cup {delivery[p]})
  BY <1>1, <1>2
<1>10. handler' = handler \/ \E s : handler' = [handler EXCEPT ![p] = s]
  BY <1>1
<1>11. QED
  BY <1>1, <1>4, <1>5, <1>7, <1>8, <1>9, <1>10, RunChanges DEF RunShape

\* The handler's calls to the stores, made with a context that lives: no other worker is
\* on its way to consume.
LEMMA StoringSteps ==
  ASSUME HandoverInv, RunShape, KeyOutlivesRun, NEW p \in Process,
         UNCHANGED <<runVars, runFaults>>, ~cancelled[p], StoreStep(p)
  PROVE  HandoverInv'
<1>1. handler[p] # "idle" /\ UNCHANGED <<stage, checkpoint, cancelled>>
  BY DEF StoreStep, Accept, SkipProcessed, Execute, StillLeads, AppendCommand, AppendEvents,
         SaveReadModel, SaveSnapshot, SaveProcessed, SaveSkipped, SaveRejected, At, runVars
<1>2. delivery[p] \in Command /\ consuming[p] /\ stage[p] = "consuming" /\ leader = p
  BY <1>1 DEF HandoverInv, IInv, Shape, OneTurn, KeyOutlivesRun, Leading
<1>3. \A q \in Process : stage'[q] \in {"replaying", "connecting", "consuming"} => q = p
  BY <1>1, <1>2 DEF KeyOutlivesRun, Leading
<1>4. BookSound(p)
  BY <1>2 DEF HandoverInv, Ready
<1>5. StoredBooks' /\ NoneHeld' /\ BookSound(p)'
  BY <1>2, <1>4, HandlerStores DEF HandoverInv, IInv, Shape
<1>6. RestTypes'
  BY <1>2, HandlerTypes DEF HandoverInv, IInv, Shape
<1>7. IInv' /\ [Promise!Next]_(Promise!vars)
  <2>1. [Next]_vars
    BY DEF Next, HandlerNext, QuietStep
  <2>2. QED
    BY <2>1, ShapeKeeps, StepKeeps DEF HandoverInv, IInv
<1>8. PromiseInv' /\ LogKnown'
  BY <1>7, PromiseKeeps, HandlerKnows DEF HandoverInv
<1>9. \A q \in Process : Loaded(q)' /\ Ready(q)'
  BY <1>1, <1>2, <1>3, <1>5 DEF Loaded, Ready
<1>10. checkpoint' \in [Process -> 0..Len(log')]
  <2>1. log' = log \/ log' = Append(log, delivery[p])
    BY DEF StoreStep, Accept, SkipProcessed, Execute, StillLeads, AppendCommand, AppendEvents,
           SaveReadModel, SaveSnapshot, SaveProcessed, SaveSkipped, SaveRejected, storeVars
  <2>2. log \in Seq(Command) /\ Len(log) \in Nat
    BY LenProperties DEF HandoverInv, IInv, Shape
  <2>3. Len(log') = Len(log) \/ Len(log') = Len(log) + 1
    BY <1>2, <2>1, <2>2, AppendProperties
  <2>4. 0..Len(log) \subseteq 0..Len(log')
    BY <2>2, <2>3
  <2>5. QED
    BY <1>1, <2>4 DEF HandoverInv
<1>11. QED
  BY <1>1, <1>5, <1>6, <1>7, <1>8, <1>9, <1>10 DEF HandoverInv

\* The steps that are no worker's: the API, a key that expires after its holder's run.
LEMMA StepsApart ==
  ASSUME HandoverInv,
         \/ Expire
         \/ Api /\ UNCHANGED <<runVars, runFaults>>
         \/ UNCHANGED goVars
  PROVE  HandoverInv'
<1>1. UNCHANGED <<log, eventLog, snapshot, readModel, entry, book, held, handler, delivery,
                  consuming, stage, checkpoint, cancelled>>
  BY DEF Expire, LoseKey, QuietStores, Api, SaveQueued, Publish, PublishFails, goVars, vars,
         apiVars, brokerVars, storeVars, processVars, runVars
<1>2. failures' = failures \/ failures' = failures + 1
  BY DEF Expire, LoseKey, Api, SaveQueued, Publish, PublishFails, goVars, vars, faultVars
<1>3. Clean' => Clean
  BY <1>2 DEF HandoverInv, IInv, Shape, Clean
<1>4. RestTypes'
  <2>1. CASE Expire
    BY <1>1, <2>1 DEF Expire, LoseKey, QuietStores, brokerVars, faultVars, HandoverInv, RestTypes
  <2>2. CASE ~Expire
    BY <2>2, OtherTypes DEF HandoverInv, goVars
  <2>3. QED
    BY <2>1, <2>2
<1>5. IInv' /\ [Promise!Next]_(Promise!vars)
  <2>1. CASE Expire
    <3>1. UNCHANGED <<request, status, sent, queue, delivery, handler, log, eventLog, failures,
                      consuming>>
      BY <2>1 DEF Expire, LoseKey, QuietStores, apiVars, brokerVars, storeVars, faultVars
    <3>2. QED
      BY <3>1, TurnKeepsInv DEF HandoverInv, IInv, Shape, OneTurn, Promise!vars
  <2>2. CASE ~Expire
    <3>1. [Next]_vars
      BY <2>2 DEF Next, goVars
    <3>2. QED
      BY <3>1, ShapeKeeps, StepKeeps DEF HandoverInv, IInv
  <2>3. QED
    BY <2>1, <2>2
<1>6. LogKnown'
  <2>1. status' = status \/ \E c \in Command : status' = [status EXCEPT ![c] = "QUEUED"]
    BY DEF Expire, LoseKey, QuietStores, Api, SaveQueued, Publish, PublishFails, goVars, vars,
           storeVars
  <2>2. QED
    BY <1>1, <2>1, OthersKnow DEF HandoverInv, IInv, Shape
<1>7. StoredBooks' /\ NoneHeld'
  BY <1>1, <1>3, StillStores DEF HandoverInv
<1>8. ASSUME NEW q \in Process PROVE Loaded(q)' /\ Ready(q)'
  <2>1. Loaded(q) /\ Ready(q)
    BY DEF HandoverInv
  <2>2. Loaded(q)'
    BY <1>1, <1>3, <2>1 DEF Loaded, Holds
  <2>3. Ready(q)'
    BY <1>1, <1>3, <2>1, SoundAside DEF Ready
  <2>4. QED
    BY <2>2, <2>3
<1>9. PromiseInv'
  BY <1>5, PromiseKeeps DEF HandoverInv
<1>10. QED
  BY <1>1, <1>4, <1>5, <1>6, <1>7, <1>8, <1>9 DEF HandoverInv

\* Expiries of a key in use are counted, and none is taken back.
LEMMA ExpiriesCount ==
  ASSUME RunShape, [GoNext]_goVars
  PROVE  expiries' = expiries \/ (expiries' = expiries + 1 /\ ExpireInUse)
<1>1. ASSUME NEW p \in Process, RunStep(p) \/ ConsumerStep(p) \/ Fault(p) \/ StartAgain(p)
      PROVE  expiries' = expiries
  BY <1>1, RunSteps DEF RunsOn, LosesDelivery, runFaults
<1>2. QED
  BY <1>1 DEF GoNext, GoStep, Expire, ExpireInUse, goVars, runFaults

LEMMA HandoverKeeps ==
  ASSUME RInv, [GoNext]_goVars
  PROVE  RInv'
<1>1. GInv' /\ RunShape /\ expiries \in Nat
  BY GoStepKeeps DEF RInv, GInv, RunShape
<1>2. ASSUME expiries' = 0 PROVE HandoverInv'
  <2>1. expiries = 0 /\ ~ExpireInUse
    BY <1>1, <1>2, ExpiriesCount DEF ExpireInUse
  <2>2. HandoverInv /\ KeyOutlivesRun
    BY <2>1 DEF RInv, GInv
  <2>3. ASSUME NEW p \in Process, HandlerGoesOn(p) PROVE HandoverInv'
    BY <1>1, <2>2, <2>3, StoringSteps, MessageSteps DEF HandlerGoesOn, ContextIsLive
  <2>4. ASSUME NEW p \in Process,
               \/ Deliver(p) /\ UNCHANGED <<runVars, runFaults>>
               \/ RejectForeign(p) \/ RejectionFails(p) \/ HandlerFails(p)
        PROVE  HandoverInv'
    <3>1. UNCHANGED <<runVars, runFaults>>
      BY <2>4 DEF RejectForeign, RejectionFails, HandlerFails
    <3>2. QED
      BY <1>1, <2>2, <2>4, <3>1, MessageSteps
  <2>5. ASSUME NEW p \in Process, RunStep(p) \/ ConsumerStep(p) \/ Fault(p) \/ StartAgain(p)
        PROVE  HandoverInv'
    <3>1. ~LosesDelivery(p) /\ ~SettleFails(p) /\ ~CrashEmptyHanded(p)
      BY <2>2 DEF KeyOutlivesRun, Leading, LosesDelivery, SettleFails, CrashEmptyHanded
    <3>2. QED
      BY <1>1, <2>2, <2>3, <2>4, <2>5, <3>1, QuietRunSteps, RecoverySteps, EndingSteps
         DEF RunStep, ConsumerStep, Fault
  <2>6. QED
    BY <2>1, <2>2, <2>4, <2>5, StepsApart DEF GoNext, GoStep
<1>3. QED
  BY <1>1, <1>2 DEF RInv

LEMMA HandoverInvariance == GoSpec => []RInv
<1>1. GoInit => RInv
  <2> SUFFICES ASSUME GoInit PROVE RInv
    OBVIOUS
  <2>1. Init
    BY DEF GoInit
  <2>2. IInv /\ StatusInv /\ ReplayInv /\ PromiseInv
    BY <2>1, InitIsInvariant, StatusInitially, ReplayInitially, PromiseInitially
  <2>3. GInv
    BY DEF GoInit, Init, GInv, RunShape, KeyOutlivesRun, Leading
  <2>4. Len(log) \in Nat
    BY <2>2, LenProperties DEF IInv, Shape
  <2>5. HandoverInv
    BY <2>2, <2>4 DEF GoInit, HandoverInv, ReplayInv, StatusInv, Loaded, Ready
  <2>6. QED
    BY <2>3, <2>5 DEF RInv
<1>2. QED
  BY <1>1, HandoverKeeps, PTL DEF GoSpec

\* As long as no key expires in use, a partition passes from one Go worker to the next
\* without harm, through signals, crashes, lost connections and failing calls: its log and
\* its event stream keep the queue's order and repeat nothing, and a recovery builds a book
\* with every PROCESSED command in it, half-applied commands included (service.Run,
\* Processor.Handle).
THEOREM GoHandovers ==
  GoSpec => [](expiries = 0 => Promise!Once /\ Promise!InOrder /\ ProcessedSurvives)
<1>1. HandoverInv => Promise!Once /\ Promise!InOrder
  BY PromiseComesTo DEF HandoverInv
<1>2. HandoverInv => ProcessedSurvives
  BY LoggedSurvives DEF HandoverInv
<1>3. RInv => (expiries = 0 => Promise!Once /\ Promise!InOrder /\ ProcessedSurvives)
  BY <1>1, <1>2 DEF RInv
<1>4. QED
  BY <1>3, HandoverInvariance, PTL

\* Provided that no command throws after it has changed the book, the snapshots that the
\* workers hand on are replays of the log too, as long as no call has failed.
THEOREM HandoversAlwaysSafe ==
  ASSUME HalfApplied = {}
  PROVE  GoSpec => []HandoversAreSafe
<1>1. HandoverInv => SnapshotIsReplay
  BY DEF HandoverInv, StoredBooks, Clean, SnapshotIsReplay
<1>2. (expiries = 0 => Promise!Once /\ Promise!InOrder /\ ProcessedSurvives) /\ RInv
        => HandoversAreSafe
  BY <1>1 DEF RInv, HandoversAreSafe
<1>3. QED
  BY <1>2, HandoverInvariance, GoHandovers, PTL

-----------------------------------------------------------------------------
(* What the end of a worker costs *)

\* The worker's command is in hand and its context is gone, or it has lost its key and
\* its heartbeat has not noticed: it may still dead-letter one command.
Doomed(p) ==
  \/ cancelled[p] /\ handler[p] \notin {"idle", "checkLeadership"}
  \/ ~cancelled[p] /\ stage[p] \in Leading /\ leader # p

DoomedWorkers == {p \in Process : Doomed(p)}

CostShape ==
  /\ DOMAIN stage = Process /\ DOMAIN handler = Process /\ DOMAIN delivery = Process
  /\ consuming \in [Process -> BOOLEAN] /\ cancelled \in [Process -> BOOLEAN]
  /\ stops \in Nat /\ expiries \in Nat /\ failures \in Nat

\* Where a handler is between its first check and its end, its worker consumes, and its
\* command is one of the partition's.
InPlace(p) ==
  /\ consuming[p] => stage[p] = "consuming"
  /\ handler[p] # "idle" => consuming[p]
  /\ handler[p] \notin {"idle", "checkLeadership"} => delivery[p] \notin Foreign

\* Each signal and each key that expires dooms one worker; a doomed worker that
\* dead-letters its command is doomed no more.
Paid ==
  /\ IsFiniteSet(dlq \ Foreign) /\ IsFiniteSet(DoomedWorkers)
  /\ Cardinality(dlq \ Foreign) + Cardinality(DoomedWorkers) <= stops + expiries

CostInv ==
  /\ CostShape
  /\ \A p \in Process : InPlace(p)
  /\ failures = 0 => Paid

\* What a step of worker p may change, and for no other worker.
OnlyOf(p) ==
  /\ \A q \in Process \ {p} :
       /\ stage'[q] = stage[q] /\ consuming'[q] = consuming[q] /\ cancelled'[q] = cancelled[q]
       /\ handler'[q] = handler[q] /\ delivery'[q] = delivery[q]
       /\ leader' = q <=> leader = q
  /\ expiries' = expiries
  /\ failures' = failures \/ failures' = failures + 1

\* How worker p spends: nothing, the cost of its end, or a signal.
Spends(p) ==
  \/ /\ Doomed(p)' => Doomed(p)
     /\ dlq' \ Foreign = dlq \ Foreign
     /\ stops' = stops
  \/ /\ Doomed(p) /\ ~Doomed(p)'
     /\ dlq' = dlq \cup {delivery[p]}
     /\ stops' = stops
  \/ dlq' = dlq /\ stops' = stops + 1

LEMMA CostAdds ==
  ASSUME Paid, stops \in Nat, expiries \in Nat,
         NEW D, NEW W, NEW n \in Nat, NEW x, NEW y,
         \/ D \subseteq dlq \ Foreign /\ W \subseteq DoomedWorkers /\ n = stops + expiries
         \/ /\ D \subseteq (dlq \ Foreign) \cup {x}
            /\ y \in DoomedWorkers /\ W \subseteq DoomedWorkers \ {y}
            /\ n = stops + expiries
         \/ /\ D \subseteq dlq \ Foreign /\ W \subseteq DoomedWorkers \cup {y}
            /\ n = stops + expiries + 1
  PROVE  IsFiniteSet(D) /\ IsFiniteSet(W) /\ Cardinality(D) + Cardinality(W) <= n
<1> DEFINE L == dlq \ Foreign
<1>1. /\ IsFiniteSet(L) /\ IsFiniteSet(DoomedWorkers)
      /\ Cardinality(L) + Cardinality(DoomedWorkers) <= stops + expiries
  BY DEF Paid
<1> HIDE DEF L
<1>2. Cardinality(L) \in Nat /\ Cardinality(DoomedWorkers) \in Nat
  BY <1>1, FS_CardinalityType
<1>3. /\ IsFiniteSet(L \cup {x}) /\ IsFiniteSet(DoomedWorkers \cup {y})
      /\ Cardinality(L \cup {x}) <= Cardinality(L) + 1
      /\ Cardinality(DoomedWorkers \cup {y}) <= Cardinality(DoomedWorkers) + 1
  <2>1. ASSUME NEW S, NEW z, IsFiniteSet(S), Cardinality(S) \in Nat
        PROVE  IsFiniteSet(S \cup {z}) /\ Cardinality(S \cup {z}) <= Cardinality(S) + 1
    BY <2>1, FS_AddElement
  <2>2. QED
    BY <1>1, <1>2, <2>1
<1>4. /\ IsFiniteSet(DoomedWorkers \ {y})
      /\ y \in DoomedWorkers => Cardinality(DoomedWorkers \ {y}) = Cardinality(DoomedWorkers) - 1
  BY <1>1, FS_RemoveElement
<1>5. \E S, T : /\ IsFiniteSet(S) /\ IsFiniteSet(T) /\ D \subseteq S /\ W \subseteq T
                /\ Cardinality(S) + Cardinality(T) <= n
  <2>1. Cardinality(L \cup {x}) \in Nat /\ Cardinality(DoomedWorkers \cup {y}) \in Nat
    BY <1>3, FS_CardinalityType
  <2>2. CASE D \subseteq L /\ W \subseteq DoomedWorkers /\ n = stops + expiries
    BY <1>1, <2>2
  <2>3. CASE /\ D \subseteq L \cup {x}
             /\ y \in DoomedWorkers /\ W \subseteq DoomedWorkers \ {y}
             /\ n = stops + expiries
    <3>1. Cardinality(L \cup {x}) + Cardinality(DoomedWorkers \ {y}) <= n
      BY <1>1, <1>2, <1>3, <1>4, <2>1, <2>3
    <3>2. QED
      BY <1>3, <1>4, <2>3, <3>1
  <2>4. CASE D \subseteq L /\ W \subseteq DoomedWorkers \cup {y} /\ n = stops + expiries + 1
    <3>1. Cardinality(L) + Cardinality(DoomedWorkers \cup {y}) <= n
      BY <1>1, <1>2, <1>3, <2>1, <2>4
    <3>2. QED
      BY <1>1, <1>3, <2>4, <3>1
  <2>5. QED
    BY <2>2, <2>3, <2>4 DEF L
<1>6. PICK S, T : /\ IsFiniteSet(S) /\ IsFiniteSet(T) /\ D \subseteq S /\ W \subseteq T
                  /\ Cardinality(S) + Cardinality(T) <= n
  BY <1>5
<1>7. /\ IsFiniteSet(D) /\ Cardinality(D) <= Cardinality(S)
      /\ IsFiniteSet(W) /\ Cardinality(W) <= Cardinality(T)
  BY <1>6, FS_Subset
<1>8. /\ Cardinality(D) \in Nat /\ Cardinality(S) \in Nat
      /\ Cardinality(W) \in Nat /\ Cardinality(T) \in Nat
  BY <1>6, <1>7, FS_CardinalityType
<1>9. QED
  BY <1>6, <1>7, <1>8

LEMMA SpendingKeeps ==
  ASSUME CostInv, CostShape', NEW p \in Process, OnlyOf(p), InPlace(p)',
         failures' = 0 => Spends(p)
  PROVE  CostInv'
<1>1. ASSUME NEW q \in Process PROVE InPlace(q)'
  <2>1. CASE q # p
    BY <2>1 DEF CostInv, InPlace, OnlyOf
  <2>2. CASE q = p
    BY <2>2 DEF InPlace
  <2>3. QED
    BY <2>1, <2>2
<1>2. ASSUME NEW q \in Process \ {p} PROVE Doomed(q)' <=> Doomed(q)
  BY DEF OnlyOf, Doomed
<1>3. ASSUME failures' = 0 PROVE Paid'
  <2>1. failures = 0 /\ Paid /\ stops \in Nat /\ expiries \in Nat
    BY <1>3 DEF CostInv, CostShape, OnlyOf
  <2>2. PICK s \in Nat : s = stops'
    BY DEF CostShape
  <2>3. PICK n \in Nat : n = s + expiries
    BY <2>1
  <2>4. n = stops' + expiries'
    BY <2>2, <2>3 DEF OnlyOf
  <2> DEFINE D == dlq' \ Foreign
             W == DoomedWorkers'
  <2>5. \/ D \subseteq dlq \ Foreign /\ W \subseteq DoomedWorkers /\ s = stops
        \/ /\ D \subseteq (dlq \ Foreign) \cup {delivery[p]}
           /\ p \in DoomedWorkers /\ W \subseteq DoomedWorkers \ {p}
           /\ s = stops
        \/ D \subseteq dlq \ Foreign /\ W \subseteq DoomedWorkers \cup {p} /\ s = stops + 1
    BY <1>2, <1>3, <2>2 DEF Spends, DoomedWorkers
  <2>6. s = stops + 1 => n = stops + expiries + 1
    BY <2>1, <2>3
  <2> HIDE DEF D, W
  <2>7. IsFiniteSet(D) /\ IsFiniteSet(W) /\ Cardinality(D) + Cardinality(W) <= n
    <3>1. CASE D \subseteq dlq \ Foreign /\ W \subseteq DoomedWorkers /\ s = stops
      BY <2>1, <2>3, <3>1, CostAdds
    <3>2. CASE /\ D \subseteq (dlq \ Foreign) \cup {delivery[p]}
               /\ p \in DoomedWorkers /\ W \subseteq DoomedWorkers \ {p}
               /\ s = stops
      BY <2>1, <2>3, <3>2, CostAdds
    <3>3. CASE D \subseteq dlq \ Foreign /\ W \subseteq DoomedWorkers \cup {p} /\ s = stops + 1
      BY <2>1, <2>6, <3>3, CostAdds
    <3>4. QED
      BY <2>5, <3>1, <3>2, <3>3
  <2>8. QED
    BY <2>4, <2>7 DEF D, W, Paid
<1>4. QED
  BY <1>1, <1>3 DEF CostInv

LEMMA CostApart ==
  ASSUME CostInv,
         UNCHANGED <<stage, consuming, cancelled, handler, delivery, dlq, stops>>,
         failures' = failures \/ failures' = failures + 1,
         \/ /\ expiries' = expiries
            /\ \A q \in Process : stage[q] \in Leading => (leader' = q <=> leader = q)
         \/ /\ expiries' = expiries + 1
            /\ \A q \in Process : leader' = q <=> leader = q /\ q # leader
  PROVE  CostInv'
<1>1. CostShape'
  BY DEF CostInv, CostShape
<1>2. ASSUME NEW q \in Process PROVE InPlace(q)'
  BY DEF CostInv, InPlace
<1>3. ASSUME failures' = 0 PROVE Paid'
  <2>1. Paid /\ stops \in Nat /\ expiries \in Nat
    BY <1>3 DEF CostInv, CostShape
  <2>2. PICK n \in Nat : n = stops + expiries'
    BY <2>1
  <2>3. \/ n = stops + expiries /\ DoomedWorkers' \subseteq DoomedWorkers
        \/ n = stops + expiries + 1 /\ DoomedWorkers' \subseteq DoomedWorkers \cup {leader}
    <3>1. CASE /\ expiries' = expiries
               /\ \A q \in Process : stage[q] \in Leading => (leader' = q <=> leader = q)
      BY <2>2, <3>1 DEF DoomedWorkers, Doomed
    <3>2. CASE /\ expiries' = expiries + 1
               /\ \A q \in Process : leader' = q <=> leader = q /\ q # leader
      <4>1. n = stops + expiries + 1
        BY <2>1, <2>2, <3>2
      <4>2. DoomedWorkers' \subseteq DoomedWorkers \cup {leader}
        BY <3>2 DEF DoomedWorkers, Doomed
      <4>3. QED
        BY <4>1, <4>2
    <3>3. QED
      BY <3>1, <3>2
  <2> DEFINE D == dlq' \ Foreign
             W == DoomedWorkers'
  <2>4. D \subseteq dlq \ Foreign
    OBVIOUS
  <2>5. \/ n = stops + expiries /\ W \subseteq DoomedWorkers
        \/ n = stops + expiries + 1 /\ W \subseteq DoomedWorkers \cup {leader}
    BY <2>3
  <2> HIDE DEF D, W
  <2>6. IsFiniteSet(D) /\ IsFiniteSet(W) /\ Cardinality(D) + Cardinality(W) <= n
    BY <2>1, <2>4, <2>5, CostAdds
  <2>7. QED
    BY <2>2, <2>6 DEF D, W, Paid
<1>4. QED
  BY <1>1, <1>2, <1>3 DEF CostInv

\* The steps of service.Run around the consumer, a signal, and the end of a process.
LEMMA RunCosts ==
  ASSUME CostInv, NEW p \in Process,
         \/ Restart(p) \/ StartAgain(p) \/ Acquire(p) \/ LoadSnapshot(p) \/ ReplayRest(p)
         \/ Connect(p) \/ NoticeLoss(p) \/ Release(p) \/ Signal(p)
  PROVE  CostInv'
<1>1. CostShape /\ InPlace(p) /\ Nobody \notin Process
  BY CommandAssumption DEF CostInv
<1>2. UNCHANGED <<handler, delivery, dlq, expiries>>
  BY DEF Restart, StartAgain, Boot, Acquire, LoadSnapshot, ReplayRest, Connect, NoticeLoss, Release,
         EndRun, Signal, QuietStores, brokerVars, runFaults
<1>3. CASE Restart(p) \/ StartAgain(p) \/ Acquire(p) \/ LoadSnapshot(p) \/ ReplayRest(p) \/ Connect(p)
  <2>1. /\ stage[p] \notin {"consuming", "leaving"}
        /\ \E s \in {"waiting", "recovering", "replaying", "connecting", "consuming"} :
             /\ stage' = [stage EXCEPT ![p] = s]
             /\ s = "consuming" <=> consuming' # consuming
        /\ consuming' = consuming \/ consuming' = [consuming EXCEPT ![p] = TRUE]
        /\ UNCHANGED <<cancelled, stops, failures>>
        /\ \/ leader = Nobody /\ leader' = p
           \/ /\ leader' = leader
              /\ stage[p] \in Leading \/ stage'[p] = "waiting"
    BY <1>1, <1>3 DEF CostShape, InPlace, Restart, StartAgain, Boot, Acquire, LoadSnapshot, ReplayRest, Connect, Enter, Leading, faultVars, runFaults
  <2>2. CostShape' /\ InPlace(p)'
    BY <1>1, <1>2, <2>1 DEF CostShape, InPlace
  <2>3. OnlyOf(p)
    BY <1>1, <1>2, <2>1 DEF CostShape, OnlyOf
  <2>4. Spends(p)
    BY <1>1, <1>2, <2>1 DEF CostShape, Spends, Doomed, Leading
  <2>5. QED
    BY <2>2, <2>3, <2>4, SpendingKeeps
<1>4. CASE NoticeLoss(p)
  <2>1. /\ stage[p] \in Leading /\ ~cancelled[p] /\ leader # p
        /\ cancelled' = [cancelled EXCEPT ![p] = TRUE]
        /\ UNCHANGED <<stage, consuming, leader, stops, failures>>
    BY <1>4 DEF NoticeLoss, Beats, faultVars, runFaults
  <2>2. CostShape' /\ InPlace(p)'
    BY <1>1, <1>2, <2>1 DEF CostShape, InPlace
  <2>3. OnlyOf(p) /\ Spends(p)
    BY <1>1, <1>2, <2>1 DEF CostShape, OnlyOf, Spends, Doomed
  <2>4. QED
    BY <2>2, <2>3, SpendingKeeps
<1>5. CASE Release(p)
  <2>1. /\ stage[p] = "leaving"
        /\ \E s \in {"stopped", "down"} : stage' = [stage EXCEPT ![p] = s]
        /\ cancelled' = [cancelled EXCEPT ![p] = FALSE]
        /\ UNCHANGED <<consuming, stops>>
        /\ leader' = leader \/ (leader = p /\ leader' = Nobody)
        /\ failures' = failures \/ failures' = failures + 1
    BY <1>5 DEF Release, ReleaseKey, EndRun, Enter, runFaults
  <2>2. CostShape' /\ InPlace(p)'
    BY <1>1, <1>2, <2>1 DEF CostShape, InPlace
  <2>3. OnlyOf(p) /\ Spends(p)
    BY <1>1, <1>2, <2>1 DEF CostShape, OnlyOf, Spends, Doomed, Leading
  <2>4. QED
    BY <2>2, <2>3, SpendingKeeps
<1>6. CASE Signal(p)
  <2>1. /\ stops' = stops + 1
        /\ UNCHANGED <<consuming, leader, failures>>
        /\ \/ stage[p] = "waiting" /\ stage' = [stage EXCEPT ![p] = "stopped"] /\ UNCHANGED cancelled
           \/ UNCHANGED stage /\ cancelled' = [cancelled EXCEPT ![p] = TRUE]
    BY <1>6 DEF Signal, Enter, faultVars
  <2>2. stops' \in Nat
    BY <1>1, <2>1 DEF CostShape
  <2>3. CostShape' /\ InPlace(p)'
    BY <1>1, <1>2, <2>1, <2>2 DEF CostShape, InPlace
  <2>4. OnlyOf(p) /\ Spends(p)
    BY <1>1, <1>2, <2>1 DEF CostShape, OnlyOf, Spends
  <2>5. QED
    BY <2>2, <2>3, <2>4, SpendingKeeps
<1>7. QED
  BY <1>3, <1>4, <1>5, <1>6

\* The ends of a run: nothing is dead-lettered.
LEMMA EndingCosts ==
  ASSUME CostInv, NEW p \in Process,
         \/ LeadershipLost(p) \/ Done(p) \/ ConnectionLost(p) \/ SettleFails(p) \/ GiveUp(p)
         \/ GoCrash(p) \/ CrashEmptyHanded(p)
  PROVE  CostInv'
<1>1. CostShape /\ InPlace(p)
  BY DEF CostInv
<1>2. /\ \E s \in {"leaving", "down"} : stage' = [stage EXCEPT ![p] = s]
      /\ consuming' = [consuming EXCEPT ![p] = FALSE]
      /\ \E b \in BOOLEAN : cancelled' = [cancelled EXCEPT ![p] = b]
      /\ delivery' = delivery \/ delivery' = [delivery EXCEPT ![p] = Nobody]
      /\ UNCHANGED <<leader, dlq, stops, expiries>>
      /\ failures' = failures \/ failures' = failures + 1
  BY DEF LeadershipLost, HandBack, NackAndRequeue, Requeue, AcknowledgeLast, EndDelivery, Done,
         ConnectionLost, Abandon, SettleFails, GiveUp, Errs, Leave, GoCrash, CrashEmptyHanded, LoseProcess, LoseMemory, EndRun, Enter,
         Settle, brokerVars, faultVars, runFaults
<1>3. \/ handler' = [handler EXCEPT ![p] = "idle"]
      \/ handler' = handler /\ handler[p] = "idle"
  <2>1. CASE GiveUp(p)
    BY <1>1, <2>1 DEF GiveUp, InPlace
  <2>2. CASE ~GiveUp(p)
    BY <2>2 DEF LeadershipLost, HandBack, AcknowledgeLast, EndDelivery, Done, ConnectionLost,
                Abandon, SettleFails, GoCrash, CrashEmptyHanded, LoseProcess, LoseMemory, GoTo
  <2>3. QED
    BY <2>1, <2>2
<1>4. CostShape' /\ InPlace(p)'
  BY <1>1, <1>2, <1>3 DEF CostShape, InPlace
<1>5. OnlyOf(p)
  BY <1>1, <1>2, <1>3 DEF CostShape, OnlyOf
<1>6. Spends(p)
  BY <1>1, <1>2, <1>3 DEF CostShape, Spends, Doomed, Leading
<1>7. QED
  BY <1>4, <1>5, <1>6, SpendingKeeps

\* The handler: without its context it can only fail, and then its rejection fails too.
LEMMA HandlingCosts ==
  ASSUME CostInv, NEW p \in Process, UNCHANGED <<runVars, runFaults>>,
         \/ Deliver(p) \/ RejectForeign(p) \/ Acknowledge(p) \/ HandlerFails(p)
         \/ RejectionFails(p)
         \/ ~cancelled[p] /\ StoreStep(p)
  PROVE  CostInv'
<1>1. CostShape /\ InPlace(p)
  BY DEF CostInv
<1>2. /\ UNCHANGED <<stage, cancelled, consuming, leader, stops, expiries>>
      /\ \E s : handler' = [handler EXCEPT ![p] = s]
      /\ delivery' = delivery \/ \E c : delivery' = [delivery EXCEPT ![p] = c]
      /\ failures' = failures \/ failures' = failures + 1
  BY DEF Deliver, RejectForeign, Acknowledge, EndDelivery, HandlerFails, RejectionFails, Errs, DeadLetter,
         Settle, GoTo, StoreStep, Accept, SkipProcessed, Execute, StillLeads, AppendCommand,
         AppendEvents, SaveReadModel, SaveSnapshot, SaveProcessed, SaveSkipped, SaveRejected,
         CallReturns, brokerVars, faultVars, runVars, runFaults
<1>3. CostShape' /\ OnlyOf(p)
  BY <1>1, <1>2 DEF CostShape, OnlyOf
<1>4. CASE Deliver(p) \/ RejectForeign(p) \/ Acknowledge(p)
  <2>1. /\ \/ handler' = [handler EXCEPT ![p] = "idle"]
           \/ consuming[p] /\ handler' = [handler EXCEPT ![p] = "checkLeadership"]
        /\ dlq' = dlq \/ (delivery[p] \in Foreign /\ dlq' = dlq \cup {delivery[p]})
    BY <1>4 DEF Deliver, RejectForeign, DeadLetter, Acknowledge, EndDelivery, GoTo
  <2>2. InPlace(p)'
    BY <1>1, <1>2, <2>1 DEF CostShape, InPlace
  <2>3. Spends(p)
    BY <1>1, <1>2, <2>1 DEF CostShape, Spends, Doomed
  <2>4. QED
    BY <1>3, <2>2, <2>3, SpendingKeeps
<1>5. CASE ~cancelled[p] /\ StoreStep(p)
  <2>1. /\ handler[p] # "idle" /\ UNCHANGED <<delivery, dlq>>
        /\ handler[p] = "checkLeadership" => delivery[p] \notin Foreign
    BY <1>5 DEF StoreStep, Accept, SkipProcessed, Execute, StillLeads, AppendCommand, AppendEvents,
                SaveReadModel, SaveSnapshot, SaveProcessed, SaveSkipped, SaveRejected, At, brokerVars
  <2>2. InPlace(p)'
    BY <1>1, <1>2, <2>1 DEF CostShape, InPlace
  <2>3. Spends(p)
    BY <1>1, <1>2, <1>5, <2>1 DEF CostShape, Spends, Doomed
  <2>4. QED
    BY <1>3, <2>2, <2>3, SpendingKeeps
<1>6. CASE HandlerFails(p)
  <2>1. /\ handler[p] \notin {"idle", "checkLeadership"} /\ UNCHANGED <<delivery, dlq>>
        /\ failures' = failures => cancelled[p]
    BY <1>1, <1>6 DEF HandlerFails, Errs, Fallible, Following, brokerVars, CostShape
  <2>2. InPlace(p)'
    BY <1>1, <1>2, <2>1 DEF CostShape, InPlace
  <2>3. failures' = 0 => Spends(p)
    BY <1>1, <1>2, <2>1 DEF CostShape, Spends, Doomed
  <2>4. QED
    BY <1>3, <2>2, <2>3, SpendingKeeps
<1>7. CASE RejectionFails(p)
  <2>1. /\ handler[p] = "reject" /\ handler' = [handler EXCEPT ![p] = "idle"]
        /\ dlq' = dlq \cup {delivery[p]}
        /\ failures' = failures => cancelled[p]
    BY <1>1, <1>7 DEF RejectionFails, Errs, At, GoTo, DeadLetter, CostShape
  <2>2. InPlace(p)'
    BY <1>1, <1>2, <2>1 DEF CostShape, InPlace
  <2>3. failures' = 0 => Spends(p)
    BY <1>1, <1>2, <2>1 DEF CostShape, Spends, Doomed
  <2>4. QED
    BY <1>3, <2>2, <2>3, SpendingKeeps
<1>8. QED
  BY <1>4, <1>5, <1>6, <1>7

LEMMA CostKeeps ==
  ASSUME CostInv, [GoNext]_goVars
  PROVE  CostInv'
<1>1. CASE Expire \/ ExpireInUse
  <2>1. /\ UNCHANGED <<stage, consuming, cancelled, handler, delivery, dlq, stops>>
        /\ failures' = failures /\ leader' = Nobody
        /\ \/ expiries' = expiries /\ stage[leader] \notin Leading
           \/ expiries' = expiries + 1
    BY <1>1 DEF Expire, ExpireInUse, LoseKey, QuietStores, brokerVars, faultVars, runVars
  <2>2. QED
    BY <2>1, CommandAssumption, CostApart
<1>2. CASE (Api /\ UNCHANGED <<runVars, runFaults>>) \/ UNCHANGED goVars
  <2>1. /\ UNCHANGED <<stage, consuming, cancelled, handler, delivery, dlq, stops, expiries, leader>>
        /\ failures' = failures \/ failures' = failures + 1
    BY <1>2 DEF Api, SaveQueued, Publish, PublishFails, goVars, vars, brokerVars, processVars,
                faultVars, runVars, runFaults
  <2>2. QED
    BY <2>1, CostApart
<1>3. ASSUME NEW p \in Process,
             \/ Deliver(p) /\ UNCHANGED <<runVars, runFaults>>
             \/ RejectForeign(p) \/ HandlerGoesOn(p) \/ HandlerFails(p) \/ RejectionFails(p)
      PROVE  CostInv'
  <2>1. UNCHANGED <<runVars, runFaults>>
    BY <1>3 DEF RejectForeign, HandlerGoesOn, HandlerFails, RejectionFails
  <2>2. QED
    BY <1>3, <2>1, HandlingCosts DEF HandlerGoesOn, ContextIsLive
<1>4. ASSUME NEW p \in Process, RunStep(p) \/ ConsumerStep(p) \/ Fault(p) \/ StartAgain(p)
      PROVE  CostInv'
  <2>1. CASE LosesDelivery(p)
    <3>1. UNCHANGED <<stage, consuming, cancelled, handler, delivery, dlq, stops, expiries,
                      leader, failures>>
      BY <2>1 DEF LosesDelivery, processVars, faultVars, runFaults
    <3>2. QED
      BY <3>1, CostApart
  <2>2. CASE ~LosesDelivery(p)
    BY <1>3, <1>4, <2>2, RunCosts, EndingCosts DEF RunStep, ConsumerStep, Fault
  <2>3. QED
    BY <2>1, <2>2
<1>5. QED
  BY <1>1, <1>2, <1>3, <1>4 DEF GoNext, GoStep

\* As long as no call fails, the end of a Go worker for a signal or a lost key costs the
\* partition one command at most, for any number of workers, signals, lost keys, crashes
\* and doubtful checks: the calls for the command in hand fail under the cancelled
\* context, and it is dead-lettered (Processor.reject).
THEOREM AnEndCostsOneCommand == GoSpec => []EndCostsOneCommand
<1>1. GoInit => CostInv
  <2> SUFFICES ASSUME GoInit PROVE CostInv
    OBVIOUS
  <2>1. CostShape /\ \A p \in Process : InPlace(p)
    BY DEF GoInit, Init, CostShape, InPlace
  <2>2. dlq \ Foreign = {} /\ DoomedWorkers = {} /\ stops = 0 /\ expiries = 0
    BY DEF GoInit, Init, DoomedWorkers, Doomed, Leading
  <2>3. IsFiniteSet({}) /\ Cardinality({}) = 0
    BY FS_EmptySet
  <2>4. Paid
    BY <2>2, <2>3 DEF Paid
  <2>5. QED
    BY <2>1, <2>4 DEF CostInv
<1>2. CostInv => EndCostsOneCommand
  <2> SUFFICES ASSUME CostInv, failures = 0 PROVE Cardinality(dlq \ Foreign) <= stops + expiries
    BY DEF EndCostsOneCommand
  <2>1. Paid /\ stops \in Nat /\ expiries \in Nat
    BY DEF CostInv, CostShape
  <2>2. Cardinality(dlq \ Foreign) \in Nat /\ Cardinality(DoomedWorkers) \in Nat
    BY <2>1, FS_CardinalityType DEF Paid
  <2>3. QED
    BY <2>1, <2>2 DEF Paid
<1>3. QED
  BY <1>1, <1>2, CostKeeps, PTL DEF GoSpec
=============================================================================
