------------------------- MODULE MatchingNodeProofs -------------------------
(***************************************************************************)
(* Leader election: a command is logged once whatever becomes of the key.  *)
(* As long as no key expires in use, no node is stopped and no promotion   *)
(* fails at its last check, one node consumes, its book and the books of   *)
(* the standbys follow the log, and a failover repeats, loses and          *)
(* overtakes nothing.  For any number of nodes, crashes, other failures of *)
(* a promotion and failing calls of the handlers.                          *)
(***************************************************************************)
EXTENDS MatchingNode, CommandWorkerProofs

-----------------------------------------------------------------------------
(* A command is logged once *)

LEMMA NodeStepKind ==
  ASSUME DInv, [NodeNext]_allVars
  PROVE  Kind
<1>1. CASE Expire \/ ExpireInUse
  BY <1>1, QuietKind DEF Expire, ExpireInUse, LoseKey, apiVars, brokerVars, storeVars
<1>2. ASSUME NEW p \in Process, HandlerStepOrReport(p) PROVE Kind
  BY <1>2, StoreStepKind, EndKind
     DEF HandlerStepOrReport, QuietStep, HandlerReports, ReportingStep, GiveBack,
         AcknowledgeAndReport
<1>3. ASSUME NEW p \in Process, Exit(p) \/ NodeCrash(p) PROVE Kind
  BY <1>3, EndKind DEF Exit, NodeCrash, LoseProcess
<1>4. ASSUME NEW p \in Process,
             NodeStep(p) \/ PromotionFails(p) \/ ConfirmFails(p) \/ Stop(p) \/ Boot(p)
      PROVE  Kind
  <2>1. QuietStores \/ Exit(p)
    BY <1>4 DEF NodeStep, Reset, LoadSnapshot, ReplayRest, Replay, TryAcquire, ReplicaStopped,
                CaughtUp, Verify, StartConsumer, Confirm, GiveUpPromotion, RenewalFails,
                StopReplica, StopRelease, PromotionFails, ConfirmFails, Stop, Boot
  <2>2. QED
    BY <1>3, <2>1, QuietKind DEF QuietStores, apiVars, brokerVars, storeVars
<1>5. CASE UNCHANGED allVars
  BY <1>5, QuietKind DEF allVars, vars, apiVars, brokerVars, storeVars, processVars
<1>6. ASSUME NEW p \in Process, HandlerFails(p) PROVE Kind
  BY <1>6, FailureKind, EndKind DEF HandlerFails, CallFails, apiVars, brokerVars, storeVars
<1>7. QED
  BY <1>1, <1>2, <1>3, <1>4, <1>5, <1>6, ApiKind, DeliverKind DEF NodeNext, NodeAction

\* A command is logged once whatever becomes of the leader key: two nodes that both
\* take themselves for the leader still do not apply one command twice
\* (orderCommanderWorker.js:110).
THEOREM NodesLogOnce == NodeSpec => []LoggedOnce
<1>1. DInv /\ [NodeNext]_allVars => DInv'
  BY NodeStepKind, KindKeeps
<1>2. NodeInit => DInv
  BY InitIsOnce DEF NodeInit
<1>3. QED
  BY <1>1, <1>2, PTL DEF NodeSpec, DInv

-----------------------------------------------------------------------------
(* One node consumes *)

NodeShape ==
  /\ DOMAIN stage = Process /\ DOMAIN stopping = Process
  /\ consuming \in [Process -> BOOLEAN]
  /\ renewing \in [Process -> BOOLEAN]
  /\ orphan \in [Process -> BOOLEAN] /\ reported \in [Process -> BOOLEAN]
  /\ expiries \in Nat /\ stops \in Nat /\ leftovers \in Nat

\* From the acquisition of the key until it is given back or renewals end.
HeldBy(p) == stage[p] \in Promoting \cup {"active"}

\* Who is in these stages holds the key, which does not expire, and only at their
\* end does a node consume, with one consumer.
KeyIsKept ==
  \A p \in Process :
    /\ stopping[p] = "no" /\ ~orphan[p] /\ ~reported[p]
    /\ HeldBy(p) => leader = p /\ (stage[p] = "stopReplica" \/ renewing[p])
    /\ consuming[p] => stage[p] \in {"confirm", "active"}

NInv == NodeShape /\ (NoLoss => KeyIsKept)

\* What a step of node p leaves as it is of the others.
OthersStay(p) ==
  \A q \in Process \ {p} :
    /\ stage'[q] = stage[q] /\ consuming'[q] = consuming[q]
    /\ renewing'[q] = renewing[q] /\ stopping'[q] = stopping[q]
    /\ orphan'[q] = orphan[q] /\ reported'[q] = reported[q]

\* A step of node p that does what is asked of it for itself and takes the key from
\* nobody else.
LEMMA OwnStepKeeps ==
  ASSUME NInv, NoLoss, NEW p \in Process, OthersStay(p),
         leader' = leader \/ leader \in {p, Nobody},
         /\ stopping'[p] = "no" /\ ~orphan'[p] /\ ~reported'[p]
         /\ HeldBy(p)' => leader' = p /\ (stage'[p] = "stopReplica" \/ renewing'[p])
         /\ consuming'[p] => stage'[p] \in {"confirm", "active"}
  PROVE  KeyIsKept'
<1>1. KeyIsKept
  BY DEF NInv
<1>2. ASSUME NEW q \in Process, q # p, HeldBy(q)
      PROVE  leader' = q
  BY <1>1, <1>2, CommandAssumption DEF KeyIsKept
<1>3. ASSUME NEW q \in Process, q # p
      PROVE  /\ stopping'[q] = "no" /\ ~orphan'[q] /\ ~reported'[q]
             /\ HeldBy(q)' => leader' = q /\ (stage'[q] = "stopReplica" \/ renewing'[q])
             /\ consuming'[q] => stage'[q] \in {"confirm", "active"}
  BY <1>1, <1>2, <1>3 DEF KeyIsKept, OthersStay, HeldBy
<1>4. QED
  BY <1>3 DEF KeyIsKept

\* What a step may do to the node p that takes it.
OwnStep(p) ==
  /\ OthersStay(p)
  /\ leader' = leader \/ leader \in {p, Nobody}
  /\ stopping'[p] = "no" /\ ~orphan'[p] /\ ~reported'[p]
  /\ HeldBy(p)' => leader' = p /\ (stage'[p] = "stopReplica" \/ renewing'[p])
  /\ consuming'[p] => stage'[p] \in {"confirm", "active"}

\* What is known of a node and of the functions a step changes.
Known(p) ==
  /\ DOMAIN stage = Process /\ DOMAIN stopping = Process
  /\ consuming \in [Process -> BOOLEAN] /\ renewing \in [Process -> BOOLEAN]
  /\ orphan \in [Process -> BOOLEAN] /\ reported \in [Process -> BOOLEAN]
  /\ stopping[p] = "no" /\ ~orphan[p] /\ ~reported[p]
  /\ HeldBy(p) => leader = p /\ (stage[p] = "stopReplica" \/ renewing[p])
  /\ consuming[p] => stage[p] \in {"confirm", "active"}

LEMMA WhatIsKnown == ASSUME NInv, NoLoss, NEW p \in Process PROVE Known(p)
BY DEF NInv, NodeShape, KeyIsKept, Known

\* start(), a demotion and the replay: what they change besides stage is not looked at.
LEMMA StandbyStep ==
  ASSUME NEW p \in Process, Known(p),
         Boot(p) \/ Reset(p) \/ LoadSnapshot(p) \/ ReplayRest(p) \/ Replay(p)
  PROVE  OwnStep(p)
<1>1. CASE Boot(p) \/ Reset(p) \/ LoadSnapshot(p) \/ ReplayRest(p)
  <2>1. /\ \E s \in {"loadSnapshot", "replayRest", "standby"} :
             stage' = [stage EXCEPT ![p] = s]
        /\ stage[p] \in {"down", "cancelConsumer", "loadSnapshot", "replayRest"}
        /\ UNCHANGED <<leader, consuming, renewing, stopping, orphan, reported>>
    BY <1>1 DEF Boot, Reset, LoadSnapshot, ReplayRest, Enter, consumerVars
  <2>2. QED
    BY <2>1 DEF Known, OwnStep, OthersStay, HeldBy, Promoting
<1>2. CASE Replay(p)
  BY <1>2 DEF Replay, consumerVars, Known, OwnStep, OthersStay, HeldBy
<1>3. QED
  BY <1>1, <1>2

\* attemptPromotion
LEMMA PromotionStep ==
  ASSUME NEW p \in Process, Known(p),
         \/ TryAcquire(p) \/ ReplicaStopped(p) \/ CaughtUp(p) \/ Verify(p)
         \/ StartConsumer(p) \/ Confirm(p) \/ PromotionFails(p) \/ GiveUpPromotion(p)
  PROVE  OwnStep(p)
<1>1. CASE TryAcquire(p)
  BY <1>1 DEF TryAcquire, KeyIsFree, Enter, consumerVars, Known, OwnStep, OthersStay, HeldBy, Promoting
<1>2. CASE ReplicaStopped(p)
  BY <1>2 DEF ReplicaStopped, Enter, consumerVars, Known, OwnStep, OthersStay, HeldBy, Promoting
<1>3. CASE CaughtUp(p) \/ Verify(p) \/ PromotionFails(p)
  <2>1. /\ stage[p] \in {"catchUp", "verify", "startConsumer"}
        /\ \E s \in {"verify", "startConsumer", "release"} : stage' = [stage EXCEPT ![p] = s]
        /\ UNCHANGED <<leader, consuming, renewing, stopping, orphan, reported>>
    BY <1>3 DEF CaughtUp, Verify, PromotionFails, Enter, consumerVars
  <2>2. QED
    BY <2>1 DEF Known, OwnStep, OthersStay, HeldBy, Promoting
<1>4. CASE StartConsumer(p)
  <2>1. /\ stage[p] = "startConsumer"
        /\ \/ stage' = [stage EXCEPT ![p] = "release"] /\ UNCHANGED <<consuming, reported>>
           \/ /\ stage' = [stage EXCEPT ![p] = "confirm"]
              /\ consuming' = [consuming EXCEPT ![p] = TRUE]
              /\ reported' = [reported EXCEPT ![p] = FALSE]
        /\ orphan' = [orphan EXCEPT ![p] = consuming[p]]
        /\ UNCHANGED <<leader, renewing, stopping>>
    BY <1>4 DEF StartConsumer, Enter
  <2>2. QED
    BY <2>1 DEF Known, OwnStep, OthersStay, HeldBy, Promoting
<1>5. CASE Confirm(p)
  <2>1. /\ stage[p] = "confirm"
        /\ \/ stage' = [stage EXCEPT ![p] = "active"] /\ UNCHANGED consuming
           \/ /\ stage' = [stage EXCEPT ![p] = "release"]
              /\ consuming' = [consuming EXCEPT ![p] = FALSE]
        /\ UNCHANGED <<leader, renewing, stopping, orphan, reported>>
    BY <1>5 DEF Confirm, StopConsumer, Enter, consumerVars, Known
  <2>2. QED
    BY <2>1 DEF Known, OwnStep, OthersStay, HeldBy, Promoting
<1>6. CASE GiveUpPromotion(p)
  <2>1. /\ stage[p] = "release" /\ stage' = [stage EXCEPT ![p] = "standby"]
        /\ renewing' = [renewing EXCEPT ![p] = FALSE]
        /\ leader' = leader \/ leader = p
        /\ UNCHANGED <<consuming, stopping, orphan, reported>>
    BY <1>6 DEF GiveUpPromotion, TryRelease, ReleaseKey, Enter, consumerVars
  <2>2. QED
    BY <2>1 DEF Known, OwnStep, OthersStay, HeldBy, Promoting
<1>7. QED
  BY <1>1, <1>2, <1>3, <1>4, <1>5, <1>6

\* handleLeadershipLost, called by a handler or by a heartbeat.
LEMMA LossStep ==
  ASSUME NEW p \in Process, Known(p),
         (HandlerReports(p) /\ stage[p] # "confirm") \/ RenewalFails(p)
  PROVE  OwnStep(p)
<1>1. UNCHANGED <<leader, stopping, orphan>>
  BY DEF HandlerReports, RenewalFails, ReportingStep, GiveBack, HandBack, AcknowledgeAndReport,
         AcknowledgeLast, EndDelivery, consumerVars
<1>2. /\ \/ UNCHANGED <<renewing, stage, consuming>>
         \/ /\ ~HeldBy(p) /\ renewing' = [renewing EXCEPT ![p] = FALSE]
            /\ UNCHANGED <<stage, consuming>>
         \/ /\ stage' = [stage EXCEPT ![p] = "cancelConsumer"]
            /\ consuming' = [consuming EXCEPT ![p] = FALSE]
            /\ renewing' = [renewing EXCEPT ![p] = FALSE]
      /\ UNCHANGED reported \/ reported' = [reported EXCEPT ![p] = FALSE]
  <2>1. CASE HandlerReports(p) /\ stage[p] # "confirm"
    <3>1. ~reported[p] /\ HandleLeadershipLost(p, renewing)
      BY <2>1 DEF HandlerReports, Known
    <3>2. CASE stage[p] \in Promoting \cup Demoting
      BY <2>1, <3>1, <3>2
         DEF HandlerReports, HandleLeadershipLost, Known, Promoting, Demoting
    <3>3. CASE stage[p] \notin Promoting \cup Demoting
      <4>1. /\ consuming' = [consuming EXCEPT ![p] = FALSE]
            /\ stage' = [stage EXCEPT ![p] = "cancelConsumer"]
            /\ renewing' = [renewing EXCEPT ![p] = FALSE]
        BY <3>1, <3>3 DEF HandleLeadershipLost, StopConsumer, Enter, Known
      <4>2. reported' = [reported EXCEPT ![p] = FALSE]
        BY <2>1, <4>1 DEF HandlerReports, Known
      <4>3. QED
        BY <4>1, <4>2
    <3>4. QED
      BY <3>2, <3>3
  <2>2. CASE RenewalFails(p)
    BY <2>2 DEF RenewalFails, HandleLeadershipLost, StopConsumer, Enter, Known, consumerVars
  <2>3. QED
    BY <2>1, <2>2
<1>3. CASE UNCHANGED <<renewing, stage, consuming>>
  BY <1>1, <1>2, <1>3 DEF Known, OwnStep, OthersStay, HeldBy
<1>4. CASE /\ ~HeldBy(p) /\ renewing' = [renewing EXCEPT ![p] = FALSE]
           /\ UNCHANGED <<stage, consuming>>
  BY <1>1, <1>2, <1>4 DEF Known, OwnStep, OthersStay, HeldBy
<1>5. CASE /\ stage' = [stage EXCEPT ![p] = "cancelConsumer"]
           /\ consuming' = [consuming EXCEPT ![p] = FALSE]
           /\ renewing' = [renewing EXCEPT ![p] = FALSE]
  BY <1>1, <1>2, <1>5 DEF Known, OwnStep, OthersStay, HeldBy, Promoting
<1>6. QED
  BY <1>2, <1>3, <1>4, <1>5

LEMMA CrashStep ==
  ASSUME NEW p \in Process, Known(p), NodeCrash(p)
  PROVE  OwnStep(p)
<1>1. /\ stage' = [stage EXCEPT ![p] = "down"]
      /\ consuming' = [consuming EXCEPT ![p] = FALSE]
      /\ renewing' = [renewing EXCEPT ![p] = FALSE]
      /\ stopping' = [stopping EXCEPT ![p] = "no"]
      /\ orphan' = [orphan EXCEPT ![p] = FALSE]
      /\ reported' = [reported EXCEPT ![p] = FALSE]
      /\ leader' = leader
  BY DEF NodeCrash, LoseProcess, LoseMemory, EndProcess, Enter
<1>2. QED
  BY <1>1 DEF Known, OwnStep, OthersStay, HeldBy, Promoting

\* The steps that are not a node's.
LEMMA OtherStep ==
  ASSUME NInv, NoLoss,
         \/ Expire
         \/ Api /\ UNCHANGED <<nodeVars, nodeFaults>>
         \/ \E p \in Process :
              (Deliver(p) \/ QuietStep(p) \/ CallFails(p) \/ RejectFails(p))
                /\ UNCHANGED <<nodeVars, nodeFaults>>
         \/ UNCHANGED allVars
  PROVE  KeyIsKept'
<1>1. KeyIsKept
  BY DEF NInv
<1>2. CASE Expire
  <2>1. UNCHANGED <<stage, consuming, renewing, stopping, orphan, reported>>
    BY <1>2 DEF Expire, LoseKey, nodeVars, consumerVars
  <2>2. ~HeldBy(leader) \/ leader \notin Process
    BY <1>1, <1>2 DEF Expire, InUse, KeyIsKept
  <2>3. \A p \in Process : ~HeldBy(p)
    BY <1>1, <2>2 DEF KeyIsKept
  <2>4. QED
    BY <1>1, <2>1, <2>3 DEF KeyIsKept, HeldBy
<1>3. CASE ~Expire
  <2>1. UNCHANGED <<leader, stage, consuming, renewing, stopping, orphan, reported>>
    BY <1>3 DEF Api, SaveQueued, Publish, PublishFails, Deliver, QuietStep, StoreStep,
                RefuseForeign, Acknowledge, EndDelivery, Accept, SkipProcessed, Execute,
                StillLeads, AppendCommand, AppendEvents, SaveReadModel, SaveSnapshot,
                SaveProcessed, SaveSkipped, SaveRejected, CallFails, RejectFails, allVars, vars,
                nodeVars, consumerVars, processVars
  <2>2. QED
    BY <1>1, <2>1 DEF KeyIsKept, HeldBy
<1>4. QED
  BY <1>2, <1>3

LEMMA NodeShapeKeeps == ASSUME NodeShape, [NodeNext]_allVars PROVE NodeShape'
<1>1. ASSUME NEW p \in Process,
             \/ Boot(p) \/ Reset(p) \/ LoadSnapshot(p) \/ ReplayRest(p) \/ Replay(p)
             \/ TryAcquire(p) \/ ReplicaStopped(p) \/ CaughtUp(p) \/ Verify(p)
             \/ PromotionFails(p) \/ GiveUpPromotion(p)
      PROVE  NodeShape'
  <2>1. /\ UNCHANGED <<consuming, stopping, orphan, reported, expiries, stops, leftovers>>
        /\ UNCHANGED stage \/ \E s : stage' = [stage EXCEPT ![p] = s]
        /\ UNCHANGED renewing \/ \E b \in BOOLEAN : renewing' = [renewing EXCEPT ![p] = b]
    BY <1>1 DEF Boot, Reset, LoadSnapshot, ReplayRest, Replay, TryAcquire, ReplicaStopped,
                CaughtUp, Verify, PromotionFails, GiveUpPromotion, Enter, consumerVars, nodeFaults
  <2>2. QED
    BY <2>1 DEF NodeShape
<1>2. ASSUME NEW p \in Process,
             \/ StartConsumer(p) \/ Confirm(p) \/ ConfirmFails(p) \/ HandlerReports(p)
             \/ RenewalFails(p)
      PROVE  NodeShape'
  <2>1. /\ UNCHANGED <<stopping, expiries, stops>>
        /\ UNCHANGED leftovers \/ leftovers' = leftovers + 1
        /\ UNCHANGED orphan \/ \E b \in BOOLEAN : orphan' = [orphan EXCEPT ![p] = b]
        /\ UNCHANGED reported \/ \E b \in BOOLEAN : reported' = [reported EXCEPT ![p] = b]
        /\ UNCHANGED stage \/ \E s : stage' = [stage EXCEPT ![p] = s]
        /\ UNCHANGED renewing \/ \E b \in BOOLEAN : renewing' = [renewing EXCEPT ![p] = b]
        /\ UNCHANGED consuming \/ \E b \in BOOLEAN : consuming' = [consuming EXCEPT ![p] = b]
    BY <1>2 DEF StartConsumer, Confirm, ConfirmFails, HandlerReports, RenewalFails,
                HandleLeadershipLost, StopConsumer, Enter, consumerVars, nodeFaults, NodeShape
  <2>2. QED
    BY <2>1 DEF NodeShape
<1>3. ASSUME NEW p \in Process,
             Stop(p) \/ StopReplica(p) \/ StopRelease(p) \/ Exit(p) \/ NodeCrash(p)
      PROVE  NodeShape'
  <2>1. /\ UNCHANGED <<expiries, leftovers>>
        /\ UNCHANGED orphan \/ \E b \in BOOLEAN : orphan' = [orphan EXCEPT ![p] = b]
        /\ UNCHANGED reported \/ \E b \in BOOLEAN : reported' = [reported EXCEPT ![p] = b]
        /\ UNCHANGED stops \/ stops' = stops + 1
        /\ \E s : stopping' = [stopping EXCEPT ![p] = s]
        /\ UNCHANGED stage \/ \E s : stage' = [stage EXCEPT ![p] = s]
        /\ UNCHANGED renewing \/ \E b \in BOOLEAN : renewing' = [renewing EXCEPT ![p] = b]
        /\ UNCHANGED consuming \/ \E b \in BOOLEAN : consuming' = [consuming EXCEPT ![p] = b]
    BY <1>3 DEF Stop, StopReplica, StopRelease, Exit, NodeCrash, LoseProcess, LoseMemory,
                EndProcess, StopConsumer, Enter, consumerVars, nodeFaults, NodeShape
  <2>2. QED
    BY <2>1 DEF NodeShape
<1>4. CASE Expire \/ ExpireInUse
  <2>1. /\ UNCHANGED <<stage, consuming, renewing, stopping, orphan, reported, stops, leftovers>>
        /\ UNCHANGED expiries \/ expiries' = expiries + 1
    BY <1>4 DEF Expire, ExpireInUse, LoseKey, nodeVars, consumerVars
  <2>2. QED
    BY <2>1 DEF NodeShape
<1>5. CASE \/ Api /\ UNCHANGED <<nodeVars, nodeFaults>>
           \/ \E p \in Process :
                (Deliver(p) \/ QuietStep(p) \/ CallFails(p) \/ RejectFails(p))
                  /\ UNCHANGED <<nodeVars, nodeFaults>>
           \/ UNCHANGED allVars
  <2>1. UNCHANGED <<stage, consuming, renewing, stopping, orphan, reported, expiries, stops,
                    leftovers>>
    BY <1>5 DEF Api, SaveQueued, Publish, PublishFails, Deliver, QuietStep, StoreStep,
                RefuseForeign, Acknowledge, EndDelivery, Accept, SkipProcessed, Execute,
                StillLeads, AppendCommand, AppendEvents, SaveReadModel, SaveSnapshot,
                SaveProcessed, SaveSkipped, SaveRejected, CallFails, RejectFails, allVars, vars,
                nodeVars, consumerVars, nodeFaults, processVars
  <2>2. QED
    BY <2>1 DEF NodeShape
<1>6. QED
  BY <1>1, <1>2, <1>3, <1>4, <1>5 
     DEF NodeNext, NodeAction, NodeStep, HandlerStepOrReport, HandlerFails

\* Only losses count, and they are not undone.
LEMMA LossesStay == ASSUME NodeShape, [NodeNext]_allVars, NoLoss' PROVE NoLoss
<1>1. /\ expiries' \in Nat /\ stops' \in Nat /\ leftovers' \in Nat
      /\ expiries \in Nat /\ stops \in Nat /\ leftovers \in Nat
  BY NodeShapeKeeps DEF NodeShape
<1> DEFINE Counts == /\ expiries' = expiries \/ expiries' = expiries + 1
                     /\ stops' = stops \/ stops' = stops + 1
                     /\ leftovers' = leftovers \/ leftovers' = leftovers + 1
<1>2. ASSUME NEW p \in Process, NodeStep(p) PROVE Counts
  BY <1>2 DEF NodeStep, Reset, LoadSnapshot, ReplayRest, Replay, TryAcquire, ReplicaStopped,
              CaughtUp, Verify, StartConsumer, Confirm, GiveUpPromotion, RenewalFails,
              StopReplica, StopRelease, Exit, EndProcess, nodeFaults
<1>3. ASSUME NEW p \in Process,
             \/ PromotionFails(p) \/ ConfirmFails(p) \/ Stop(p) \/ NodeCrash(p) \/ Boot(p)
             \/ HandlerStepOrReport(p) \/ HandlerFails(p)
      PROVE  Counts
  BY <1>3 DEF PromotionFails, ConfirmFails, Stop, NodeCrash, Boot, EndProcess,
              HandlerStepOrReport, HandlerReports, HandlerFails, nodeFaults
<1>4. ASSUME Expire \/ ExpireInUse PROVE Counts
  BY <1>4 DEF Expire, ExpireInUse, LoseKey, nodeFaults
<1>5. ASSUME UNCHANGED allVars \/ UNCHANGED nodeFaults PROVE Counts
  BY <1>5 DEF allVars, nodeFaults
<1>6. Counts
  BY <1>2, <1>3, <1>4, <1>5 DEF NodeNext, NodeAction
<1>7. QED
  BY <1>1, <1>6 DEF NoLoss

LEMMA NStepKeeps == ASSUME NInv, [NodeNext]_allVars PROVE NInv'
<1>1. NodeShape'
  BY NodeShapeKeeps DEF NInv
<1>2. ASSUME NoLoss' PROVE KeyIsKept'
  <2>1. NoLoss
    BY <1>2, LossesStay DEF NInv
  <2>2. ASSUME NEW p \in Process, OwnStep(p) PROVE KeyIsKept'
    BY <2>1, <2>2, OwnStepKeeps DEF OwnStep
  <2>3. ~ExpireInUse /\ \A p \in Process : ~Stop(p) /\ ~ConfirmFails(p)
    BY <1>2, <2>1 DEF NoLoss, ExpireInUse, Stop, ConfirmFails
  <2>4. \A p \in Process : ~StopReplica(p) /\ ~StopRelease(p) /\ ~Exit(p)
    BY <2>1, WhatIsKnown DEF Known, StopReplica, StopRelease, Exit
  <2>5. ASSUME NEW p \in Process,
               \/ NodeStep(p) \/ PromotionFails(p) \/ NodeCrash(p) \/ Boot(p)
               \/ HandlerReports(p) /\ stage[p] # "confirm"
        PROVE  KeyIsKept'
    BY <2>1, <2>2, <2>4, <2>5, WhatIsKnown, StandbyStep, PromotionStep, LossStep, CrashStep
       DEF NodeStep
  <2>6. ASSUME \/ Expire
               \/ Api /\ UNCHANGED <<nodeVars, nodeFaults>>
               \/ \E p \in Process :
                    (Deliver(p) \/ QuietStep(p) \/ CallFails(p) \/ RejectFails(p))
                      /\ UNCHANGED <<nodeVars, nodeFaults>>
               \/ UNCHANGED allVars
        PROVE  KeyIsKept'
    BY <2>1, <2>6, OtherStep
  <2>7. QED
    BY <2>3, <2>5, <2>6 DEF NodeNext, NodeAction, HandlerStepOrReport, HandlerFails
<1>3. QED
  BY <1>1, <1>2 DEF NInv

\* As long as no key expires in use, no node is stopped and no promotion fails at its last
\* check, the leader key gives a partition one consumer: SET NX, the heartbeat and the
\* check that ends a promotion see to it through crashes, promotions that fail elsewhere,
\* doubtful checks and failing calls, for any number of nodes.
THEOREM TheKeyGivesOneConsumer == NodeSpec => []KeyGivesOneConsumer
<1>1. NodeInit => NInv
  BY DEF NodeInit, Init, NInv, NodeShape, KeyIsKept, HeldBy, Promoting
<1>2. NInv /\ [NodeNext]_allVars => NInv'
  BY NStepKeeps
<1>3. NInv => KeyGivesOneConsumer
  BY DEF NInv, KeyIsKept, HeldBy, Promoting, KeyGivesOneConsumer, OneConsumer
<1>4. QED
  BY <1>1, <1>2, <1>3, PTL DEF NodeSpec

-----------------------------------------------------------------------------
(* The nodes keep the partition *)

\* What the streams, the statuses and the stored books have in common for whoever consumes.
Sound == PromiseInv /\ IInv /\ LogKnown /\ RestTypes /\ StoredBooks /\ NoneHeld

\* The book has the first n commands of the log in it, and is nothing else as long as all
\* went well.
UpTo(p, n) ==
  /\ \A i \in 1..n : Holds(book[p], log[i])
  /\ Clean => book[p] = SubSeq(log, 1, n)

\* A standby, and a node that promotes itself until its consumer is there or given up.
Waiting == {"standby"} \cup (Promoting \ {"confirm"})

\* The book of a node at every stage.  The replay loop runs in a standby only, and the
\* heartbeat as long as the key is held; that is why a promotion finds the end of the log
\* where it has left it.
InStage(p) ==
  /\ stage[p] = "loadSnapshot" => book[p] = <<>>
  /\ stage[p] = "replayRest" => UpTo(p, checkpoint[p])
  /\ stage[p] \in Waiting => UpTo(p, replayed[p])
  /\ stage[p] \in {"verify", "startConsumer"} => replayed[p] = Len(log)
  /\ consuming[p] => BookSound(p)
  /\ replicating[p] => stage[p] \in {"standby", "stopReplica"}
  /\ renewing[p] => HeldBy(p)

KeepInv ==
  /\ Sound
  /\ checkpoint \in [Process -> 0..Len(log)] /\ replayed \in [Process -> 0..Len(log)]
  /\ replicating \in [Process -> BOOLEAN]
  /\ \A p \in Process : InStage(p)

KInv == NInv /\ (NoLoss => KeepInv)

\* A node of whose functions and book a step changes nothing.
LEMMA AsideStays ==
  ASSUME NEW q \in Process, InStage(q), log' = log, Clean' => Clean,
         stage'[q] = stage[q], consuming'[q] = consuming[q], renewing'[q] = renewing[q],
         replicating'[q] = replicating[q], checkpoint'[q] = checkpoint[q],
         replayed'[q] = replayed[q], book'[q] = book[q],
         handler'[q] = handler[q], delivery'[q] = delivery[q], entry'[q] = entry[q]
  PROVE  InStage(q)'
<1>1. \A n : UpTo(q, n) => UpTo(q, n)'
  BY DEF UpTo, Holds
<1>2. consuming'[q] => BookSound(q)'
  BY SoundAside DEF InStage
<1>3. QED
  BY <1>1, <1>2 DEF InStage, HeldBy

\* A step of node p that leaves the log and what is stored as they are.
LEMMA NodeChanges ==
  ASSUME KeepInv, NodeShape, IInv', LogKnown', NEW p \in Process,
         UNCHANGED <<sent, log, eventLog, snapshot, readModel, entry>>,
         stage' = stage \/ \E s : stage' = [stage EXCEPT ![p] = s],
         consuming' = consuming \/ \E b : consuming' = [consuming EXCEPT ![p] = b],
         renewing' = renewing \/ \E b : renewing' = [renewing EXCEPT ![p] = b],
         replicating' = replicating
           \/ \E b \in BOOLEAN : replicating' = [replicating EXCEPT ![p] = b],
         checkpoint' = checkpoint
           \/ \E n \in 0..Len(log) : checkpoint' = [checkpoint EXCEPT ![p] = n],
         replayed' = replayed
           \/ \E n \in 0..Len(log) : replayed' = [replayed EXCEPT ![p] = n],
         book' = book \/ \E b \in Seq(Command) : book' = [book EXCEPT ![p] = b],
         handler' = handler \/ \E s : handler' = [handler EXCEPT ![p] = s],
         delivery' = delivery \/ \E c : delivery' = [delivery EXCEPT ![p] = c],
         held' = held \/ held' = [held EXCEPT ![p] = Nobody],
         dlq' = dlq \/ (delivery[p] \in Command /\ dlq' = dlq \cup {delivery[p]}),
         leader' \in {leader, p, Nobody},
         crashes' = crashes \/ (crashes < MaxCrashes /\ crashes' = crashes + 1),
         failures' = failures \/ (failures < MaxFailures /\ failures' = failures + 1),
         doubts' = doubts \/ (doubts < MaxDoubts /\ doubts' = doubts + 1),
         InStage(p)'
  PROVE  KeepInv'
<1>1. RestTypes'
  <2>1. leader' \in Process \cup {leader, Nobody}
    OBVIOUS
  <2>2. book' = book \/ \E q \in Process, b \in Seq(Command) : book' = [book EXCEPT ![q] = b]
    OBVIOUS
  <2>3. held' = held \/ \E q \in Process : held' = [held EXCEPT ![q] = Nobody]
    OBVIOUS
  <2>4. dlq' = dlq \/ \E q \in Process : delivery[q] \in Command /\ dlq' = dlq \cup {delivery[q]}
    OBVIOUS
  <2>5. QED
    BY <2>1, <2>2, <2>3, <2>4, StillLogTypes DEF KeepInv, Sound
<1>2. PromiseInv'
  BY DEF KeepInv, Sound, PromiseInv
<1>3. Clean' => Clean
  BY DEF Clean, KeepInv, Sound, IInv, Shape
<1>4. StoredBooks' /\ NoneHeld'
  BY <1>3, StillStores DEF KeepInv, Sound
<1>5. /\ checkpoint' \in [Process -> 0..Len(log)] /\ replayed' \in [Process -> 0..Len(log)]
      /\ replicating' \in [Process -> BOOLEAN]
  BY DEF KeepInv
<1>6. ASSUME NEW q \in Process \ {p} PROVE InStage(q)'
  <2>1. /\ stage'[q] = stage[q] /\ consuming'[q] = consuming[q] /\ renewing'[q] = renewing[q]
        /\ replicating'[q] = replicating[q] /\ checkpoint'[q] = checkpoint[q]
        /\ replayed'[q] = replayed[q] /\ book'[q] = book[q]
        /\ handler'[q] = handler[q] /\ delivery'[q] = delivery[q] /\ entry'[q] = entry[q]
    <3>1. stage'[q] = stage[q] /\ consuming'[q] = consuming[q] /\ renewing'[q] = renewing[q]
      BY DEF NodeShape
    <3>2. /\ replicating'[q] = replicating[q] /\ checkpoint'[q] = checkpoint[q]
          /\ replayed'[q] = replayed[q]
      BY DEF KeepInv
    <3>3. book'[q] = book[q]
      BY DEF KeepInv, Sound, RestTypes
    <3>4. handler'[q] = handler[q] /\ delivery'[q] = delivery[q]
      BY DEF KeepInv, Sound, IInv, Shape
    <3>5. QED
      BY <3>1, <3>2, <3>3, <3>4
  <2>2. InStage(q)
    BY DEF KeepInv
  <2>3. QED
    BY <1>3, <2>1, <2>2, AsideStays
<1>7. \A q \in Process : InStage(q)'
  BY <1>6
<1>8. QED
  BY <1>1, <1>2, <1>4, <1>5, <1>7 DEF KeepInv, Sound

\* A node without a delivery in hand is at rest.
LEMMA AtRest ==
  ASSUME IInv, KeyIsKept, NEW p \in Process, stage[p] \notin {"confirm", "active"}
  PROVE  ~consuming[p] /\ delivery[p] = Nobody /\ handler[p] = "idle"
BY DEF IInv, OneTurn, KeyIsKept

\* What the steps of a node outside its handler leave as it is.
LEMMA NodeLeavesMessages ==
  ASSUME Sound, QuietStores, UNCHANGED consuming
  PROVE  /\ IInv' /\ LogKnown'
         /\ UNCHANGED <<sent, log, eventLog, snapshot, readModel, entry, handler, delivery, dlq,
                        crashes, failures, doubts>>
         /\ Clean' => Clean
<1>1. UNCHANGED <<request, status, sent, queue, dlq, delivery, handler, log, eventLog, snapshot,
                  readModel, entry, crashes, failures, doubts>>
  BY DEF QuietStores, apiVars, brokerVars, storeVars, faultVars
<1>2. IInv'
  BY <1>1, TurnKeepsInv DEF Sound, IInv, Shape, OneTurn
<1>3. LogKnown'
  BY <1>1, OthersKnow DEF Sound, IInv, Shape
<1>4. QED
  BY <1>1, <1>2, <1>3 DEF Clean

\* attemptPromotion around its consumer: the book stays as it is.
LEMMA PromotionKeeps ==
  ASSUME KeepInv, NodeShape, KeyIsKept, NEW p \in Process,
         \/ TryAcquire(p) \/ ReplicaStopped(p) \/ CaughtUp(p) \/ Verify(p) \/ Confirm(p)
         \/ PromotionFails(p) \/ GiveUpPromotion(p)
  PROVE  KeepInv'
<1>1. /\ QuietStores /\ UNCHANGED <<book, held, checkpoint, replayed, consuming>>
      /\ leader' \in {leader, p, Nobody}
  <2>1. CASE Confirm(p)
    BY <2>1 DEF Confirm, HoldsKey, KeyIsKept, HeldBy, Promoting
  <2>2. CASE ~Confirm(p)
    BY <2>2 DEF TryAcquire, ReplicaStopped, CaughtUp, Verify, PromotionFails, GiveUpPromotion,
                TryRelease, ReleaseKey, QuietStores
  <2>3. QED
    BY <2>1, <2>2
<1>2. \/ /\ stage[p] = "standby" /\ stage' = [stage EXCEPT ![p] = "stopReplica"]
         /\ UNCHANGED <<replicating, renewing>>
      \/ /\ stage[p] = "stopReplica" /\ stage' = [stage EXCEPT ![p] = "catchUp"]
         /\ replicating' = [replicating EXCEPT ![p] = FALSE]
         /\ renewing' = [renewing EXCEPT ![p] = TRUE]
      \/ /\ stage[p] = "catchUp" /\ stage' = [stage EXCEPT ![p] = "verify"]
         /\ replayed[p] = Len(log)
         /\ UNCHANGED <<replicating, renewing>>
      \/ /\ stage[p] = "verify" /\ stage' = [stage EXCEPT ![p] = "startConsumer"]
         /\ UNCHANGED <<replicating, renewing>>
      \/ /\ stage[p] \in {"catchUp", "verify", "startConsumer"}
         /\ stage' = [stage EXCEPT ![p] = "release"]
         /\ UNCHANGED <<replicating, renewing>>
      \/ /\ stage[p] = "confirm" /\ stage' = [stage EXCEPT ![p] = "active"]
         /\ UNCHANGED <<replicating, renewing>>
      \/ /\ stage[p] = "release" /\ stage' = [stage EXCEPT ![p] = "standby"]
         /\ \E b \in BOOLEAN : replicating' = [replicating EXCEPT ![p] = b]
         /\ renewing' = [renewing EXCEPT ![p] = FALSE]
  <2>1. replicating[p] \in BOOLEAN
    BY DEF KeepInv
  <2>2. CASE Confirm(p)
    BY <2>2 DEF Confirm, HoldsKey, Enter, KeyIsKept, HeldBy, Promoting
  <2>3. CASE GiveUpPromotion(p)
    BY <2>1, <2>3 DEF GiveUpPromotion, Enter
  <2>4. CASE TryAcquire(p) \/ ReplicaStopped(p)
    BY <2>4 DEF TryAcquire, ReplicaStopped, Enter
  <2>5. CASE CaughtUp(p) \/ Verify(p) \/ PromotionFails(p)
    BY <2>5 DEF CaughtUp, NothingLeftToReplay, Verify, PromotionFails, Enter
  <2>6. QED
    BY <2>2, <2>3, <2>4, <2>5
<1>3. /\ IInv' /\ LogKnown'
      /\ UNCHANGED <<sent, log, eventLog, snapshot, readModel, entry, handler, delivery, dlq,
                     crashes, failures, doubts>>
      /\ Clean' => Clean
  BY <1>1, NodeLeavesMessages DEF KeepInv
<1>4. InStage(p)'
  <2>1. /\ InStage(p) /\ DOMAIN stage = Process /\ DOMAIN replicating = Process
        /\ DOMAIN renewing = Process
    BY DEF KeepInv, NodeShape
  <2>2. \A n : UpTo(p, n) => UpTo(p, n)'
    BY <1>1, <1>3 DEF UpTo, Holds
  <2>3. consuming'[p] => BookSound(p)'
    BY <1>1, <1>3, <2>1, SoundAside DEF InStage
  <2>4. stage'[p] \in Waiting => stage[p] \in Waiting
    BY <1>2, <2>1 DEF Waiting, Promoting
  <2>5. stage'[p] \in {"verify", "startConsumer"} => replayed[p] = Len(log)
    BY <1>2, <2>1 DEF InStage
  <2>6. replicating'[p] => stage'[p] \in {"standby", "stopReplica"}
    BY <1>2, <2>1 DEF InStage
  <2>7. renewing'[p] => HeldBy(p)'
    BY <1>2, <2>1 DEF InStage, HeldBy, Promoting
  <2>8. stage'[p] \notin {"loadSnapshot", "replayRest"}
    BY <1>2, <2>1
  <2>9. QED
    BY <1>1, <1>3, <2>1, <2>2, <2>3, <2>4, <2>5, <2>6, <2>7, <2>8 DEF InStage
<1>5. /\ \E s : stage' = [stage EXCEPT ![p] = s]
      /\ renewing' = renewing \/ \E b : renewing' = [renewing EXCEPT ![p] = b]
      /\ replicating' = replicating
           \/ \E b \in BOOLEAN : replicating' = [replicating EXCEPT ![p] = b]
  BY <1>2
<1>6. QED
  BY <1>1, <1>3, <1>4, <1>5, NodeChanges

\* The consumer starts with a book that has all of the log: nobody else has written to it
\* since the node has caught up.
LEMMA ConsumerStarts ==
  ASSUME KeepInv, NodeShape, KeyIsKept, NEW p \in Process, StartConsumer(p)
  PROVE  KeepInv'
<1>1. /\ QuietStores /\ stage[p] = "startConsumer"
      /\ UNCHANGED <<leader, book, held, checkpoint, replayed, replicating, renewing>>
      /\ \/ stage' = [stage EXCEPT ![p] = "release"] /\ UNCHANGED consuming
         \/ /\ stage' = [stage EXCEPT ![p] = "confirm"]
            /\ consuming' = [consuming EXCEPT ![p] = TRUE]
  BY DEF StartConsumer, Enter
<1>2. /\ InStage(p) /\ DOMAIN stage = Process /\ consuming \in [Process -> BOOLEAN]
      /\ log \in Seq(Command)
  BY DEF KeepInv, NodeShape, Sound, IInv, Shape
<1>3. ~consuming[p] /\ delivery[p] = Nobody /\ handler[p] = "idle"
  BY <1>1, AtRest DEF KeepInv, Sound
<1>4. /\ UNCHANGED <<request, status, sent, queue, dlq, delivery, handler, log, eventLog, snapshot,
                     readModel, entry, crashes, failures, doubts>>
      /\ Clean' => Clean
  BY <1>1 DEF QuietStores, apiVars, brokerVars, storeVars, faultVars, Clean
<1>5. \A q \in Process : consuming[q] => q = p
  BY <1>1 DEF KeyIsKept, HeldBy, Promoting
<1>6. IInv'
  <2>1. consuming' \in [Process -> BOOLEAN] /\ \A q \in Process : consuming'[q] => q = p
    BY <1>1, <1>2, <1>5
  <2>2. \A q \in Process : delivery[q] # Nobody => consuming[q] /\ q # p
    BY <1>3 DEF KeepInv, Sound, IInv, OneTurn
  <2>3. \A q \in Process : delivery[q] # Nobody => consuming'[q]
    BY <1>5, <2>2
  <2>4. QED
    BY <1>4, <2>1, <2>3, TurnKeepsInv DEF KeepInv, Sound, IInv, Shape
<1>7. LogKnown'
  BY <1>4, OthersKnow DEF KeepInv, Sound, IInv, Shape
<1>8. BookSound(p)
  <2>1. UpTo(p, Len(log)) /\ SubSeq(log, 1, Len(log)) = log
    BY <1>1, <1>2, SubSeqFull DEF InStage, Waiting, Promoting
  <2>2. QED
    BY <1>3, <2>1 DEF BookSound, UpTo, Executed, Logged
<1>9. InStage(p)'
  <2>1. BookSound(p)'
    BY <1>1, <1>4, <1>8, SoundAside
  <2>2. \A n : UpTo(p, n) => UpTo(p, n)'
    BY <1>1, <1>4 DEF UpTo, Holds
  <2>3. QED
    BY <1>1, <1>2, <2>1, <2>2 DEF InStage, HeldBy, Waiting, Promoting
<1>10. QED
  BY <1>1, <1>4, <1>6, <1>7, <1>9, NodeChanges

\* A node rebuilds its book: from nothing, from a snapshot, with the rest of the log, or
\* command by command.
LEMMA RebuildingKeeps ==
  ASSUME KeepInv, NodeShape, KeyIsKept, NEW p \in Process,
         Boot(p) \/ Reset(p) \/ LoadSnapshot(p) \/ ReplayRest(p) \/ Replay(p)
  PROVE  KeepInv'
<1>1. /\ QuietStores /\ UNCHANGED <<leader, consuming, renewing>>
      /\ stage[p] \in {"down", "cancelConsumer", "loadSnapshot", "replayRest"} \/ Replay(p)
  BY DEF Boot, Reset, LoadSnapshot, ReplayRest, Replay
<1>2. /\ IInv' /\ LogKnown'
      /\ UNCHANGED <<sent, log, eventLog, snapshot, readModel, entry, handler, delivery, dlq,
                     crashes, failures, doubts>>
      /\ Clean' => Clean
  BY <1>1, NodeLeavesMessages DEF KeepInv
<1>3. /\ InStage(p) /\ DOMAIN stage = Process /\ book \in [Process -> Seq(Command)]
      /\ checkpoint \in [Process -> 0..Len(log)] /\ replayed \in [Process -> 0..Len(log)]
      /\ replicating \in [Process -> BOOLEAN] /\ log \in Seq(Command) /\ Len(log) \in Nat
      /\ \A i \in 1..Len(log) : log[i] \notin Refused
  BY LenProperties
     DEF KeepInv, NodeShape, Sound, RestTypes, IInv, Shape, LogKnown, NoneThrows, Throws
<1>4. stage[p] \in {"standby", "stopReplica", "catchUp"} \/ ~Replay(p)
  BY <1>3 DEF Replay, InStage
<1>5. ~consuming[p] /\ handler[p] = "idle"
  BY <1>1, <1>4, AtRest DEF KeepInv, Sound
<1>6. Detach(p) => held' = held
  BY <1>5 DEF Detach, Following
<1>7. CASE Boot(p) \/ Reset(p)
  <2>1. /\ stage[p] \in {"down", "cancelConsumer"}
        /\ stage' = [stage EXCEPT ![p] = "loadSnapshot"]
        /\ book' = [book EXCEPT ![p] = <<>>]
        /\ UNCHANGED <<held, checkpoint, replayed, replicating>>
    BY <1>6, <1>7 DEF Boot, Reset, ResetRegistry, SetBook, Enter
  <2>2. InStage(p)'
    BY <1>1, <1>3, <1>5, <2>1 DEF InStage, HeldBy, Waiting, Promoting
  <2>3. <<>> \in Seq(Command)
    BY EmptySeq
  <2>4. QED
    BY <1>1, <1>2, <2>1, <2>2, <2>3, NodeChanges
<1>8. CASE LoadSnapshot(p)
  <2>1. /\ stage[p] = "loadSnapshot" /\ stage' = [stage EXCEPT ![p] = "replayRest"]
        /\ checkpoint' = [checkpoint EXCEPT ![p] = snapshot.id]
        /\ \/ snapshot.id = 0 /\ UNCHANGED book
           \/ book' = [book EXCEPT ![p] = snapshot.book]
        /\ UNCHANGED <<held, replayed, replicating>>
    BY <1>6, <1>8 DEF LoadSnapshot, SetBook, Enter
  <2>2. snapshot.id \in 0..Len(log) /\ snapshot.book \in Seq(Command) /\ StoredBooks
    BY DEF KeepInv, Sound, RestTypes
  <2>3. UpTo(p, snapshot.id)'
    <3>1. CASE snapshot.id = 0 /\ UNCHANGED book
      <4>1. book'[p] = <<>> /\ 1..0 = {}
        BY <1>3, <2>1, <3>1 DEF InStage
      <4>2. SubSeq(log, 1, 0) = <<>>
        BY <1>3, SubSeqEmpty
      <4>3. QED
        BY <1>2, <3>1, <4>1, <4>2 DEF UpTo
    <3>2. CASE book' = [book EXCEPT ![p] = snapshot.book]
      BY <1>2, <1>3, <2>2, <3>2 DEF UpTo, StoredBooks, Holds
    <3>3. QED
      BY <2>1, <3>1, <3>2
  <2>4. InStage(p)'
    <3>1. checkpoint'[p] = snapshot'.id /\ stage'[p] = "replayRest"
      BY <1>2, <1>3, <2>1
    <3>2. UpTo(p, checkpoint[p])'
      BY <1>2, <2>3, <3>1 DEF UpTo, Holds
    <3>3. QED
      BY <1>1, <1>3, <1>5, <2>1, <3>1, <3>2 DEF InStage, HeldBy, Waiting, Promoting
  <2>5. QED
    BY <1>1, <1>2, <2>1, <2>2, <2>4, NodeChanges
<1>9. CASE ReplayRest(p)
  <2> DEFINE new == ApplyAll(book[p], SubSeq(log, checkpoint[p] + 1, Len(log)))
  <2>1. /\ stage[p] = "replayRest" /\ stage' = [stage EXCEPT ![p] = "standby"]
        /\ book' = [book EXCEPT ![p] = new]
        /\ replayed' = [replayed EXCEPT ![p] = Len(log)]
        /\ replicating' = [replicating EXCEPT ![p] = @ \/ stopping[p] = "no"]
        /\ UNCHANGED <<held, checkpoint>>
    BY <1>9 DEF ReplayRest, LastEntry, Enter
  <2>2. book[p] \in Seq(Command) /\ checkpoint[p] \in 0..Len(log) /\ UpTo(p, checkpoint[p])
    BY <1>3, <2>1 DEF InStage
  <2>3. /\ new \in Seq(Command)
        /\ \A c : Holds(book[p], c) => Holds(new, c)
        /\ \A i \in checkpoint[p] + 1..Len(log) : Holds(new, log[i])
        /\ book[p] = SubSeq(log, 1, checkpoint[p]) => new = log
    BY <1>3, <2>2, ReplayReaches
  <2> HIDE DEF new
  <2>4. \A i \in 1..Len(log) : Holds(new, log[i])
    <3>1. \A i \in 1..Len(log) : i \in 1..checkpoint[p] \/ i \in checkpoint[p] + 1..Len(log)
      BY <1>3, <2>2
    <3>2. QED
      BY <2>2, <2>3, <3>1 DEF UpTo
  <2>5. UpTo(p, Len(log))'
    <3>1. book'[p] = new /\ (Clean => new = log)
      BY <1>3, <2>1, <2>2, <2>3 DEF UpTo
    <3>2. SubSeq(log, 1, Len(log)) = log
      BY <1>3, SubSeqFull
    <3>3. QED
      BY <1>2, <2>4, <3>1, <3>2 DEF UpTo, Holds
  <2>6. InStage(p)'
    <3>1. replayed'[p] = Len(log') /\ stage'[p] = "standby"
      BY <1>2, <1>3, <2>1
    <3>2. UpTo(p, replayed[p])'
      BY <2>5, <3>1 DEF UpTo
    <3>3. QED
      BY <1>1, <1>3, <1>5, <2>1, <3>1, <3>2 DEF InStage, HeldBy, Promoting
  <2>7. Len(log) \in 0..Len(log) /\ (replicating[p] \/ stopping[p] = "no") \in BOOLEAN
    BY <1>3
  <2>8. \E b \in BOOLEAN : replicating' = [replicating EXCEPT ![p] = b]
    BY <2>1, <2>7
  <2>9. QED
    BY <1>1, <1>2, <2>1, <2>3, <2>6, <2>7, <2>8, NodeChanges
<1>10. CASE Replay(p)
  <2>0. PICK n : n = replayed[p]
    OBVIOUS
  <2> DEFINE new == Append(book[p], log[n + 1])
  <2>1. /\ n < Len(log) /\ n \in 0..Len(log) /\ n \in Nat /\ n + 1 \in 1..Len(log)
        /\ n + 1 \in 0..Len(log)
    BY <1>3, <1>10, <2>0 DEF Replay
  <2>2. /\ log[n + 1] \in Command \ Refused /\ book[p] \in Seq(Command)
        /\ stage[p] \in {"standby", "stopReplica", "catchUp"} /\ UpTo(p, n)
    BY <1>3, <1>4, <1>10, <2>0, <2>1, ElementOfSeq DEF InStage, Waiting, Promoting
  <2>3. /\ book' = [book EXCEPT ![p] = new]
        /\ replayed' = [replayed EXCEPT ![p] = n + 1]
        /\ UNCHANGED <<held, stage, checkpoint, replicating>>
    BY <1>10, <2>0, <2>2 DEF Replay, Apply
  <2>4. /\ new \in Seq(Command) /\ Holds(new, log[n + 1])
        /\ \A d : Holds(book[p], d) => Holds(new, d)
    BY <2>2, AppendHolds
  <2>5. SubSeq(log, 1, n + 1) = Append(SubSeq(log, 1, n), log[n + 1])
    BY <1>3, <2>1, PrefixGrows
  <2>6. UpTo(p, n + 1)'
    <3>1. \A i \in 1..n + 1 : i \in 1..n \/ i = n + 1
      BY <2>1
    <3>2. book'[p] = new /\ \A i \in 1..n + 1 : Holds(new, log[i])
      BY <1>3, <2>2, <2>3, <2>4, <3>1 DEF UpTo
    <3>3. Clean => new = SubSeq(log, 1, n + 1)
      BY <2>2, <2>5 DEF UpTo
    <3> HIDE DEF new
    <3>4. QED
      BY <1>2, <3>2, <3>3 DEF UpTo, Holds
  <2> HIDE DEF new
  <2>7. InStage(p)'
    <3>1. replayed'[p] = n + 1 /\ stage'[p] = stage[p] /\ replicating'[p] = replicating[p]
      BY <1>3, <2>3
    <3>2. UpTo(p, replayed[p])'
      BY <2>6, <3>1 DEF UpTo
    <3>3. QED
      BY <1>1, <1>3, <1>5, <2>2, <3>1, <3>2 DEF InStage, HeldBy
  <2>8. QED
    BY <1>1, <1>2, <2>1, <2>3, <2>4, <2>7, NodeChanges
<1>11. QED
  BY <1>7, <1>8, <1>9, <1>10

\* A delivery begins, is settled by the node that goes on consuming, or a call for it fails.
LEMMA MessagesKeep ==
  ASSUME KeepInv, NodeShape, NEW p \in Process, UNCHANGED <<nodeVars, nodeFaults>>,
         Deliver(p) \/ Acknowledge(p) \/ RefuseForeign(p) \/ CallFails(p) \/ RejectFails(p)
  PROVE  KeepInv'
<1>1. /\ UNCHANGED <<sent, log, eventLog, snapshot, readModel, entry, leader, book, held,
                     crashes, doubts, consuming, stage, checkpoint, replayed, replicating,
                     renewing>>
      /\ \E s \in {"idle", "checkLeadership", "reject"} : handler' = [handler EXCEPT ![p] = s]
      /\ delivery' = delivery \/ \E c : delivery' = [delivery EXCEPT ![p] = c]
      /\ dlq' = dlq \/ (handler[p] # "idle" /\ dlq' = dlq \cup {delivery[p]})
      /\ \/ failures' = failures /\ handler[p] \in {"idle", "checkLeadership", "checkBeforeAck", "ack"}
         \/ failures < MaxFailures /\ failures' = failures + 1
  BY DEF Deliver, Acknowledge, EndDelivery, RefuseForeign, CallFails, RejectFails, DeadLetter,
         Settle, At, GoTo, apiVars, brokerVars, storeVars, faultVars, nodeVars
<1>2. /\ handler \in [Process -> HandlerStep] /\ failures \in Nat
      /\ delivery \in [Process -> Command \cup {Nobody}]
      /\ handler[p] # "idle" => delivery[p] \in Command
  BY DEF KeepInv, Sound, IInv, Shape, OneTurn
<1>3. IInv'
  <2>1. [Next]_vars
    BY DEF Next, HandlerNext, QuietStep
  <2>2. QED
    BY <2>1, ShapeKeeps, StepKeeps DEF KeepInv, Sound, IInv
<1>4. LogKnown'
  <2>1. /\ handler'[p] \in {"idle", "checkLeadership", "ack", "reject"}
        /\ \A q \in Process \ {p} : handler'[q] = handler[q] /\ delivery'[q] = delivery[q]
    BY <1>1, <1>2
  <2>2. \A c \in Command : status'[c] = "PROCESSED" => status[c] = "PROCESSED"
    BY DEF Deliver, Acknowledge, EndDelivery, RefuseForeign, CallFails, RejectFails, Rejection,
           storeVars, KeepInv, Sound, IInv, Shape
  <2>3. QED
    BY <1>1, <2>1, <2>2, ForgettingKnows DEF KeepInv, Sound
<1>5. InStage(p)'
  <2>1. InStage(p) /\ (Clean' => Clean /\ handler[p] \notin Executed)
    BY <1>1, <1>2 DEF KeepInv, Clean, Executed
  <2>2. handler'[p] \notin Executed \cup Logged
    BY <1>1, <1>2 DEF Executed, Logged
  <2>3. BookSound(p) => BookSound(p)'
    BY <1>1, <2>1, <2>2, SoundAtRest
  <2>4. \A n : UpTo(p, n) => UpTo(p, n)'
    BY <1>1, <2>1 DEF UpTo, Holds
  <2>5. QED
    BY <1>1, <2>1, <2>3, <2>4 DEF InStage, HeldBy
<1>6. dlq' = dlq \/ (delivery[p] \in Command /\ dlq' = dlq \cup {delivery[p]})
  BY <1>1, <1>2
<1>7. \E s : handler' = [handler EXCEPT ![p] = s]
  BY <1>1
<1>8. QED
  BY <1>1, <1>3, <1>4, <1>5, <1>6, <1>7, NodeChanges

\* handleLeadershipLost, called by the handler of the node that consumes, or a crash.
LEMMA EndsKeep ==
  ASSUME KeepInv, NodeShape, KeyIsKept, NEW p \in Process,
         (stage[p] # "confirm" /\ HandlerReports(p)) \/ NodeCrash(p)
  PROVE  KeepInv'
<1>1. handler[p] # "idle" => delivery[p] # Nobody /\ delivery[p] \in Command
                             /\ (stage[p] # "confirm" => stage[p] = "active")
  BY DEF KeepInv, Sound, IInv, Shape, OneTurn, KeyIsKept
<1>2. /\ UNCHANGED <<sent, log, eventLog, snapshot, readModel, status, entry, dlq, leader, failures>>
      /\ handler' = [handler EXCEPT ![p] = "idle"]
      /\ delivery' = delivery \/ delivery' = [delivery EXCEPT ![p] = Nobody]
  BY DEF HandlerReports, ReportingStep, GiveBack, HandBack, NackAndRequeue, Requeue, CheckSaysNo,
         AcknowledgeAndReport, AcknowledgeLast, EndDelivery, NodeCrash, LoseProcess, LoseMemory,
         EndProcess, Settle, GoTo, apiVars, brokerVars, storeVars
<1>3. /\ \E s \in {"cancelConsumer", "down"} : stage' = [stage EXCEPT ![p] = s]
      /\ consuming' = [consuming EXCEPT ![p] = FALSE]
      /\ renewing' = [renewing EXCEPT ![p] = FALSE]
      /\ replicating' = replicating \/ replicating' = [replicating EXCEPT ![p] = FALSE]
      /\ checkpoint' = checkpoint \/ checkpoint' = [checkpoint EXCEPT ![p] = 0]
      /\ replayed' = replayed \/ replayed' = [replayed EXCEPT ![p] = 0]
      /\ book' = book \/ book' = [book EXCEPT ![p] = <<>>]
      /\ held' = held \/ held' = [held EXCEPT ![p] = Nobody]
  <2>1. CASE NodeCrash(p)
    BY <2>1 DEF NodeCrash, LoseProcess, LoseMemory, EndProcess, Enter
  <2>2. CASE stage[p] # "confirm" /\ HandlerReports(p)
    <3>1. handler[p] # "idle"
      BY <2>2 DEF HandlerReports, ReportingStep, GiveBack, HandBack, AcknowledgeAndReport,
                  AcknowledgeLast, At
    <3>2. stage[p] = "active" /\ stopping[p] = "no"
      BY <1>1, <2>2, <3>1 DEF KeyIsKept
    <3>3. HandleLeadershipLost(p, renewing)
          /\ UNCHANGED <<replicating, checkpoint, replayed, book, held>>
      BY <2>2 DEF HandlerReports, KeyIsKept
    <3>4. orphan[p] = FALSE
      BY DEF KeyIsKept, NodeShape
    <3>5. QED
      BY <3>2, <3>3, <3>4 DEF HandleLeadershipLost, StopConsumer, Enter, Promoting, Demoting
  <2>3. QED
    BY <2>1, <2>2
<1>4. /\ crashes' = crashes \/ (crashes < MaxCrashes /\ crashes' = crashes + 1)
      /\ doubts' = doubts \/ (doubts < MaxDoubts /\ doubts' = doubts + 1)
  BY DEF HandlerReports, ReportingStep, GiveBack, HandBack, CheckSaysNo, AcknowledgeAndReport,
         AcknowledgeLast, EndDelivery, NodeCrash, LoseProcess, LoseMemory
<1>5. Settles(p) \/ Returns(p) \/ Leaves(p)
  <2>1. CASE NodeCrash(p)
    BY <2>1 DEF NodeCrash, LoseProcess, LoseMemory, Returns, Leaves, Parts, apiVars, storeVars
  <2>2. CASE HandlerReports(p)
    BY <1>1, <1>3, <2>2
       DEF HandlerReports, ReportingStep, GiveBack, HandBack, NackAndRequeue, AcknowledgeAndReport,
           AcknowledgeLast, EndDelivery, At, Settles, Returns, Parts, apiVars, storeVars
  <2>3. QED
    BY <2>1, <2>2
<1>6. IInv'
  BY <1>2, <1>5, KindKeepsInv DEF KeepInv, Sound, IInv, Shape
<1>7. LogKnown'
  <2>1. /\ handler'[p] = "idle"
        /\ \A q \in Process \ {p} : handler'[q] = handler[q] /\ delivery'[q] = delivery[q]
    BY <1>2 DEF KeepInv, Sound, IInv, Shape
  <2>2. QED
    BY <1>2, <2>1, ForgettingKnows DEF KeepInv, Sound
<1>8. InStage(p)'
  <2>1. /\ stage'[p] \in {"cancelConsumer", "down"} /\ ~consuming'[p] /\ ~renewing'[p]
    BY <1>3 DEF NodeShape
  <2>2. ~replicating'[p]
    <3>1. CASE NodeCrash(p)
      BY <3>1 DEF NodeCrash, EndProcess, KeepInv
    <3>2. CASE stage[p] # "confirm" /\ HandlerReports(p)
      <4>1. stage[p] = "active"
        BY <1>1, <3>2 DEF HandlerReports, ReportingStep, GiveBack, HandBack, AcknowledgeAndReport,
                          AcknowledgeLast, At
      <4>2. QED
        BY <3>2, <4>1 DEF HandlerReports, KeepInv, InStage
    <3>3. QED
      BY <3>1, <3>2
  <2>3. QED
    BY <2>1, <2>2 DEF InStage, Waiting, Promoting
<1>9. 0 \in 0..Len(log) /\ <<>> \in Seq(Command)
  BY LenProperties, EmptySeq DEF KeepInv, Sound, IInv, Shape
<1>10. /\ \E s : stage' = [stage EXCEPT ![p] = s]
       /\ \E b : consuming' = [consuming EXCEPT ![p] = b]
       /\ \E b : renewing' = [renewing EXCEPT ![p] = b]
       /\ replicating' = replicating
            \/ \E b \in BOOLEAN : replicating' = [replicating EXCEPT ![p] = b]
       /\ checkpoint' = checkpoint
            \/ \E n \in 0..Len(log) : checkpoint' = [checkpoint EXCEPT ![p] = n]
       /\ replayed' = replayed
            \/ \E n \in 0..Len(log) : replayed' = [replayed EXCEPT ![p] = n]
       /\ book' = book \/ \E b \in Seq(Command) : book' = [book EXCEPT ![p] = b]
       /\ handler' = handler \/ \E s : handler' = [handler EXCEPT ![p] = s]
       /\ delivery' = delivery \/ \E c : delivery' = [delivery EXCEPT ![p] = c]
  BY <1>2, <1>3, <1>9
<1>11. leader' \in {leader, p, Nobody} /\ dlq' = dlq
  BY <1>2
<1>12. QED
  BY <1>2, <1>3, <1>4, <1>6, <1>7, <1>8, <1>10, <1>11, NodeChanges

\* The handler's calls to the stores: only the standbys look on, and what they have
\* replayed is a beginning of the longer log too.
LEMMA StoringKeeps ==
  ASSUME KeepInv, NodeShape, KeyIsKept, NEW p \in Process, UNCHANGED <<nodeVars, nodeFaults>>,
         StoreStep(p)
  PROVE  KeepInv'
<1>1. /\ handler[p] # "idle"
      /\ UNCHANGED <<stage, checkpoint, replayed, replicating, renewing, consuming>>
      /\ log' = log \/ log' = Append(log, delivery[p])
      /\ book' = book \/ \E b : book' = [book EXCEPT ![p] = b]
      /\ failures' = failures \/ failures' = failures + 1
  BY DEF StoreStep, Accept, SkipProcessed, Execute, StillLeads, AppendCommand, AppendEvents,
         SaveReadModel, SaveSnapshot, SaveProcessed, SaveSkipped, SaveRejected, CallReturns, At,
         nodeVars, storeVars, faultVars
<1>2. /\ delivery[p] \in Command /\ consuming[p] /\ BookSound(p) /\ HeldBy(p) /\ leader = p
      /\ log \in Seq(Command) /\ Len(log) \in Nat /\ failures \in Nat
      /\ book \in [Process -> Seq(Command)]
  BY <1>1, LenProperties
     DEF KeepInv, Sound, RestTypes, IInv, Shape, OneTurn, InStage, KeyIsKept, HeldBy, Promoting
<1>3. StoredBooks' /\ NoneHeld' /\ BookSound(p)'
  BY <1>2, HandlerStores DEF KeepInv, Sound, IInv, Shape
<1>4. RestTypes'
  BY <1>2, HandlerTypes DEF KeepInv, Sound, IInv, Shape
<1>5. IInv' /\ [Promise!Next]_(Promise!vars)
  <2>1. [Next]_vars
    BY DEF Next, HandlerNext, QuietStep
  <2>2. QED
    BY <2>1, ShapeKeeps, StepKeeps DEF KeepInv, Sound, IInv
<1>6. PromiseInv' /\ LogKnown'
  BY <1>5, PromiseKeeps, HandlerKnows DEF KeepInv, Sound
<1>7. /\ Len(log') \in {Len(log), Len(log) + 1} /\ 0..Len(log) \subseteq 0..Len(log')
      /\ \A i \in 1..Len(log) : log'[i] = log[i]
      /\ \A n \in 0..Len(log) : SubSeq(log', 1, n) = SubSeq(log, 1, n)
  <2>1. CASE log' = log
    BY <1>2, <2>1
  <2>2. CASE log' = Append(log, delivery[p])
    <3>1. Len(log') = Len(log) + 1 /\ \A i \in 1..Len(log) : log'[i] = log[i]
      BY <1>2, <2>2, AppendProperties
    <3>2. 0..Len(log) \subseteq 0..Len(log')
      BY <1>2, <3>1
    <3>3. \A n \in 0..Len(log) : SubSeq(log', 1, n) = SubSeq(log, 1, n)
      BY <1>2, <2>2, PrefixOfAppend
    <3>4. QED
      BY <3>1, <3>2, <3>3
  <2>3. QED
    BY <1>1, <2>1, <2>2
<1>8. checkpoint' \in [Process -> 0..Len(log')] /\ replayed' \in [Process -> 0..Len(log')]
  BY <1>1, <1>7 DEF KeepInv
<1>9. ASSUME NEW q \in Process PROVE InStage(q)'
  <2>1. InStage(q) /\ checkpoint[q] \in 0..Len(log) /\ replayed[q] \in 0..Len(log)
    BY DEF KeepInv
  <2>2. CASE q = p
    <3>1. stage[p] \in {"confirm", "active"}
      BY <1>2 DEF KeyIsKept
    <3>2. BookSound(q)'
      BY <1>3, <2>2 DEF BookSound, Holds
    <3>3. QED
      BY <1>1, <2>1, <2>2, <3>1, <3>2 DEF InStage, HeldBy, Waiting, Promoting
  <2>3. CASE q # p
    <3>1. ~HeldBy(q) /\ ~consuming[q]
      BY <1>2, <2>3 DEF KeyIsKept, HeldBy, Promoting
    <3>2. book'[q] = book[q] /\ (Clean' => Clean)
      BY <1>1, <1>2, <2>3 DEF Clean
    <3>3. ASSUME NEW n \in 0..Len(log), UpTo(q, n)
          PROVE  (\A i \in 1..n : Holds(book'[q], log'[i])) /\ (Clean' => book'[q] = SubSeq(log', 1, n))
      <4>1. \A i \in 1..n : i \in 1..Len(log)
        BY <1>2
      <4>2. QED
        BY <1>7, <3>2, <3>3, <4>1 DEF UpTo
    <3>4. stage[q] = "replayRest" => UpTo(q, checkpoint[q])'
      BY <1>1, <2>1, <3>3 DEF InStage, UpTo, Holds
    <3>5. stage[q] \in Waiting => UpTo(q, replayed[q])'
      BY <1>1, <2>1, <3>3 DEF InStage, UpTo, Holds
    <3>6. QED
      BY <1>1, <2>1, <3>1, <3>2, <3>4, <3>5 DEF InStage, HeldBy, Promoting
  <2>4. QED
    BY <2>2, <2>3
<1>10. replicating' \in [Process -> BOOLEAN]
  BY <1>1 DEF KeepInv
<1>11. QED
  BY <1>3, <1>4, <1>5, <1>6, <1>8, <1>9, <1>10 DEF KeepInv, Sound

\* The steps that are no node's.
LEMMA OutsideKeeps ==
  ASSUME KeepInv,
         Expire \/ (Api /\ UNCHANGED <<nodeVars, nodeFaults>>) \/ UNCHANGED allVars
  PROVE  KeepInv'
<1>1. UNCHANGED <<log, eventLog, snapshot, readModel, entry, book, held, handler, delivery,
                  consuming, stage, checkpoint, replayed, replicating, renewing>>
  <2>1. CASE Expire
    BY <2>1 DEF Expire, LoseKey, apiVars, brokerVars, storeVars, nodeVars
  <2>2. CASE Api /\ UNCHANGED <<nodeVars, nodeFaults>>
    BY <2>2 DEF Api, SaveQueued, Publish, PublishFails, brokerVars, storeVars, processVars,
                nodeVars
  <2>3. CASE UNCHANGED allVars
    BY <2>3 DEF allVars, vars, brokerVars, storeVars, processVars, nodeVars
  <2>4. QED
    BY <2>1, <2>2, <2>3
<1>2. failures' = failures \/ failures' = failures + 1
  BY DEF Expire, LoseKey, Api, SaveQueued, Publish, PublishFails, allVars, vars, faultVars
<1>3. Clean' => Clean
  BY <1>2 DEF KeepInv, Sound, IInv, Shape, Clean
<1>4. RestTypes'
  <2>1. CASE Expire
    BY <1>1, <2>1 DEF Expire, LoseKey, brokerVars, faultVars, KeepInv, Sound, RestTypes
  <2>2. CASE ~Expire
    BY <2>2, OtherTypes DEF KeepInv, Sound, allVars
  <2>3. QED
    BY <2>1, <2>2
<1>5. IInv' /\ [Promise!Next]_(Promise!vars)
  <2>1. CASE Expire
    <3>1. UNCHANGED <<request, status, sent, queue, delivery, handler, log, eventLog, failures,
                      consuming>>
      BY <2>1 DEF Expire, LoseKey, apiVars, brokerVars, storeVars, faultVars
    <3>2. QED
      BY <3>1, TurnKeepsInv DEF KeepInv, Sound, IInv, Shape, OneTurn, Promise!vars
  <2>2. CASE ~Expire
    <3>1. [Next]_vars
      BY <2>2 DEF Next, allVars
    <3>2. QED
      BY <3>1, ShapeKeeps, StepKeeps DEF KeepInv, Sound, IInv
  <2>3. QED
    BY <2>1, <2>2
<1>6. LogKnown'
  <2>1. status' = status \/ \E c \in Command : status' = [status EXCEPT ![c] = "QUEUED"]
    BY DEF Expire, LoseKey, Api, SaveQueued, Publish, PublishFails, allVars, vars, storeVars
  <2>2. QED
    BY <1>1, <2>1, OthersKnow DEF KeepInv, Sound, IInv, Shape
<1>7. StoredBooks' /\ NoneHeld'
  BY <1>1, <1>3, StillStores DEF KeepInv, Sound
<1>8. ASSUME NEW q \in Process PROVE InStage(q)'
  BY <1>1, <1>3, AsideStays DEF KeepInv
<1>9. PromiseInv'
  BY <1>5, PromiseKeeps DEF KeepInv, Sound
<1>10. QED
  BY <1>1, <1>4, <1>5, <1>6, <1>7, <1>8, <1>9 DEF KeepInv, Sound

LEMMA KStepKeeps ==
  ASSUME KInv, [NodeNext]_allVars
  PROVE  KInv'
<1>1. NInv' /\ NodeShape
  BY NStepKeeps DEF KInv, NInv
<1>2. ASSUME NoLoss' PROVE KeepInv'
  <2>1. NoLoss /\ KeepInv /\ KeyIsKept
    BY <1>1, <1>2, LossesStay DEF KInv, NInv
  <2>2. ~ExpireInUse /\ \A p \in Process : ~Stop(p) /\ ~ConfirmFails(p)
    BY <1>1, <1>2, <2>1 DEF NoLoss, NodeShape, ExpireInUse, Stop, ConfirmFails
  <2>3. \A p \in Process : ~StopReplica(p) /\ ~StopRelease(p) /\ ~Exit(p)
    BY <2>1 DEF KeyIsKept, StopReplica, StopRelease, Exit
  <2>4. \A p \in Process : ~RenewalFails(p)
    BY <2>1 DEF RenewalFails, KeyIsKept, KeepInv, InStage
  <2>5. ASSUME NEW p \in Process, NodeStep(p) \/ PromotionFails(p) \/ Boot(p) PROVE KeepInv'
    BY <1>1, <2>1, <2>3, <2>4, <2>5, PromotionKeeps, ConsumerStarts, RebuildingKeeps DEF NodeStep
  <2>6. ASSUME NEW p \in Process, HandlerStepOrReport(p) \/ HandlerFails(p) PROVE KeepInv'
    BY <1>1, <2>1, <2>6, MessagesKeep, StoringKeeps, EndsKeep
       DEF HandlerStepOrReport, HandlerFails, QuietStep
  <2>7. ASSUME NEW p \in Process,
               NodeCrash(p) \/ (Deliver(p) /\ UNCHANGED <<nodeVars, nodeFaults>>)
        PROVE  KeepInv'
    BY <1>1, <2>1, <2>7, MessagesKeep, EndsKeep
  <2>8. ASSUME Expire \/ (Api /\ UNCHANGED <<nodeVars, nodeFaults>>) \/ UNCHANGED allVars
        PROVE  KeepInv'
    BY <2>1, <2>8, OutsideKeeps
  <2>9. CASE \E p \in Process :
               \/ Deliver(p) /\ UNCHANGED <<nodeVars, nodeFaults>>
               \/ HandlerStepOrReport(p) \/ HandlerFails(p)
               \/ NodeStep(p) \/ PromotionFails(p) \/ ConfirmFails(p)
               \/ Stop(p) \/ NodeCrash(p) \/ Boot(p)
    BY <2>2, <2>5, <2>6, <2>7, <2>9
  <2>10. QED
    BY <2>2, <2>8, <2>9 DEF NodeNext, NodeAction
<1>3. QED
  BY <1>1, <1>2 DEF KInv

LEMMA KeepInvariance == NodeSpec => []KInv
<1>1. NodeInit => KInv
  <2> SUFFICES ASSUME NodeInit PROVE KInv
    OBVIOUS
  <2>1. Init
    BY DEF NodeInit
  <2>2. IInv /\ StatusInv /\ ReplayInv /\ PromiseInv
    BY <2>1, InitIsInvariant, StatusInitially, ReplayInitially, PromiseInitially
  <2>3. NInv
    BY DEF NodeInit, Init, NInv, NodeShape, KeyIsKept, HeldBy, Promoting
  <2>4. 0 \in 0..Len(log)
    BY <2>2, LenProperties DEF IInv, Shape
  <2>5. \A p \in Process : InStage(p)
    BY DEF NodeInit, Init, InStage, Waiting, Promoting
  <2>6. KeepInv
    BY <2>2, <2>4, <2>5 DEF NodeInit, KeepInv, Sound, ReplayInv, StatusInv
  <2>7. QED
    BY <2>3, <2>6 DEF KInv
<1>2. QED
  BY <1>1, KStepKeeps, PTL DEF NodeSpec

\* As long as no key expires in use, no node is stopped and no promotion fails at its last
\* check, the nodes of a partition pass it on without harm, through crashes, restarts,
\* promotions that fail elsewhere, doubtful leadership checks, demotions and failing calls of
\* the handlers: its log and its event stream keep the queue's order and repeat nothing, and
\* a recovery builds a book with every PROCESSED command in it
\* (MatchingNode.attemptPromotion and handleLeadershipLost).
THEOREM FailoversKeepPromise ==
  NodeSpec => [](NoLoss => Promise!Once /\ Promise!InOrder /\ ProcessedSurvives)
<1>1. KeepInv => Promise!Once /\ Promise!InOrder
  BY PromiseComesTo DEF KeepInv, Sound
<1>2. KeepInv => ProcessedSurvives
  BY LoggedSurvives DEF KeepInv, Sound
<1>3. KInv => (NoLoss => Promise!Once /\ Promise!InOrder /\ ProcessedSurvives)
  BY <1>1, <1>2 DEF KInv
<1>4. QED
  BY <1>3, KeepInvariance, PTL

\* Provided that no command throws after it has changed the book, and as long as the key
\* gives one consumer and no call of a handler has failed, the book of every standby is the
\* log up to where its replay has come, after a demotion too (MatchingNode.js:188-189), and a
\* recovery's snapshot is such a book.
THEOREM StandbysFollowLog ==
  ASSUME HalfApplied = {}
  PROVE  NodeSpec => [](StandbyFollowsLog /\ (NoLoss /\ failures = 0 => SnapshotIsReplay))
<1>1. KInv => StandbyFollowsLog
  BY DEF KInv, KeepInv, InStage, Waiting, UpTo, Clean, StandbyFollowsLog
<1>2. KeepInv /\ failures = 0 => SnapshotIsReplay
  BY DEF KeepInv, Sound, StoredBooks, Clean, SnapshotIsReplay
<1>3. KInv => StandbyFollowsLog /\ (NoLoss /\ failures = 0 => SnapshotIsReplay)
  BY <1>1, <1>2 DEF KInv
<1>4. QED
  BY <1>3, KeepInvariance, PTL

-----------------------------------------------------------------------------
(* The nodes take turns: MatchingNode implements CommandWorker *)

LEMMA TurnOf ==
  ASSUME NEW p \in Process, \A q \in Process : consuming[q] => q = p
  PROVE  TurnLeader = IF consuming[p] THEN p ELSE Nobody
BY DEF TurnLeader

LEMMA NextTurnOf ==
  ASSUME NEW p \in Process, \A q \in Process : consuming'[q] => q = p
  PROVE  TurnLeader' = IF consuming'[p] THEN p ELSE Nobody
BY DEF TurnLeader

\* The turn passes only when a consumer starts or ends.
LEMMA TurnStays ==
  ASSUME OneTurn, consuming' = consuming PROVE TurnLeader' = TurnLeader
<1>1. CASE \E p \in Process : consuming[p]
  <2>1. PICK p \in Process : consuming[p]
    BY <1>1
  <2>2. \A q \in Process : consuming[q] => q = p
    BY <2>1 DEF OneTurn
  <2>3. \A q \in Process : consuming'[q] => q = p
    BY <2>2
  <2>4. QED
    BY <2>2, <2>3, TurnOf, NextTurnOf
<1>2. CASE ~\E p \in Process : consuming[p]
  BY <1>2 DEF TurnLeader
<1>3. QED
  BY <1>1, <1>2

\* A node that does not consume may build its book: no turn sees it.
LEMMA AsideIsStutter ==
  ASSUME OneTurn, UNCHANGED <<apiVars, brokerVars, storeVars, handler, held, entry, faultVars>>,
         consuming' = consuming, \A q \in Process : consuming[q] => book'[q] = book[q]
  PROVE  UNCHANGED Turns!vars
<1>1. TurnLeader' = TurnLeader
  BY TurnStays
<1>2. TurnBook' = TurnBook
  BY DEF TurnBook
<1>3. QED
  BY <1>1, <1>2 DEF apiVars, brokerVars, storeVars, faultVars, Turns!vars, Turns!apiVars,
     Turns!brokerVars, Turns!storeVars, Turns!processVars, Turns!faultVars

\* What the handler of a consumer does, it does in its turn.
LEMMA HandlerTakesTurn ==
  ASSUME OneTurn, NEW p \in Process, consuming[p], leader = p, QuietStep(p),
         book \in [Process -> Seq(Command)]
  PROVE  Turns!QuietStep(p)
<1> USE DEF At, GoTo, Leads, Settle, Turns!At, Turns!GoTo, Turns!Leads, Turns!Settle,
        apiVars, brokerVars, storeVars, faultVars, Turns!apiVars, Turns!brokerVars,
        Turns!storeVars, Turns!faultVars
<1>1. TurnLeader = p /\ TurnBook[p] = book[p]
  BY TurnOf DEF OneTurn, TurnBook
<1>2. UNCHANGED consuming => TurnLeader' = TurnLeader
  BY TurnStays
<1>3. UNCHANGED <<consuming, book>> => TurnBook' = TurnBook
  BY DEF TurnBook
<1>4. Turns!Following = Following
  BY DEF Following, Turns!Following
<1>5. \A s : CallReturns(p, s) => Turns!CallReturns(p, s)
  BY <1>4 DEF CallReturns, Turns!CallReturns
<1>6. Turns!HeldBook(p) = HeldBook(p)
  BY <1>1 DEF HeldBook, Turns!HeldBook
<1>7. \A c : Turns!IsProcessed(c) <=> IsProcessed(c)
  BY DEF IsProcessed, Turns!IsProcessed, ToSet, Turns!ToSet
<1>8. CASE Accept(p)
  BY <1>1, <1>2, <1>3, <1>8 DEF Accept, Turns!Accept, Turns!QuietStep, Turns!StoreStep
<1>9. CASE SkipProcessed(p)
  BY <1>2, <1>3, <1>9, <1>7 DEF SkipProcessed, Turns!SkipProcessed, Turns!QuietStep,
     Turns!StoreStep
<1>10. CASE Execute(p)
  <2>1. TurnBook' = [TurnBook EXCEPT ![p] = Apply(@, delivery[p])]
    BY <1>1, <1>10 DEF Execute, TurnBook
  <2>2. \A b, c : Turns!Apply(b, c) = Apply(b, c) /\ (Turns!Throws(c) <=> Throws(c))
    BY DEF Apply, Turns!Apply, Throws, Turns!Throws
  <2>3. QED
    BY <1>1, <1>2, <1>10, <1>7, <2>1, <2>2 DEF Execute, Turns!Execute, Turns!QuietStep,
       Turns!StoreStep
<1>11. CASE StillLeads(p)
  BY <1>1, <1>2, <1>3, <1>4, <1>11 DEF StillLeads, Turns!StillLeads, Turns!QuietStep,
     Turns!StoreStep
<1>12. CASE AppendCommand(p)
  BY <1>2, <1>3, <1>5, <1>12 DEF AppendCommand, Turns!AppendCommand, NewEntry, Turns!NewEntry,
     Turns!QuietStep, Turns!StoreStep
<1>13. CASE AppendEvents(p)
  BY <1>2, <1>3, <1>5, <1>13 DEF AppendEvents, Turns!AppendEvents, Turns!QuietStep,
     Turns!StoreStep
<1>14. CASE SaveReadModel(p)
  BY <1>2, <1>3, <1>5, <1>6, <1>14 DEF SaveReadModel, Turns!SaveReadModel, Turns!QuietStep,
     Turns!StoreStep
<1>15. CASE SaveSnapshot(p)
  BY <1>2, <1>3, <1>5, <1>6, <1>15 DEF SaveSnapshot, Turns!SaveSnapshot, Turns!QuietStep,
     Turns!StoreStep
<1>16. CASE SaveProcessed(p)
  BY <1>2, <1>3, <1>5, <1>16 DEF SaveProcessed, Turns!SaveProcessed, Turns!QuietStep,
     Turns!StoreStep
<1>17. CASE SaveSkipped(p)
  BY <1>2, <1>3, <1>17 DEF SaveSkipped, Turns!SaveSkipped, Turns!QuietStep, Turns!StoreStep
<1>18. CASE SaveRejected(p)
  BY <1>2, <1>3, <1>18 DEF SaveRejected, Turns!SaveRejected, Rejection,
     Turns!Rejection, AfterRejection, Turns!AfterRejection, Turns!QuietStep, Turns!StoreStep
<1>19. CASE RefuseForeign(p)
  BY <1>1, <1>2, <1>3, <1>19 DEF RefuseForeign, Turns!RefuseForeign, DeadLetter,
     Turns!DeadLetter, Turns!QuietStep
<1>20. CASE Acknowledge(p)
  BY <1>1, <1>2, <1>3, <1>20 DEF Acknowledge, Turns!Acknowledge, EndDelivery,
     Turns!EndDelivery, Turns!QuietStep
<1>21. QED
  BY <1>8, <1>9, <1>10, <1>11, <1>12, <1>13, <1>14, <1>15, <1>16, <1>17, <1>18, <1>19, <1>20
     DEF QuietStep, StoreStep

\* The turn of a consumer that reports a loss, or whose process ends, is over.
LEMMA TurnEnds ==
  ASSUME OneTurn, Shape, NEW p \in Process, consuming' = [consuming EXCEPT ![p] = FALSE],
         \A q \in Process : q # p => book'[q] = book[q]
  PROVE  /\ TurnLeader' = IF TurnLeader = p THEN Nobody ELSE TurnLeader
         /\ TurnBook' = [TurnBook EXCEPT ![p] = <<>>]
         /\ consuming[p] => TurnLeader' = Nobody
<1>1. TurnBook' = [TurnBook EXCEPT ![p] = <<>>]
  BY DEF Shape, TurnBook
<1>2. consuming \in [Process -> BOOLEAN] /\ p # Nobody
  BY CommandAssumption DEF Shape
<1>3. CASE consuming[p]
  <2>1. \A q \in Process : (consuming[q] => q = p) /\ ~consuming'[q]
    BY <1>2, <1>3 DEF OneTurn
  <2>2. TurnLeader = p /\ TurnLeader' = Nobody
    BY <1>2, <1>3, <2>1, TurnOf DEF TurnLeader
  <2>3. QED
    BY <1>1, <2>2
<1>4. CASE ~consuming[p]
  <2>1. consuming' = consuming
    BY <1>2, <1>4
  <2>2. TurnLeader' = TurnLeader
    BY <2>1, TurnStays
  <2>3. TurnLeader # p
    <3>1. CASE \E q \in Process : consuming[q]
      <4>1. PICK q \in Process : consuming[q]
        BY <3>1
      <4>2. \A r \in Process : consuming[r] => r = q
        BY <4>1 DEF OneTurn
      <4>3. QED
        BY <1>4, <4>1, <4>2, TurnOf
    <3>2. CASE ~\E q \in Process : consuming[q]
      BY <1>2, <3>2 DEF TurnLeader
    <3>3. QED
      BY <3>1, <3>2
  <2>4. QED
    BY <1>1, <1>4, <2>2, <2>3
<1>5. QED
  BY <1>3, <1>4

\* A recovery of the abstract processes is a recovery of the nodes' stores.
LEMMA SameRecovery == Turns!RecoveredBook = RecoveredBook
BY DEF Turns!RecoveredBook, RecoveredBook, Turns!ApplyAll, ApplyAll, Turns!AfterCheckpoint,
   AfterCheckpoint, Turns!Apply, Apply

\* A node starts its consumer with the book that a recovery at this moment would give.
LEMMA StartTakesTurn ==
  ASSUME KeepInv, NodeShape, KeyIsKept, Clean, NEW p \in Process, StartConsumer(p)
  PROVE  Turns!Start(p) \/ UNCHANGED Turns!vars
<1>1. OneTurn /\ Shape
  BY DEF KeepInv, Sound, IInv
<1>2. /\ stage[p] = "startConsumer" /\ UNCHANGED <<leader, book, held>>
      /\ UNCHANGED <<apiVars, brokerVars, storeVars, handler, entry, faultVars>>
      /\ consuming' = consuming \/ consuming' = [consuming EXCEPT ![p] = TRUE]
  BY DEF StartConsumer, QuietStores
<1>3. CASE consuming' = consuming
  BY <1>1, <1>2, <1>3, AsideIsStutter
<1>4. CASE consuming' = [consuming EXCEPT ![p] = TRUE]
  <2>1. \A q \in Process : ~consuming[q]
    BY <1>2 DEF KeyIsKept, HeldBy, Promoting
  <2>2. \A q \in Process : consuming'[q] <=> q = p
    BY <1>1, <1>4, <2>1 DEF Shape
  <2>3. TurnLeader' = p
    BY <2>2, NextTurnOf
  <2>4. book[p] = log
    BY <1>1, <1>2, SubSeqFull DEF KeepInv, InStage, Waiting, Promoting, UpTo, Shape
  <2>5. RecoveredBook = log
    BY <1>1, RecoveryReaches DEF KeepInv, Sound, LogKnown, Shape
  <2>6. TurnBook' = [TurnBook EXCEPT ![p] = RecoveredBook]
    BY <1>2, <2>1, <2>2, <2>4, <2>5 DEF TurnBook
  <2>7. QED
    BY <1>2, <1>4, <2>1, <2>3, <2>6, SameRecovery DEF Turns!Start, apiVars, brokerVars,
       storeVars, faultVars, Turns!apiVars, Turns!brokerVars, Turns!storeVars, Turns!faultVars
<1>5. QED
  BY <1>2, <1>3, <1>4

\* A consumer that hands back its delivery, or only reports, ends its turn.
LEMMA ReportEndsTurn ==
  ASSUME KeepInv, NodeShape, KeyIsKept, NEW p \in Process, consuming[p], stage[p] # "confirm",
         HandlerReports(p)
  PROVE  Turns!ReportingStep(p) /\ Turns!StepDown(p)
<1>1. OneTurn /\ Shape
  BY DEF KeepInv, Sound, IInv
<1>2. stage[p] = "active" /\ stopping[p] = "no"
  BY DEF KeyIsKept
<1>3. consuming' = [consuming EXCEPT ![p] = FALSE] /\ UNCHANGED <<leader, book, held>>
  <2>1. orphan[p] = FALSE /\ ~reported[p]
    BY DEF KeyIsKept, NodeShape
  <2>2. QED
    BY <1>2, <2>1 DEF HandlerReports, HandleLeadershipLost, StopConsumer, Promoting, Demoting
<1>4. TurnLeader' = Nobody /\ TurnBook' = [TurnBook EXCEPT ![p] = <<>>]
  BY <1>1, <1>3, TurnEnds
<1>5. leader = p /\ TurnLeader = p
  BY <1>1, <1>2, TurnOf DEF KeyIsKept, HeldBy, OneTurn
<1>6. Turns!ReportingStep(p)
  <2>1. CheckSaysNo(p) => Turns!CheckSaysNo(p)
    BY <1>5 DEF CheckSaysNo, Turns!CheckSaysNo, Leads, Turns!Leads
  <2>2. HandBack(p) => Turns!HandBack(p)
    BY DEF HandBack, Turns!HandBack, At, Turns!At, GoTo, Turns!GoTo, NackAndRequeue,
       Turns!NackAndRequeue, Requeue, Turns!Requeue, Settle, Turns!Settle, apiVars,
       Turns!apiVars, storeVars, Turns!storeVars
  <2>3. AcknowledgeLast(p) => Turns!AcknowledgeLast(p)
    BY DEF AcknowledgeLast, Turns!AcknowledgeLast, EndDelivery, Turns!EndDelivery, At,
       Turns!At, GoTo, Turns!GoTo, Settle, Turns!Settle, apiVars, Turns!apiVars, storeVars,
       Turns!storeVars
  <2>4. QED
    BY <2>1, <2>2, <2>3 DEF HandlerReports, ReportingStep, GiveBack, AcknowledgeAndReport,
       Turns!ReportingStep, Turns!GiveBack, Turns!AcknowledgeAndReport
<1>7. QED
  BY <1>3, <1>4, <1>6 DEF Turns!StepDown

\* A crash of the node that consumes, or of one that waits.
LEMMA CrashEndsTurn ==
  ASSUME OneTurn, Shape, book \in [Process -> Seq(Command)], NEW p \in Process, NodeCrash(p)
  PROVE  Turns!Crash(p)
<1>1. LoseProcess(p) /\ UNCHANGED leader
  BY DEF NodeCrash, EndProcess
<1>2. /\ TurnLeader' = IF TurnLeader = p THEN Nobody ELSE TurnLeader
      /\ TurnBook' = [TurnBook EXCEPT ![p] = <<>>]
  BY <1>1, TurnEnds DEF LoseProcess, LoseMemory
<1>3. Turns!LoseMemory(p)
  BY <1>1, <1>2 DEF LoseProcess, LoseMemory, Turns!LoseMemory, GoTo, Turns!GoTo, Requeue,
     Turns!Requeue, Settle, Turns!Settle, apiVars, Turns!apiVars, storeVars, Turns!storeVars
<1>4. QED
  BY <1>1, <1>2, <1>3 DEF LoseProcess, Turns!Crash, Turns!LoseProcess

\* The steps by which a node without a consumer recovers, replays and promotes itself.
LEMMA NodeStepIsStutter ==
  ASSUME KeepInv, KeyIsKept, NEW p \in Process, ~ \E q \in Process : RenewalFails(q),
         Boot(p) \/ PromotionFails(p) \/ (NodeStep(p) /\ ~StartConsumer(p))
  PROVE  UNCHANGED Turns!vars
<1>1. OneTurn
  BY DEF KeepInv, Sound, IInv
<1>2. ASSUME stage[p] \notin {"confirm", "active"}, QuietStores, UNCHANGED <<consuming, held>>,
             \A q \in Process : q # p => book'[q] = book[q]
      PROVE  UNCHANGED Turns!vars
  <2>1. ~consuming[p]
    BY <1>2 DEF KeyIsKept
  <2>2. QED
    BY <1>1, <1>2, <2>1, AsideIsStutter DEF QuietStores
<1>3. ASSUME NEW b, stage[p] \notin {"confirm", "active"}, SetBook(p, b)
      PROVE  UNCHANGED held /\ \A q \in Process : q # p => book'[q] = book[q]
  <2>1. handler[p] = "idle"
    BY <1>3, AtRest DEF KeepInv, Sound
  <2>2. QED
    BY <1>3, <2>1 DEF SetBook, Detach, Following, KeepInv, Sound, RestTypes
<1>4. CASE Boot(p)
  BY <1>2, <1>3, <1>4 DEF Boot
<1>5. CASE Reset(p)
  BY <1>2, <1>3, <1>5 DEF Reset, ResetRegistry
<1>6. CASE LoadSnapshot(p)
  BY <1>2, <1>3, <1>6 DEF LoadSnapshot
<1>7. CASE ReplayRest(p)
  BY <1>2, <1>7 DEF ReplayRest, KeepInv, Sound, RestTypes
<1>8. CASE Replay(p)
  <2>1. stage[p] \in {"standby", "stopReplica", "catchUp"}
    BY <1>8 DEF Replay, KeepInv, InStage
  <2>2. QED
    BY <1>2, <1>8, <2>1 DEF Replay, KeepInv, Sound, RestTypes
<1>9. CASE TryAcquire(p) \/ ReplicaStopped(p) \/ CaughtUp(p) \/ Verify(p) \/ GiveUpPromotion(p)
           \/ PromotionFails(p)
  BY <1>2, <1>9 DEF TryAcquire, ReplicaStopped, CaughtUp, Verify, GiveUpPromotion, PromotionFails
<1>10. CASE Confirm(p)
  <2>1. leader = p /\ UNCHANGED <<consuming, book, held>> /\ QuietStores
    BY <1>10 DEF Confirm, HoldsKey, KeyIsKept, HeldBy, Promoting
  <2>2. QED
    BY <1>1, <2>1, AsideIsStutter DEF QuietStores
<1>11. QED
  BY <1>4, <1>5, <1>6, <1>7, <1>8, <1>9, <1>10
     DEF NodeStep, KeyIsKept, StopReplica, StopRelease, Exit

LEMMA NodeStepTakesTurn ==
  ASSUME KInv, NoLoss, Clean, NoLoss', failures' = 0, [NodeNext]_allVars
  PROVE  [Turns!Next]_(Turns!vars)
<1>1. KeepInv /\ NodeShape /\ KeyIsKept
  BY DEF KInv, NInv
<1>2. OneTurn /\ Shape /\ book \in [Process -> Seq(Command)]
  BY <1>1 DEF KeepInv, Sound, IInv, RestTypes
<1>3. ~ExpireInUse /\ \A p \in Process : ~Stop(p) /\ ~ConfirmFails(p) /\ ~RenewalFails(p)
  BY <1>1 DEF NoLoss, NodeShape, ExpireInUse, Stop, ConfirmFails, RenewalFails, KeyIsKept, KeepInv, InStage
<1>4. CASE Expire
  BY <1>2, <1>4, AsideIsStutter DEF Expire, LoseKey
<1>5. CASE Api /\ UNCHANGED <<nodeVars, nodeFaults>>
  <2>1. UNCHANGED processVars
    BY <1>5 DEF Api, SaveQueued, Publish, PublishFails, processVars
  <2>2. TurnLeader' = TurnLeader /\ TurnBook' = TurnBook
    BY <1>2, <2>1, TurnStays DEF processVars, TurnBook
  <2>3. UNCHANGED Turns!processVars
    BY <2>1, <2>2 DEF processVars, Turns!processVars
  <2>4. ASSUME NEW c \in Command, SaveQueued(c) \/ Publish(c) \/ PublishFails(c)
        PROVE  Turns!SaveQueued(c) \/ Turns!Publish(c) \/ Turns!PublishFails(c)
    BY <2>3, <2>4 DEF SaveQueued, Turns!SaveQueued, Publish, Turns!Publish, PublishFails,
       Turns!PublishFails, brokerVars, Turns!brokerVars, storeVars, Turns!storeVars, faultVars,
       Turns!faultVars
  <2>5. QED
    BY <1>5, <2>4 DEF Api, Turns!Api, Turns!Next
<1>6. ASSUME NEW p \in Process, Deliver(p) /\ UNCHANGED <<nodeVars, nodeFaults>>
      PROVE  Turns!Deliver(p)
  <2>1. UNCHANGED <<consuming, book>>
    BY <1>6 DEF Deliver
  <2>2. TurnLeader' = TurnLeader /\ TurnBook' = TurnBook
    BY <1>2, <2>1, TurnStays DEF TurnBook
  <2>3. QED
    BY <1>6, <2>2 DEF Deliver, Turns!Deliver, apiVars, Turns!apiVars, storeVars,
       Turns!storeVars, faultVars, Turns!faultVars
<1>7. ASSUME NEW p \in Process, HandlerStepOrReport(p)
      PROVE  Turns!HandlerNext(p)
  <2>1. consuming[p]
    <3>1. handler[p] # "idle"
      BY <1>7 DEF HandlerStepOrReport, HandlerReports, QuietStep, StoreStep, ReportingStep, At,
         GiveBack, HandBack, AcknowledgeAndReport, AcknowledgeLast, Acknowledge, RefuseForeign,
         Accept, SkipProcessed, Execute, StillLeads, AppendCommand, AppendEvents, SaveReadModel,
         SaveSnapshot, SaveProcessed, SaveSkipped, SaveRejected
    <3>2. QED
      BY <1>2, <3>1 DEF OneTurn
  <2>2. leader = p
    BY <1>1, <2>1 DEF KeyIsKept, HeldBy, Promoting
  <2>3. QED
    BY <1>1, <1>2, <1>7, <2>1, <2>2, HandlerTakesTurn, ReportEndsTurn
       DEF HandlerStepOrReport, Turns!HandlerNext
<1>8. ASSUME NEW p \in Process, NodeStep(p) \/ PromotionFails(p) \/ Boot(p)
      PROVE  Turns!Start(p) \/ UNCHANGED Turns!vars
  BY <1>1, <1>3, <1>8, StartTakesTurn, NodeStepIsStutter DEF NodeStep
<1>9. ASSUME NEW p \in Process, NodeCrash(p) PROVE Turns!Crash(p)
  BY <1>2, <1>9, CrashEndsTurn
<1>10. CASE UNCHANGED allVars
  BY <1>2, <1>10, AsideIsStutter DEF allVars, vars, processVars
<1>11. CASE \E p \in Process :
               \/ Deliver(p) /\ UNCHANGED <<nodeVars, nodeFaults>>
               \/ HandlerStepOrReport(p)
               \/ NodeStep(p) \/ PromotionFails(p) \/ NodeCrash(p) \/ Boot(p)
  BY <1>3, <1>6, <1>7, <1>8, <1>9, <1>11 DEF Turns!Next
<1>12. \A p \in Process : ~HandlerFails(p)
  BY DEF HandlerFails, CallFails, RejectFails, Clean
<1>13. QED
  BY <1>3, <1>4, <1>5, <1>10, <1>11, <1>12 DEF NodeNext, NodeAction

\* A failed call is not undone.
LEMMA FailuresStay ==
  ASSUME failures \in Nat, [NodeNext]_allVars, failures' = 0 PROVE failures = 0
<1> DEFINE Counts == failures' = failures \/ failures' = failures + 1
<1>1. ASSUME NEW p \in Process, NodeStep(p) PROVE Counts
  BY <1>1 DEF NodeStep, QuietStores, faultVars, Reset, LoadSnapshot, ReplayRest, Replay,
              TryAcquire, ReplicaStopped, CaughtUp, Verify, StartConsumer, Confirm,
              GiveUpPromotion, RenewalFails, StopReplica, StopRelease, Exit, LoseMemory
<1>2. ASSUME NEW p \in Process,
             PromotionFails(p) \/ ConfirmFails(p) \/ Stop(p) \/ NodeCrash(p) \/ Boot(p)
      PROVE  Counts
  BY <1>2 DEF PromotionFails, ConfirmFails, Stop, NodeCrash, LoseProcess, LoseMemory, Boot,
              QuietStores, faultVars
<1>3. ASSUME NEW p \in Process, Deliver(p) \/ HandlerStepOrReport(p) \/ HandlerFails(p)
      PROVE  Counts
  BY <1>3 DEF Deliver, HandlerStepOrReport, HandlerReports, HandlerFails, CallFails,
              RejectFails, QuietStep, StoreStep, RefuseForeign, Acknowledge, EndDelivery, Accept,
              SkipProcessed, Execute, StillLeads, AppendCommand, AppendEvents, SaveReadModel,
              SaveSnapshot, SaveProcessed, SaveSkipped, SaveRejected, CallReturns, ReportingStep,
              GiveBack, HandBack, AcknowledgeAndReport, AcknowledgeLast, CheckSaysNo, faultVars
<1>4. ASSUME Expire \/ ExpireInUse \/ Api \/ UNCHANGED allVars PROVE Counts
  BY <1>4 DEF Expire, ExpireInUse, LoseKey, Api, SaveQueued, Publish, PublishFails, faultVars,
              allVars, vars
<1>5. Counts
  BY <1>1, <1>2, <1>3, <1>4 DEF NodeNext, NodeAction
<1>6. QED
  BY <1>5

\* Provided that no command throws after it has changed the book, and up to the first key
\* that expires in use, stop, consumer left behind or failing call, the nodes of a partition,
\* with their standbys, crashes, doubtful checks and promotions that fail, are processes that
\* take turns: the book with which a consumer starts, replayed command by command (catchUp at
\* MatchingNode.js:113), is the one that a recovery from the stores would give at that moment.
THEOREM FailoversAreTurns ==
  ASSUME HalfApplied = {}
  PROVE  NodeSpec => ImplementsTurns
<1>1. NodeInit => Turns!Init
  <2> SUFFICES ASSUME NodeInit PROVE Turns!Init
    OBVIOUS
  <2>1. TurnLeader = Nobody /\ TurnBook = [p \in Process |-> <<>>]
    BY DEF NodeInit, Init, TurnLeader, TurnBook
  <2>2. QED
    BY <2>1 DEF NodeInit, Init, Turns!Init
<1>2. KInv /\ [NodeNext]_allVars
        => ((NoLoss /\ failures = 0)' => Turns!Next \/ UNCHANGED Turns!vars)
  <2> SUFFICES ASSUME KInv, [NodeNext]_allVars, NoLoss', failures' = 0
               PROVE  Turns!Next \/ UNCHANGED Turns!vars
    OBVIOUS
  <2>1. NoLoss
    BY LossesStay DEF KInv, NInv
  <2>2. failures = 0
    BY <2>1, FailuresStay DEF KInv, KeepInv, Sound, IInv, Shape
  <2>3. QED
    BY <2>1, <2>2, NodeStepTakesTurn DEF Clean
<1>3. QED
  BY <1>1, <1>2, KeepInvariance, PTL DEF NodeSpec, ImplementsTurns
=============================================================================
