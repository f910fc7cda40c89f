-------------------------- MODULE KubeTrainerProofs --------------------------
(***************************************************************************)
(* Proofs about module KubeTrainer: each half of the system is an          *)
(* admissible environment of the other, whatever fails, and so the         *)
(* theorems about the replicas and those about the requests hold in the    *)
(* whole system; and what they say together: a page that shows 0 is right. *)
(***************************************************************************)
EXTENDS KubeTrainer, TLAPS

\* The theorems about the replicas and those about the requests, over the
\* variables of this system.
CP == INSTANCE ConsumerImplements
PP == INSTANCE ProducerProofs

-----------------------------------------------------------------------------
(* The consumers.                                                          *)

LEMMA InitOfConsumers == Init => C!Init
  BY DEF Init

\* A request only appends to the stream, or leaves it alone.
LEMMA WebStepIsArrival == WebStep => C!Arrive \/ UNCHANGED C!vars
<1> SUFFICES ASSUME NEW r \in Requests, P!PublishStep(r) \/ P!CountStep(r),
                    UNCHANGED consVars
             PROVE  C!Arrive \/ UNCHANGED C!vars
  BY DEF WebStep
<1> USE DEF consVars, C!vars, C!redisVars, C!streamVars, C!procVars, C!workVars,
            P!redisVars, P!streamVars
<1>1. CASE P!Publish(r) \/ P!PublishRetried(r) \/ P!PublishFails(r)
  BY <1>1 DEF P!Publish, P!PublishRetried, P!PublishFails, C!Arrive, C!XAdd, P!XAdd
<1>2. CASE P!PublishTime(r) \/ P!PublishRefused(r) \/ P!CountStep(r)
  BY <1>2 DEF P!PublishTime, P!PublishRefused, P!CountStep, P!Index, P!CountNothing,
              P!XInfoGroups, P!XLen, P!XRange, P!XPending, P!CountFails
<1>3. QED
  BY <1>1, <1>2 DEF P!PublishStep

LEMMA StepOfConsumers == [Next]_vars => [C!Next]_(C!vars)
<1> SUFFICES ASSUME [Next]_vars PROVE [C!Next]_(C!vars)
  OBVIOUS
<1>1. CASE WebStep
  BY <1>1, WebStepIsArrival DEF C!Next, C!Environment
<1>2. CASE ConsumerStep
  BY <1>2 DEF ConsumerStep, C!Next
<1>3. CASE RedisStep
  BY <1>3 DEF RedisStep, C!Next
<1>4. CASE UNCHANGED vars
  BY <1>4 DEF vars, redisVars, streamVars, consVars, C!vars, C!redisVars,
              C!streamVars, C!procVars, C!workVars
<1>5. QED
  BY <1>1, <1>2, <1>3, <1>4 DEF Next

\* To the consumers, the web server is the arrival of messages, whatever its
\* requests do and whatever fails in them.
THEOREM ConsumersAreServedHolds == Spec => ConsumersAreServed
  BY InitOfConsumers, StepOfConsumers, PTL DEF Spec, ConsumersAreServed, C!Spec

-----------------------------------------------------------------------------
(* What is proved of the consumers.                                        *)

LEMMA AssumptionsHold ==
  CP!OwnersAssumption /\ CP!BoundsAssumption /\ CP!ConsumerAssumption
  BY OwnersAssumption, BoundsAssumption, KubeTrainerAssumption
     DEF OwnersAssumption, BoundsAssumption, KubeTrainerAssumption,
         CP!OwnersAssumption, CP!BoundsAssumption, CP!ConsumerAssumption

LEMMA SameInit == C!Init => CP!Init
  BY DEF C!Init, CP!Init, C!RedisInit, CP!RedisInit, C!Ids, CP!Ids

LEMMA SameMainStep == ASSUME NEW c \in Consumers PROVE C!MainStep(c) => CP!MainStep(c)
<1>1. C!Start(c) => CP!Start(c)
  BY DEF C!Start, CP!Start, C!redisVars, CP!redisVars, C!streamVars,
     CP!streamVars, C!workVars, CP!workVars, C!XGroupCreate,
     CP!XGroupCreate, C!GoTo, CP!GoTo
<1>2. C!InitConsumer(c) => CP!InitConsumer(c)
  BY DEF C!InitConsumer, CP!InitConsumer, C!redisVars, CP!redisVars,
     C!streamVars, CP!streamVars, C!workVars, CP!workVars, C!XGroupCreate,
     CP!XGroupCreate, C!GoTo, CP!GoTo
<1>3. C!DrainDone(c) => CP!DrainDone(c)
  BY DEF C!DrainDone, CP!DrainDone, C!redisVars, CP!redisVars,
     C!streamVars, CP!streamVars, C!workVars, CP!workVars, C!Die, CP!Die,
     C!GoTo, CP!GoTo
<1>4. C!DrainTimeout(c) => CP!DrainTimeout(c)
  BY DEF C!DrainTimeout, CP!DrainTimeout, C!redisVars, CP!redisVars,
     C!streamVars, CP!streamVars, C!workVars, CP!workVars, C!Die, CP!Die,
     C!GoTo, CP!GoTo
<1>5. QED
  BY <1>1, <1>2, <1>3, <1>4 DEF C!MainStep, CP!MainStep

\* Module FiniteSets is instantiated with each of them.
LEMMA SameBatch == C!StuckBatch = CP!StuckBatch
<1>1. \A S : C!Cardinality(S) = CP!Cardinality(S)
  BY DEF C!Cardinality, CP!Cardinality
<1>2. QED
  BY <1>1 DEF C!StuckBatch, CP!StuckBatch

LEMMA SameLoopStep == ASSUME NEW c \in Consumers PROVE C!LoopStep(c) => CP!LoopStep(c)
<1>1. C!LoopExit(c) => CP!LoopExit(c)
  BY DEF C!LoopExit, CP!LoopExit, C!Cancelled, CP!Cancelled, C!GoTo,
     CP!GoTo, C!XRename, CP!XRename, C!Ids, CP!Ids, C!redisVars,
     CP!redisVars, C!streamVars, CP!streamVars, C!workVars, CP!workVars
<1>2. C!LoopConsume(c) => CP!LoopConsume(c)
  BY DEF C!LoopConsume, CP!LoopConsume, C!Cancelled, CP!Cancelled, C!GoTo,
     CP!GoTo, C!XRename, CP!XRename, C!Ids, CP!Ids, C!redisVars,
     CP!redisVars, C!streamVars, CP!streamVars, C!workVars, CP!workVars
<1>3. C!XPending(c) => CP!XPending(c)
  BY DEF C!XPending, CP!XPending, C!CallWorks, CP!CallWorks, C!Cancelled,
     CP!Cancelled, C!GoTo, CP!GoTo, C!Pending, CP!Pending, C!Ids, CP!Ids,
     C!redisVars, CP!redisVars, C!streamVars, CP!streamVars, C!workVars,
     CP!workVars
<1>4. C!ReadBacklog(c) => CP!ReadBacklog(c)
  BY DEF C!ReadBacklog, CP!ReadBacklog, C!CallWorks, CP!CallWorks,
     C!Cancelled, CP!Cancelled, C!GoTo, CP!GoTo, C!Owned, CP!Owned, C!Ids,
     CP!Ids, C!StartWork, CP!StartWork, C!workVars, CP!workVars
<1>5. C!SelectDone(c) => CP!SelectDone(c)
  BY DEF C!SelectDone, CP!SelectDone, C!Cancelled, CP!Cancelled, C!GoTo,
     CP!GoTo, C!redisVars, CP!redisVars, C!streamVars, CP!streamVars,
     C!workVars, CP!workVars
<1>6. C!SelectTick(c) => CP!SelectTick(c)
  BY DEF C!SelectTick, CP!SelectTick, C!Cancelled, CP!Cancelled, C!GoTo,
     CP!GoTo, C!redisVars, CP!redisVars, C!streamVars, CP!streamVars,
     C!workVars, CP!workVars
<1>7. C!SelectDefault(c) => CP!SelectDefault(c)
  BY DEF C!SelectDefault, CP!SelectDefault, C!Cancelled, CP!Cancelled,
     C!GoTo, CP!GoTo, C!redisVars, CP!redisVars, C!streamVars,
     CP!streamVars, C!workVars, CP!workVars
<1>8. C!ReadNew(c) => CP!ReadNew(c)
  BY DEF C!ReadNew, CP!ReadNew, C!XReadGroupNew, CP!XReadGroupNew,
     C!NextNew, CP!NextNew, C!StartWork, CP!StartWork, C!GoTo, CP!GoTo
<1>9. C!WorkDone(c) => CP!WorkDone(c)
  BY DEF C!WorkDone, CP!WorkDone, C!Cancelled, CP!Cancelled, C!GoTo,
     CP!GoTo, C!LetGo, CP!LetGo, C!redisVars, CP!redisVars, C!streamVars,
     CP!streamVars
<1>10. C!WorkFails(c) => CP!WorkFails(c)
  BY DEF C!WorkFails, CP!WorkFails, C!Cancelled, CP!Cancelled, C!GoTo,
     CP!GoTo, C!LetGo, CP!LetGo, C!redisVars, CP!redisVars, C!streamVars,
     CP!streamVars
<1>11. C!Ack(c) => CP!Ack(c)
  BY DEF C!Ack, CP!Ack, C!Cancelled, CP!Cancelled, C!XAck, CP!XAck,
     C!LetGo, CP!LetGo, C!GoTo, CP!GoTo
<1>12. C!Scan(c) => CP!Scan(c)
  <2>1. C!IdsToClaim(c) = CP!IdsToClaim(c)
    BY SameBatch DEF C!IdsToClaim, CP!IdsToClaim
  <2>2. QED
    BY <2>1 DEF C!Scan, CP!Scan, C!CallWorks, CP!CallWorks, C!Cancelled,
       CP!Cancelled, C!GoTo, CP!GoTo, C!redisVars, CP!redisVars,
       C!streamVars, CP!streamVars, C!workVars, CP!workVars
<1>13. C!Claim(c) => CP!Claim(c)
  BY DEF C!Claim, CP!Claim, C!CallWorks, CP!CallWorks, C!Cancelled,
     CP!Cancelled, C!XClaim, CP!XClaim, C!Ids, CP!Ids, C!GoTo, CP!GoTo,
     C!workVars, CP!workVars
<1>14. QED
  BY <1>1, <1>2, <1>3, <1>4, <1>5, <1>6, <1>7, <1>8, <1>9, <1>10, <1>11,
     <1>12, <1>13 DEF C!LoopStep, CP!LoopStep

LEMMA SameErrorStep == ASSUME NEW c \in Consumers PROVE C!ErrorStep(c) => CP!ErrorStep(c)
<1>1. C!InitFails(c) => CP!InitFails(c)
  BY DEF C!InitFails, CP!InitFails, C!Fault, CP!Fault, C!XGroupCreate,
     CP!XGroupCreate, C!Die, CP!Die, C!GoTo, CP!GoTo, C!streamVars,
     CP!streamVars, C!workVars, CP!workVars
<1>2. C!Terminate(c) => CP!Terminate(c)
  BY DEF C!Terminate, CP!Terminate, C!Fault, CP!Fault, C!XGroupCreate,
     CP!XGroupCreate, C!Die, CP!Die, C!GoTo, CP!GoTo, C!streamVars,
     CP!streamVars, C!workVars, CP!workVars
<1>3. C!Kill(c) => CP!Kill(c)
  BY DEF C!Kill, CP!Kill, C!Fault, CP!Fault, C!XGroupCreate,
     CP!XGroupCreate, C!Die, CP!Die, C!GoTo, CP!GoTo, C!streamVars,
     CP!streamVars, C!workVars, CP!workVars
<1>4. C!XPendingPanics(c) => CP!XPendingPanics(c)
  BY DEF C!XPendingPanics, CP!XPendingPanics, C!CallFails, CP!CallFails,
     C!CallWorks, CP!CallWorks, C!Cancelled, CP!Cancelled, C!Fault,
     CP!Fault, C!Die, CP!Die, C!GoTo, CP!GoTo, C!streamVars,
     CP!streamVars, C!workVars, CP!workVars
<1>5. C!ReadFails(c) => CP!ReadFails(c)
  BY DEF C!ReadFails, CP!ReadFails, C!CallFails, CP!CallFails,
     C!CallWorks, CP!CallWorks, C!Cancelled, CP!Cancelled, C!Fault,
     CP!Fault, C!Die, CP!Die, C!GoTo, CP!GoTo, C!streamVars,
     CP!streamVars, C!workVars, CP!workVars
<1>6. C!SweepFails(c) => CP!SweepFails(c)
  BY DEF C!SweepFails, CP!SweepFails, C!CallFails, CP!CallFails,
     C!CallWorks, CP!CallWorks, C!Cancelled, CP!Cancelled, C!Fault,
     CP!Fault, C!Die, CP!Die, C!GoTo, CP!GoTo, C!streamVars,
     CP!streamVars, C!workVars, CP!workVars
<1>7. C!ReadReplyLost(c) => CP!ReadReplyLost(c)
  BY DEF C!ReadReplyLost, CP!ReadReplyLost, C!Fault, CP!Fault,
     C!XReadGroupNew, CP!XReadGroupNew, C!NextNew, CP!NextNew, C!GoTo,
     CP!GoTo, C!workVars, CP!workVars
<1>8. C!AckFails(c) => CP!AckFails(c)
  BY DEF C!AckFails, CP!AckFails, C!Cancelled, CP!Cancelled, C!Fault,
     CP!Fault, C!XAck, CP!XAck, C!LetGo, CP!LetGo, C!GoTo, CP!GoTo,
     C!redisVars, CP!redisVars, C!streamVars, CP!streamVars
<1>9. QED
  BY <1>1, <1>2, <1>3, <1>4, <1>5, <1>6, <1>7, <1>8 DEF C!ErrorStep,
     CP!ErrorStep

LEMMA SameEnvironment == C!Environment => CP!Environment
<1>1. C!Arrive => CP!Arrive
  BY DEF C!Arrive, CP!Arrive, C!XAdd, CP!XAdd, C!procVars, CP!procVars,
     C!workVars, CP!workVars
<1>2. C!LoseData => CP!LoseData
  BY DEF C!LoseData, CP!LoseData, C!Fault, CP!Fault, C!Pending,
     CP!Pending, C!Ids, CP!Ids
<1>3. \A i : C!Age(i) => CP!Age(i)
  BY DEF C!Age, CP!Age
<1>4. QED
  BY <1>1, <1>2, <1>3 DEF C!Environment, CP!Environment, C!Ids, CP!Ids,
     C!procVars, CP!procVars, C!workVars, CP!workVars

LEMMA SameNext == [C!Next]_(C!vars) => [CP!Next]_(CP!vars)
<1>1. \A c : C!Tick(c) => CP!Tick(c)
  BY DEF C!Tick, CP!Tick, C!redisVars, CP!redisVars, C!streamVars,
     CP!streamVars, C!workVars, CP!workVars
<1>2. C!Next => CP!Next
  BY <1>1, SameEnvironment, SameMainStep, SameLoopStep, SameErrorStep DEF
     C!Next, CP!Next
<1>3. UNCHANGED C!vars => UNCHANGED CP!vars
  BY DEF C!vars, CP!vars, C!redisVars, CP!redisVars, C!streamVars,
     CP!streamVars, C!procVars, CP!procVars, C!workVars, CP!workVars
<1>4. QED
  BY <1>2, <1>3

\* So what is proved of the replicas is proved of those in this system.
LEMMA ConsumersAsProved == Spec => CP!Spec
  BY ConsumersAreServedHolds, SameInit, SameNext, PTL
     DEF ConsumersAreServed, C!Spec, CP!Spec

\* The inductive invariant of the consumer side holds in the whole system,
\* whatever the requests of the web server do.
THEOREM ReplicasStaySound == Spec => []CP!Inductive
  BY ConsumersAsProved, AssumptionsHold, CP!InductiveHolds, PTL

-----------------------------------------------------------------------------
(* The web server.                                                         *)

\* A command that a consumer issues, or none, with or without a fault.
Command ==
  /\ UNCHANGED faults \/ P!Fault
  /\ \/ P!XGroupCreate
     \/ UNCHANGED P!streamVars
     \/ \E c \in Consumers : P!XReadGroupNew(c)
     \/ \E i \in P!Pending : P!XAck(i)
     \/ \E c \in Consumers, ids \in SUBSET P!Pending : P!XClaim(c, ids)
     \/ \E c \in Consumers : P!XRename(c)

\* In the hands of a replica is an id, pending or not; acknowledging one that
\* is not pending changes nothing.
LEMMA AckIsCommand ==
  ASSUME CP!Inductive, NEW c \in Consumers, pc[c] = "ack", C!XAck(held[c]),
         UNCHANGED faults \/ P!Fault
  PROVE  Command
<1> DEFINE i == held[c]
<1>1. /\ i \in C!Ids
      /\ owner \in [C!Ids -> Consumers \cup {Orphan, NoOne}]
      /\ idle \subseteq P!Pending
  BY BoundsAssumption DEF BoundsAssumption, CP!Inductive, CP!TypeOK, CP!RedisTypeOK,
     CP!HandsAgree, CP!IdleIsPending, CP!Pending, P!Pending, CP!Ids, C!Ids, P!Ids
<1>2. CASE i \in P!Pending
  BY <1>2 DEF Command, C!XAck, P!XAck
<1>3. CASE i \notin P!Pending
  <2>1. owner[i] = NoOne /\ i \notin idle
    BY <1>1, <1>3 DEF P!Pending, P!Ids, C!Ids
  <2>2. owner' = owner /\ idle' = idle /\ acked' = acked
    BY <1>1, <2>1 DEF C!XAck
  <2>3. QED
    BY <2>2 DEF Command, C!XAck, P!streamVars
<1>4. QED
  BY <1>2, <1>3

\* XCLAIM ignores the ids of the scan that are no longer pending.
LEMMA ClaimIsCommand ==
  ASSUME CP!Inductive, NEW c \in Consumers, C!XClaim(c, scan[c]), UNCHANGED faults
  PROVE  Command
<1> DEFINE ids == scan[c] \cap P!Pending
<1>1. scan[c] \subseteq P!Ids
  BY DEF CP!Inductive, CP!TypeOK, CP!Ids, P!Ids
<1>2. {i \in scan[c] : owner[i] # NoOne} = {i \in ids : owner[i] # NoOne}
  BY <1>1 DEF P!Pending
<1>3. P!XClaim(c, ids)
  BY <1>2 DEF C!XClaim, P!XClaim, C!Ids, P!Ids
<1>4. QED
  BY <1>3 DEF Command

LEMMA MainStepIsCommand ==
  ASSUME NEW c \in Consumers, C!MainStep(c) PROVE Command
  BY DEF C!MainStep, C!Start, C!InitConsumer, C!DrainDone, C!DrainTimeout,
         C!XGroupCreate, C!redisVars, C!streamVars, Command, P!XGroupCreate,
         P!streamVars

\* The backlog phase finds nothing under its new name, and so works on nothing.
LEMMA LoopStepIsCommand ==
  ASSUME CP!Inductive, NEW c \in Consumers, C!LoopStep(c) PROVE Command
<1> USE DEF C!redisVars, C!streamVars, P!streamVars
<1>1. CASE \/ C!LoopExit(c) \/ C!XPending(c) \/ C!SelectDone(c) \/ C!SelectTick(c)
           \/ C!SelectDefault(c) \/ C!WorkDone(c) \/ C!WorkFails(c) \/ C!Scan(c)
  BY <1>1 DEF C!LoopExit, C!XPending, C!SelectDone, C!SelectTick, C!SelectDefault,
     C!WorkDone, C!WorkFails, C!Scan, Command
<1>2. CASE C!LoopConsume(c)
  BY <1>2 DEF C!LoopConsume, C!XRename, P!XRename, C!Ids, P!Ids, Command
<1>3. CASE C!ReadBacklog(c)
  <2>1. C!Owned(c) = {}
    BY <1>3 DEF C!ReadBacklog, CP!Inductive, CP!NewNameOwnsNothing, CP!Owned,
       C!Owned, CP!Ids, C!Ids
  <2>2. QED
    BY <1>3, <2>1 DEF C!ReadBacklog, Command
<1>4. CASE C!ReadNew(c)
  BY <1>4 DEF C!ReadNew, C!XReadGroupNew, C!NextNew, P!XReadGroupNew, P!NextNew, Command
<1>5. CASE C!Ack(c)
  BY <1>5, AckIsCommand DEF C!Ack
<1>6. CASE C!Claim(c)
  BY <1>6, ClaimIsCommand DEF C!Claim
<1>7. QED
  BY <1>1, <1>2, <1>3, <1>4, <1>5, <1>6 DEF C!LoopStep

LEMMA ErrorStepIsCommand ==
  ASSUME CP!Inductive, NEW c \in Consumers, C!ErrorStep(c) PROVE Command
<1> USE DEF C!redisVars, C!streamVars, P!streamVars, C!Fault, P!Fault
<1>1. CASE C!InitFails(c)
  BY <1>1 DEF C!InitFails, C!XGroupCreate, P!XGroupCreate, Command
<1>2. CASE \/ C!Terminate(c) \/ C!Kill(c) \/ C!XPendingPanics(c) \/ C!ReadFails(c)
           \/ C!SweepFails(c)
  BY <1>2 DEF C!Terminate, C!Kill, C!XPendingPanics, C!ReadFails, C!SweepFails,
     C!CallFails, Command
<1>3. CASE C!ReadReplyLost(c)
  BY <1>3 DEF C!ReadReplyLost, C!XReadGroupNew, C!NextNew, P!XReadGroupNew, P!NextNew,
     Command
<1>4. CASE C!AckFails(c)
  <2>1. CASE UNCHANGED C!streamVars /\ (UNCHANGED faults \/ P!Fault)
    BY <2>1 DEF Command
  <2>2. CASE C!XAck(held[c]) /\ P!Fault
    BY <1>4, <2>2, AckIsCommand DEF C!AckFails
  <2>3. QED
    BY <1>4, <2>1, <2>2 DEF C!AckFails
<1>5. QED
  BY <1>1, <1>2, <1>3, <1>4 DEF C!ErrorStep

LEMMA StepOfProducers == CP!Inductive /\ [Next]_vars => [P!Next]_(P!vars)
<1> SUFFICES ASSUME CP!Inductive, [Next]_vars PROVE [P!Next]_(P!vars)
  OBVIOUS
<1>1. CASE WebStep
  BY <1>1 DEF WebStep, P!Next
<1>2. CASE ConsumerStep
  <2> PICK c \in Consumers : C!MainStep(c) \/ C!LoopStep(c) \/ C!ErrorStep(c) \/ C!Tick(c)
    BY <1>2 DEF ConsumerStep
  <2>1. C!Tick(c) => Command
    BY DEF C!Tick, C!redisVars, C!streamVars, P!streamVars, Command
  <2>2. Command
    BY <2>1, MainStepIsCommand, LoopStepIsCommand, ErrorStepIsCommand
  <2>3. UNCHANGED P!prodVars
    BY <1>2 DEF ConsumerStep, webVars, P!prodVars, P!locals, P!history
  <2>4. QED
    BY <2>2, <2>3 DEF Command, P!Elsewhere, P!Next
<1>3. CASE RedisStep
  <2>1. UNCHANGED P!prodVars
    BY <1>3 DEF RedisStep, webVars, P!prodVars, P!locals, P!history
  <2>2. ~C!Arrive
    <3>1. lastId \in Int /\ lastId' = lastId
      BY <1>3, BoundsAssumption
         DEF RedisStep, CP!Inductive, CP!TypeOK, CP!RedisTypeOK, BoundsAssumption
    <3>2. QED
      BY <3>1 DEF C!Arrive, C!XAdd
  <2>3. C!LoseData => P!LoseData
    BY DEF C!LoseData, P!LoseData, C!Fault, P!Fault, C!Pending, P!Pending, C!Ids, P!Ids
  <2>4. \A i : C!Age(i) => P!Age(i)
    BY DEF C!Age, P!Age
  <2>5. QED
    BY <1>3, <2>1, <2>2, <2>3, <2>4
       DEF RedisStep, C!Environment, C!Ids, P!Ids, P!Elsewhere, P!Next
<1>4. CASE UNCHANGED vars
  BY <1>4 DEF vars, redisVars, streamVars, webVars, P!vars, P!redisVars, P!streamVars,
              P!prodVars, P!locals, P!history
<1>5. QED
  BY <1>1, <1>2, <1>3, <1>4 DEF Next

\* To the web server, the consumers are commands issued elsewhere, whatever they
\* do to the stream and whatever fails in them.
THEOREM RequestsAreServedHolds == Spec => RequestsAreServed
<1>1. Init => P!Init
  BY DEF Init
<1>2. QED
  BY <1>1, StepOfProducers, ReplicasStaySound, PTL DEF Spec, RequestsAreServed, P!Spec

-----------------------------------------------------------------------------
(* What is proved of the requests.                                         *)

LEMMA ProducerAssumptionHolds ==
  PP!OwnersAssumption /\ PP!BoundsAssumption /\ PP!ProducerAssumption
  BY OwnersAssumption, BoundsAssumption, KubeTrainerAssumption
     DEF OwnersAssumption, BoundsAssumption, KubeTrainerAssumption,
         PP!OwnersAssumption, PP!BoundsAssumption, PP!ProducerAssumption

LEMMA SameInitOfRequests == P!Init => PP!Init
  BY DEF P!Init, PP!Init, P!RedisInit, PP!RedisInit, P!Ids, PP!Ids,
     P!NoSnapshot, PP!NoSnapshot

LEMMA SamePublishStep == ASSUME NEW r \in Requests PROVE P!PublishStep(r) => PP!PublishStep(r)
<1>1. P!PublishTime(r) => PP!PublishTime(r)
  BY DEF P!PublishTime, PP!PublishTime, P!CountParam, PP!CountParam, P!GoTo,
     PP!GoTo, P!redisVars, PP!redisVars, P!streamVars, PP!streamVars
<1>2. P!Publish(r) => PP!Publish(r)
  BY DEF P!Publish, PP!Publish, P!XAdd, PP!XAdd, P!GoTo, PP!GoTo
<1>3. P!PublishRefused(r) => PP!PublishRefused(r)
  BY DEF P!PublishRefused, PP!PublishRefused, P!GoTo, PP!GoTo, P!history,
     PP!history, P!redisVars, PP!redisVars, P!streamVars, PP!streamVars
<1>4. P!PublishRetried(r) => PP!PublishRetried(r)
  BY DEF P!PublishRetried, PP!PublishRetried, P!XAdd, PP!XAdd, P!Mishap,
     PP!Mishap, P!locals, PP!locals
<1>5. P!PublishFails(r) => PP!PublishFails(r)
  BY DEF P!PublishFails, PP!PublishFails, P!XAdd, PP!XAdd, P!Mishap, PP!Mishap,
     P!GoTo, PP!GoTo, P!streamVars, PP!streamVars
<1>6. QED
  BY <1>1, <1>2, <1>3, <1>4, <1>5 DEF P!PublishStep, PP!PublishStep

\* Module FiniteSets is instantiated with each of them here, too.
LEMMA SameSizes ==
  /\ \A S : P!Cardinality(S) = PP!Cardinality(S)
  /\ P!Pending = PP!Pending /\ P!Undelivered = PP!Undelivered
  /\ P!Outstanding = PP!Outstanding /\ \A i : P!Behind(i) = PP!Behind(i)
  BY DEF P!Cardinality, PP!Cardinality, P!Pending, PP!Pending, P!Undelivered,
     PP!Undelivered, P!Outstanding, PP!Outstanding, P!Behind, PP!Behind, P!Ids, PP!Ids

LEMMA SameShow == ASSUME NEW r, NEW n PROVE P!Show(r, n) => PP!Show(r, n)
  BY DEF P!Show, PP!Show, P!GoTo, PP!GoTo, P!NoSnapshot, PP!NoSnapshot

LEMMA SameCountStep == ASSUME NEW r \in Requests PROVE P!CountStep(r) => PP!CountStep(r)
<1> USE DEF P!redisVars, PP!redisVars, P!streamVars, PP!streamVars
<1>1. P!Index(r) => PP!Index(r)
  BY DEF P!Index, PP!Index, P!GoTo, PP!GoTo, P!history, PP!history
<1>2. P!CountNothing(r) => PP!CountNothing(r)
  BY SameShow DEF P!CountNothing, PP!CountNothing
<1>3. P!XInfoGroups(r) => PP!XInfoGroups(r)
  BY SameSizes DEF P!XInfoGroups, PP!XInfoGroups, P!GoTo, PP!GoTo
<1>4. P!XLen(r) => PP!XLen(r)
  BY SameSizes DEF P!XLen, PP!XLen, P!GoTo, PP!GoTo, P!history, PP!history
<1>5. P!XRange(r) => PP!XRange(r)
  BY SameSizes DEF P!XRange, PP!XRange, P!GoTo, PP!GoTo, P!history, PP!history
<1>6. P!XPending(r) => PP!XPending(r)
  BY SameSizes, SameShow DEF P!XPending, PP!XPending
<1>7. P!CountFails(r) => PP!CountFails(r)
  BY SameShow DEF P!CountFails, PP!CountFails, P!Mishap, PP!Mishap
<1>8. QED
  BY <1>1, <1>2, <1>3, <1>4, <1>5, <1>6, <1>7 DEF P!CountStep, PP!CountStep

LEMMA SameElsewhere == P!Elsewhere => PP!Elsewhere
<1>1. /\ P!XGroupCreate => PP!XGroupCreate
      /\ \A c : P!XReadGroupNew(c) => PP!XReadGroupNew(c)
      /\ \A c : P!XRename(c) => PP!XRename(c)
      /\ \A i : P!XAck(i) => PP!XAck(i)
      /\ \A i : P!Age(i) => PP!Age(i)
  BY DEF P!XGroupCreate, PP!XGroupCreate, P!XReadGroupNew, PP!XReadGroupNew, P!NextNew,
     PP!NextNew, P!XRename, PP!XRename, P!XAck, PP!XAck, P!Age, PP!Age, P!Ids, PP!Ids
<1>2. \A c, ids : P!XClaim(c, ids) => PP!XClaim(c, ids)
  BY DEF P!XClaim, PP!XClaim, P!Ids, PP!Ids
<1>3. P!LoseData => PP!LoseData
  BY SameSizes DEF P!LoseData, PP!LoseData, P!Fault, PP!Fault, P!Ids, PP!Ids
<1>4. UNCHANGED P!prodVars => UNCHANGED PP!prodVars
  BY DEF P!prodVars, PP!prodVars, P!locals, PP!locals, P!history, PP!history
<1>5. UNCHANGED P!streamVars => UNCHANGED PP!streamVars
  BY DEF P!streamVars, PP!streamVars
<1>6. P!Pending = PP!Pending /\ P!Ids = PP!Ids /\ (P!Fault => PP!Fault)
  BY SameSizes DEF P!Ids, PP!Ids, P!Fault, PP!Fault
<1>7. QED
  BY <1>1, <1>2, <1>3, <1>4, <1>5, <1>6 DEF P!Elsewhere, PP!Elsewhere

LEMMA SameNextOfRequests == [P!Next]_(P!vars) => [PP!Next]_(PP!vars)
<1>1. P!Next => PP!Next
  BY SamePublishStep, SameCountStep, SameElsewhere DEF P!Next, PP!Next
<1>2. UNCHANGED P!vars => UNCHANGED PP!vars
  BY DEF P!vars, PP!vars, P!redisVars, PP!redisVars, P!streamVars, PP!streamVars,
     P!prodVars, PP!prodVars, P!locals, PP!locals, P!history, PP!history
<1>3. QED
  BY <1>1, <1>2

LEMMA RequestsAsProved == Spec => PP!Spec
  BY RequestsAreServedHolds, SameInitOfRequests, SameNextOfRequests, PTL
     DEF RequestsAreServed, P!Spec, PP!Spec

\* The inductive invariant of the requests holds in the whole system, whatever the
\* replicas do: the account of every publication, and what a count knows.
THEOREM RequestsStaySound == Spec => []PP!Inductive
  BY RequestsAsProved, ProducerAssumptionHolds, PP!InductiveHolds, PTL

-----------------------------------------------------------------------------
(* What they say together.                                                 *)

\* None of the entries in the stream is lost to the replicas of this system.
LEMMA NothingIsLostHere == Spec => []CP!NothingIsLost
  BY ConsumersAsProved, AssumptionsHold, CP!NothingIsLostHolds, PTL

LEMMA SameSets ==
  /\ CP!Pending = Pending /\ CP!Undelivered = Undelivered /\ CP!Outstanding = Outstanding
  /\ PP!Pending = Pending /\ PP!Undelivered = Undelivered
  BY DEF CP!Pending, PP!Pending, Pending, CP!Undelivered, PP!Undelivered, Undelivered,
         CP!Outstanding, Outstanding, CP!Ids, PP!Ids, Ids

\* What a message is that neither waits nor is pending.
LEMMA SettledOrRemoved ==
  ASSUME CP!Inductive, CP!NothingIsLost, Pending = {},
         NEW i \in Nat \ {0}, i =< lastId, i \notin Undelivered
  PROVE  i \in acked \cap worked \/ i \in dropped \/ i < firstId
<1>1. firstId \in Nat /\ lastId \in Nat
  BY BoundsAssumption DEF BoundsAssumption, CP!Inductive, CP!TypeOK, CP!RedisTypeOK
<1>2. CASE i < firstId
  BY <1>2
<1>3. CASE i \in firstId..lastId
  <2>1. i \in acked
    BY <1>3, SameSets DEF CP!NothingIsLost, CP!Outstanding
  <2>2. i \in worked
    BY <2>1 DEF CP!Inductive, CP!AckedWasWorked
  <2>3. QED
    BY <2>1, <2>2
<1>4. QED
  BY <1>1, <1>2, <1>3

LEMMA ZeroMeansSettledStep ==
  ASSUME CP!Inductive, CP!NothingIsLost, PP!Inductive, [P!Next]_(P!vars),
         NEW r \in Requests, P!Counted(r), count'[r] = 0,
         NEW i \in 1..snap[r].last
  PROVE  i \in acked \cap worked \/ i \in dropped \/ i < firstId
<1>1. [PP!Next]_(PP!vars) /\ PP!Counted(r)
  BY SameNextOfRequests DEF P!Counted, PP!Counted
<1>2. /\ Pending = {} /\ Undelivered \cap 1..snap[r].last = {}
      /\ snap[r].last =< lastId
  BY <1>1, PP!ZeroLeavesNothing, ProducerAssumptionHolds, SameSets
<1>3. snap[r].last \in Nat /\ lastId \in Nat
  <2>1. snap[r] \in PP!Snapshot /\ lastId \in 0..MaxId
    BY DEF PP!Inductive, PP!TypeOK, PP!RedisTypeOK
  <2>2. QED
    BY <2>1, BoundsAssumption DEF BoundsAssumption, PP!Snapshot
<1>4. i \in Nat \ {0} /\ i =< lastId /\ i \notin Undelivered
  BY <1>2, <1>3
<1>5. QED
  BY <1>2, <1>4, SettledOrRemoved

\* A page that shows 0 without an error is right, for any number of requests and
\* replicas and whatever fails: what the three commands of a count see at three
\* moments, and what the replicas do between them, adds up.
THEOREM ZeroMeansSettledHolds == Spec => ZeroMeansSettled
<1>1. CP!Inductive /\ CP!NothingIsLost /\ PP!Inductive /\ [Next]_vars
        => [\A r \in Requests :
              P!Counted(r) /\ count'[r] = 0
                => \A i \in 1..snap[r].last :
                     i \in acked \cap worked \/ i \in dropped \/ i < firstId]_vars
  BY StepOfProducers, ZeroMeansSettledStep
<1>2. QED
  BY <1>1, ReplicasStaySound, NothingIsLostHere, RequestsStaySound, PTL
     DEF Spec, ZeroMeansSettled

-----------------------------------------------------------------------------
(* The queue.                                                              *)

\* The state of the queue is read off the system as off the replicas.
LEMMA SameQueueState ==
  /\ [i \in CP!Ids |-> CP!StatusOf(i)] = [i \in C!Ids |-> C!StatusOf(i)]
  /\ CP!BeingWorked = C!BeingWorked
<1>1. \A i : CP!StatusOf(i) = C!StatusOf(i)
  BY Zenon DEF CP!StatusOf, C!StatusOf, CP!Pending, C!Pending, CP!Undelivered,
     C!Undelivered, CP!Ids, C!Ids
<1>2. CP!Ids = C!Ids /\ CP!BeingWorked = C!BeingWorked
  BY DEF CP!BeingWorked, C!BeingWorked, CP!Ids, C!Ids
<1>3. QED
  BY <1>1, <1>2, Zenon

LEMMA SameQueueInit == CP!Queue!Init => C!Queue!Init
  BY SameQueueState DEF CP!Queue!Init, C!Queue!Init, CP!Queue!Messages, C!Queue!Messages

LEMMA SameQueueStep == [CP!Queue!Next]_(CP!Queue!vars) => [C!Queue!Next]_(C!Queue!vars)
<1> DEFINE Same == /\ [i \in CP!Ids |-> CP!StatusOf(i)] = [i \in C!Ids |-> C!StatusOf(i)]
                   /\ CP!BeingWorked = C!BeingWorked
<1>1. Same /\ Same'
  <2>1. Same
    BY SameQueueState
  <2> HIDE DEF Same
  <2>2. QED
    BY <2>1, PTL
<1>2. CP!Queue!Messages = C!Queue!Messages
  BY DEF CP!Queue!Messages, C!Queue!Messages
<1>3. /\ \A Q : CP!Queue!With(Q) = C!Queue!With(Q)
      /\ \A S : CP!Queue!Lose(S) = C!Queue!Lose(S)
  BY <1>1, <1>2 DEF CP!Queue!With, C!Queue!With, CP!Queue!Lose, C!Queue!Lose
<1>4. CP!Queue!Publish => C!Queue!Publish
  BY <1>1, <1>2, <1>3 DEF CP!Queue!Publish, C!Queue!Publish
<1>5. CP!Queue!Take => C!Queue!Take
  BY <1>1, <1>2 DEF CP!Queue!Take, C!Queue!Take
<1>6. CP!Queue!Finish \/ CP!Queue!Abandon => C!Queue!Finish \/ C!Queue!Abandon
  BY <1>1 DEF CP!Queue!Finish, C!Queue!Finish, CP!Queue!Abandon, C!Queue!Abandon
<1>7. CP!Queue!Settle => C!Queue!Settle
  BY <1>1 DEF CP!Queue!Settle, C!Queue!Settle
<1>8. CP!Queue!Vanish => C!Queue!Vanish
  BY <1>1, <1>3 DEF CP!Queue!Vanish, C!Queue!Vanish
<1>9. UNCHANGED CP!Queue!vars => UNCHANGED C!Queue!vars
  BY <1>1 DEF CP!Queue!vars, C!Queue!vars
<1>10. QED
  BY <1>4, <1>5, <1>6, <1>7, <1>8, <1>9 DEF CP!Queue!Next, C!Queue!Next

\* Whatever the web server publishes and whatever fails, the stream and the
\* replicas of the system implement the queue of module WorkQueue.
THEOREM SystemImplementsQueueHolds == Spec => SystemImplementsQueue
<1>1. Spec => CP!ImplementsQueue
  BY ConsumersAsProved, AssumptionsHold, CP!QueueImplemented, PTL
<1>2. QED
  BY <1>1, SameQueueInit, SameQueueStep, PTL
     DEF SystemImplementsQueue, C!ImplementsQueue, CP!ImplementsQueue, C!Queue!Spec,
         CP!Queue!Spec
=============================================================================
