---------------------------- MODULE ConsumerProofs ----------------------------
(***************************************************************************)
(* Proofs about module Consumer, for every number of replicas, messages    *)
(* and faults, every MAXLEN, batch and data size.                          *)
(***************************************************************************)
EXTENDS Consumer, TLAPS

USE OwnersAssumption, BoundsAssumption, ConsumerAssumption
    DEF OwnersAssumption, BoundsAssumption, ConsumerAssumption, streamVars

-----------------------------------------------------------------------------
(* The initial states.                                                     *)

LEMMA InitInductive == Init => Inductive
<1> SUFFICES ASSUME Init PROVE Inductive
  OBVIOUS
<1> USE DEF Init, RedisInit, Ids, Pending
<1>1. TypeOK
  <2>1. group \in BOOLEAN
    OBVIOUS
  <2>2. /\ firstId \in 1..(MaxId + 1) /\ lastId \in 0..MaxId
        /\ delivered \in 0..MaxId /\ faults \in 0..MaxFaults
    OBVIOUS
  <2>3. owner \in [Ids -> Consumers \cup {Orphan, NoOne}]
    OBVIOUS
  <2>4. RedisTypeOK
    BY <2>1, <2>2, <2>3 DEF RedisTypeOK
  <2>5. QED
    BY <2>4 DEF TypeOK, Phases, PCs, Statuses
<1>2. HandedOutIsBehind /\ HistoryNests /\ IdleIsPending /\ AckedWasWorked
  BY DEF HandedOutIsBehind, HistoryNests, IdleIsPending, AckedWasWorked
<1>3. HandsAgree /\ NewNameOwnsNothing /\ HeldIsTracked
  BY DEF HandsAgree, NewNameOwnsNothing, HeldIsTracked
<1>4. DeliveredIsAccounted
  BY DEF DeliveredIsAccounted
<1>5. QED
  BY <1>1, <1>2, <1>3, <1>4 DEF Inductive

-----------------------------------------------------------------------------
(* Steps that move a goroutine and leave the stream and the message alone. *)

\* A step that changes neither the bookkeeping of the stream nor a held
\* message preserves the invariant, if no goroutine enters processMessages or
\* the backlog phase by it.
LEMMA QuietStep ==
  ASSUME Inductive, TypeOK',
         UNCHANGED <<firstId, lastId, delivered, owner, idle, seen, acked,
                     dropped, held, workVars>>,
         \A c \in Consumers :
           \/ pc'[c] = pc[c]
           \/ /\ pc[c] \notin {"work", "ack"}
              /\ pc'[c] \notin {"work", "ack"}
              /\ pc'[c] \in {"pending", "backlog"}
                   => pc[c] \in {"pending", "backlog"},
         \A c \in Consumers : phase'[c] \in {"down", "init"} => pc'[c] = "off"
  PROVE  Inductive'
<1>1. Pending' = Pending /\ \A c \in Consumers : Owned(c)' = Owned(c)
  BY DEF Pending, Owned, Ids
<1>2. HandedOutIsBehind' /\ HistoryNests' /\ IdleIsPending' /\ AckedWasWorked'
  BY <1>1 DEF Inductive, HandedOutIsBehind, HistoryNests, IdleIsPending,
              AckedWasWorked, workVars
<1>3. HandsAgree'
  BY DEF Inductive, HandsAgree, workVars
<1>4. NewNameOwnsNothing'
  BY <1>1 DEF Inductive, NewNameOwnsNothing
<1>5. HeldIsTracked' /\ DeliveredIsAccounted'
  BY <1>1 DEF Inductive, HeldIsTracked, DeliveredIsAccounted
<1>6. QED
  BY <1>2, <1>3, <1>4, <1>5 DEF Inductive

LEMMA MoveInductive ==
  ASSUME NEW c \in Consumers, Inductive,
         \/ Start(c) \/ InitConsumer(c) \/ Terminate(c)
         \/ LoopExit(c) \/ XPending(c) \/ SelectDone(c) \/ SelectTick(c)
         \/ SelectDefault(c) \/ ReadFails(c) \/ Scan(c) \/ SweepFails(c)
         \/ Tick(c)
  PROVE  Inductive'
<1> USE DEF Inductive, TypeOK, RedisTypeOK, redisVars, workVars, GoTo,
            NewNameOwnsNothing, Phases, PCs
<1>1. CASE Start(c)
  BY <1>1, QuietStep DEF Start
<1>2. CASE InitConsumer(c)
  BY <1>2, QuietStep DEF InitConsumer, XGroupCreate
<1>3. CASE Terminate(c)
  BY <1>3, QuietStep DEF Terminate, Fault
<1>4. CASE LoopExit(c)
  BY <1>4, QuietStep DEF LoopExit, Cancelled
<1>5. CASE XPending(c)
  BY <1>5, QuietStep DEF XPending
<1>6. CASE SelectDone(c)
  BY <1>6, QuietStep DEF SelectDone
<1>7. CASE SelectTick(c)
  BY <1>7, QuietStep DEF SelectTick
<1>8. CASE SelectDefault(c)
  BY <1>8, QuietStep DEF SelectDefault
<1>9. CASE ReadFails(c)
  BY <1>9, QuietStep DEF ReadFails, CallFails, Fault
<1>10. CASE Scan(c)
  <2>1. IdsToClaim(c) \in SUBSET Ids
    BY DEF IdsToClaim, StuckBatch
  <2>2. QED
    BY <1>10, <2>1, QuietStep DEF Scan
<1>11. CASE SweepFails(c)
  BY <1>11, QuietStep DEF SweepFails, CallFails, Fault
<1>12. CASE Tick(c)
  BY <1>12, QuietStep DEF Tick
<1>13. QED
  BY <1>1, <1>2, <1>3, <1>4, <1>5, <1>6, <1>7, <1>8, <1>9, <1>10, <1>11, <1>12
-----------------------------------------------------------------------------
(* Steps of the environment, and the end of a process.                     *)

LEMMA EnvironmentInductive == Inductive /\ Environment => Inductive'
<1> SUFFICES ASSUME Inductive, Environment PROVE Inductive'
  OBVIOUS
<1> USE DEF Inductive, TypeOK, RedisTypeOK, Ids, procVars, workVars
<1>1. CASE Arrive
  <2> USE <1>1 DEF Arrive, XAdd
  <2>1. TypeOK' /\ Pending' = Pending /\ \A c \in Consumers : Owned(c)' = Owned(c)
    BY DEF Pending, Owned
  <2>2. HandedOutIsBehind' /\ HistoryNests' /\ IdleIsPending' /\ AckedWasWorked'
    BY <2>1 DEF HandedOutIsBehind, HistoryNests, IdleIsPending, AckedWasWorked
  <2>3. HandsAgree' /\ NewNameOwnsNothing' /\ HeldIsTracked' /\ DeliveredIsAccounted'
    BY <2>1 DEF HandsAgree, NewNameOwnsNothing, HeldIsTracked, DeliveredIsAccounted
  <2>4. QED
    BY <2>1, <2>2, <2>3
<1>2. CASE LoseData /\ UNCHANGED <<procVars, workVars>>
  <2> USE <1>2 DEF LoseData, Fault
  <2>1. group' \in BOOLEAN
    OBVIOUS
  <2>2. Pending' = {} /\ \A c \in Consumers : Owned(c)' = {}
    BY DEF Pending, Owned
  <2>3. owner' \in [Ids -> Consumers \cup {Orphan, NoOne}] /\ dropped' \subseteq Ids
    BY DEF Pending
  <2>4. TypeOK'
    BY <2>1, <2>3
  <2>5. HandedOutIsBehind' /\ HistoryNests' /\ IdleIsPending' /\ AckedWasWorked'
    BY <2>2 DEF HandedOutIsBehind, HistoryNests, IdleIsPending, AckedWasWorked
  <2>6. HandsAgree' /\ NewNameOwnsNothing' /\ HeldIsTracked' /\ DeliveredIsAccounted'
    BY <2>2 DEF HandsAgree, NewNameOwnsNothing, HeldIsTracked, DeliveredIsAccounted
  <2>7. QED
    BY <2>4, <2>5, <2>6
<1>3. ASSUME NEW i \in Ids, Age(i) /\ UNCHANGED <<procVars, workVars>>
      PROVE  Inductive'
  <2> USE <1>3 DEF Age
  <2>1. TypeOK' /\ Pending' = Pending /\ \A c \in Consumers : Owned(c)' = Owned(c)
    BY DEF Pending, Owned
  <2>2. HandedOutIsBehind' /\ HistoryNests' /\ IdleIsPending' /\ AckedWasWorked'
    BY <2>1 DEF HandedOutIsBehind, HistoryNests, IdleIsPending, AckedWasWorked, Pending
  <2>3. HandsAgree' /\ NewNameOwnsNothing' /\ HeldIsTracked' /\ DeliveredIsAccounted'
    BY <2>1 DEF HandsAgree, NewNameOwnsNothing, HeldIsTracked, DeliveredIsAccounted
  <2>4. QED
    BY <2>1, <2>2, <2>3
<1>4. QED
  BY <1>1, <1>2, <1>3 DEF Environment

LEMMA DeathInductive ==
  ASSUME NEW c \in Consumers, Inductive,
         \/ InitFails(c) \/ DrainDone(c) \/ DrainTimeout(c) \/ Kill(c)
         \/ XPendingPanics(c)
  PROVE  Inductive'
<1> USE DEF Inductive, TypeOK, RedisTypeOK, redisVars, workVars
<1>1. PICK status \in Statuses : Die(c, status)
  BY DEF InitFails, DrainDone, DrainTimeout, Kill, XPendingPanics, Statuses
<1> USE <1>1 DEF Die, GoTo
<1>2. /\ UNCHANGED <<firstId, lastId, delivered, owner, idle, seen, acked, dropped>>
      /\ group' \in BOOLEAN /\ faults' \in 0..MaxFaults
  <2>1. CASE InitFails(c)
    <3>1. group' \in BOOLEAN
      BY <2>1 DEF InitFails, XGroupCreate
    <3>2. QED
      BY <2>1, <3>1 DEF InitFails, XGroupCreate, Fault
  <2>2. QED
    BY <2>1 DEF DrainDone, DrainTimeout, Kill, XPendingPanics, CallFails, Fault
<1>3. TypeOK'
  BY <1>2 DEF Phases, PCs
<1>4. Pending' = Pending /\ \A d \in Consumers : Owned(d)' = Owned(d)
  BY <1>2 DEF Pending, Owned, Ids
<1>5. HandedOutIsBehind' /\ HistoryNests' /\ IdleIsPending' /\ AckedWasWorked'
  BY <1>2, <1>4 DEF HandedOutIsBehind, HistoryNests, IdleIsPending, AckedWasWorked
<1>6. HandsAgree'
  BY DEF HandsAgree
<1>7. NewNameOwnsNothing' /\ HeldIsTracked' /\ DeliveredIsAccounted'
  BY <1>2, <1>4 DEF NewNameOwnsNothing, HeldIsTracked, DeliveredIsAccounted
<1>8. QED
  BY <1>3, <1>5, <1>6, <1>7
-----------------------------------------------------------------------------
(* Steps of the consuming goroutine on the stream and on a message.        *)

\* The entry XREADGROUP ">" hands out was never handed out before.
LEMMA NextNewIsFresh ==
  ASSUME Inductive, NextNew =< lastId
  PROVE  /\ NextNew \in Ids
         /\ NextNew \notin seen \cup tried \cup worked \cup acked \cup Pending
         /\ firstId =< NextNew
BY DEF Inductive, TypeOK, RedisTypeOK, HandedOutIsBehind, HistoryNests,
       AckedWasWorked, DeliveredIsAccounted, NextNew, Ids

\* A new name: the invariant does not tell a consumer out of use from Orphan.
LEMMA LoopConsumeInductive ==
  ASSUME NEW c \in Consumers, Inductive, LoopConsume(c)
  PROVE  Inductive'
<1> USE DEF Inductive, TypeOK, RedisTypeOK, LoopConsume, XRename, GoTo
<1>1. Pending' = Pending /\ Owned(c)' = {}
  BY DEF Pending, Owned
<1>2. \A d \in Consumers : d # c => Owned(d)' = Owned(d)
  BY DEF Owned
<1>3. TypeOK'
  BY DEF workVars, PCs
<1>4. HandedOutIsBehind' /\ HistoryNests' /\ IdleIsPending' /\ AckedWasWorked'
  BY <1>1 DEF HandedOutIsBehind, HistoryNests, IdleIsPending, AckedWasWorked, workVars
<1>5. HandsAgree' /\ HeldIsTracked' /\ DeliveredIsAccounted'
  BY <1>1 DEF HandsAgree, HeldIsTracked, DeliveredIsAccounted, workVars
<1>6. NewNameOwnsNothing'
  BY <1>1, <1>2 DEF NewNameOwnsNothing
<1>7. QED
  BY <1>3, <1>4, <1>5, <1>6

LEMMA ReadBacklogInductive ==
  ASSUME NEW c \in Consumers, Inductive, ReadBacklog(c)
  PROVE  Inductive'
<1> USE DEF Inductive, TypeOK, RedisTypeOK, NewNameOwnsNothing
<1>1. Owned(c) = {} /\ pc[c] = "backlog"
  BY DEF ReadBacklog
<1>2. GoTo(c, "select") /\ UNCHANGED <<redisVars, phase, tick, scan, exit, held, workVars>>
  BY <1>1 DEF ReadBacklog, redisVars
<1>3. TypeOK'
  BY <1>2 DEF GoTo, redisVars, workVars, PCs
<1>4. QED
  BY <1>1, <1>2, <1>3, QuietStep DEF GoTo, redisVars, workVars

LEMMA ReadNewInductive ==
  ASSUME NEW c \in Consumers, Inductive, ReadNew(c) \/ ReadReplyLost(c)
  PROVE  Inductive'
<1> USE DEF Inductive, TypeOK, RedisTypeOK
<1>1. /\ pc[c] = "read" /\ XReadGroupNew(c) /\ faults' \in 0..MaxFaults
      /\ UNCHANGED <<phase, tick, scan, exit, worked>>
      /\ \/ StartWork(c, NextNew)
         \/ /\ GoTo(c, "read") \/ GoTo(c, "loop")
            /\ UNCHANGED <<held, tried>>
  BY DEF ReadNew, ReadReplyLost, StartWork, Fault, workVars
<1>2. /\ NextNew \in Ids /\ firstId =< NextNew
      /\ NextNew \notin seen \cup tried \cup worked \cup acked \cup Pending
  BY <1>1, NextNewIsFresh DEF XReadGroupNew
<1>3. /\ Pending' = Pending \cup {NextNew}
      /\ \A d \in Consumers : d # c => Owned(d)' = Owned(d)
  BY <1>1, <1>2 DEF XReadGroupNew, Pending, Owned
<1>4. TypeOK'
  <2>1. RedisTypeOK'
    BY <1>1, <1>2 DEF XReadGroupNew, Ids
  <2>2. /\ pc' \in [Consumers -> PCs] /\ tried' \subseteq Ids
        /\ held' \in [Consumers -> 0..MaxId]
    <3>1. CASE StartWork(c, NextNew)
      <4>1. NextNew \in 0..MaxId
        BY <1>2 DEF Ids
      <4>2. QED
        BY <1>2, <3>1, <4>1 DEF StartWork, GoTo, PCs
    <3>2. CASE (GoTo(c, "read") \/ GoTo(c, "loop")) /\ UNCHANGED <<held, tried>>
      BY <3>2 DEF GoTo, PCs
    <3>3. QED
      BY <1>1, <3>1, <3>2
  <2>3. QED
    BY <1>1, <2>1, <2>2
<1>5. HandedOutIsBehind'
  <2>1. /\ delivered' = NextNew /\ NextNew =< lastId
        /\ seen' = seen \cup {NextNew} /\ UNCHANGED <<firstId, lastId>>
    BY <1>1 DEF XReadGroupNew
  <2>2. \A i \in seen : i =< lastId /\ (i =< NextNew \/ i < firstId)
    BY <1>2 DEF HandedOutIsBehind, NextNew, Ids
  <2>3. QED
    BY <1>2, <2>1, <2>2 DEF HandedOutIsBehind, Ids
<1>6. HistoryNests' /\ IdleIsPending' /\ AckedWasWorked' /\ DeliveredIsAccounted'
  BY <1>1, <1>2, <1>3 DEF XReadGroupNew, StartWork, HistoryNests, IdleIsPending,
                          AckedWasWorked, DeliveredIsAccounted
<1>7. HandsAgree'
  BY <1>1, <1>2 DEF StartWork, GoTo, HandsAgree, Ids
<1>8. NewNameOwnsNothing' /\ HeldIsTracked'
  BY <1>1, <1>2, <1>3 DEF StartWork, GoTo, NewNameOwnsNothing, HeldIsTracked,
                          XReadGroupNew
<1>9. QED
  BY <1>4, <1>5, <1>6, <1>7, <1>8

LEMMA WorkInductive ==
  ASSUME NEW c \in Consumers, Inductive, WorkDone(c) \/ WorkFails(c)
  PROVE  Inductive'
<1> USE DEF Inductive, TypeOK, RedisTypeOK
<1>1. /\ pc[c] = "work" /\ held[c] \in tried /\ held[c] \notin worked
      /\ UNCHANGED <<redisVars, phase, tick, scan, exit, tried>>
      /\ \/ GoTo(c, "ack") /\ UNCHANGED held /\ worked' = worked \cup {held[c]}
         \/ /\ GoTo(c, "loop") /\ UNCHANGED worked
            /\ held' = [held EXCEPT ![c] = 0]
  BY DEF WorkDone, WorkFails, LetGo, HandsAgree
<1> USE DEF redisVars, GoTo
<1>2. Pending' = Pending /\ \A d \in Consumers : Owned(d)' = Owned(d)
  BY <1>1 DEF Pending, Owned, Ids
<1>3. TypeOK'
  BY <1>1 DEF PCs
<1>4. HandedOutIsBehind' /\ HistoryNests' /\ IdleIsPending' /\ AckedWasWorked'
  BY <1>1, <1>2 DEF HandedOutIsBehind, HistoryNests, IdleIsPending, AckedWasWorked
<1>5. HandsAgree'
  BY <1>1 DEF HandsAgree
<1>6. NewNameOwnsNothing' /\ HeldIsTracked' /\ DeliveredIsAccounted'
  BY <1>1, <1>2 DEF NewNameOwnsNothing, HeldIsTracked, DeliveredIsAccounted
<1>7. QED
  BY <1>3, <1>4, <1>5, <1>6

\* An acknowledgement moves the held message from the pending list to the
\* acknowledged ones, or does nothing: Redis dropped it before.
LEMMA AckInductive ==
  ASSUME NEW c \in Consumers, Inductive, Ack(c) \/ AckFails(c)
  PROVE  Inductive'
<1> USE DEF Inductive, TypeOK, RedisTypeOK
<1>1. /\ pc[c] = "ack" /\ held[c] \in Ids /\ held[c] \in worked
      /\ held[c] \in Pending \cup dropped
  BY DEF Ack, AckFails, HandsAgree, HeldIsTracked, Ids
<1>2. /\ UNCHANGED <<group, firstId, lastId, delivered, seen, dropped>>
      /\ UNCHANGED <<phase, tick, scan, exit, workVars>>
      /\ faults' \in 0..MaxFaults
      /\ GoTo(c, "select") \/ GoTo(c, "loop")
      /\ held' = [held EXCEPT ![c] = 0]
  BY DEF Ack, AckFails, XAck, LetGo, Fault, redisVars, workVars
<1>3. \/ UNCHANGED <<owner, idle, acked>>
      \/ /\ owner' = [owner EXCEPT ![held[c]] = NoOne]
         /\ idle' = idle \ {held[c]}
         /\ acked' = IF owner[held[c]] # NoOne THEN acked \cup {held[c]} ELSE acked
  BY DEF Ack, AckFails, XAck, redisVars
<1>4. TypeOK'
  <2>1. RedisTypeOK'
    BY <1>1, <1>2, <1>3
  <2>2. pc' \in [Consumers -> PCs] /\ held' \in [Consumers -> 0..MaxId]
    BY <1>2 DEF GoTo, PCs
  <2>3. QED
    BY <1>2, <2>1, <2>2 DEF workVars
<1>5. /\ Pending' \subseteq Pending /\ Pending \ {held[c]} \subseteq Pending'
      /\ \A d \in Consumers : Owned(d)' \subseteq Owned(d)
      /\ acked' = acked \cup (Pending \ Pending')
      /\ idle' \subseteq idle \cap Pending'
  BY <1>1, <1>3 DEF Pending, Owned, IdleIsPending
<1>6. HandedOutIsBehind' /\ HistoryNests' /\ IdleIsPending'
  BY <1>2, <1>5 DEF HandedOutIsBehind, HistoryNests, IdleIsPending, workVars
<1>7. AckedWasWorked' /\ DeliveredIsAccounted'
  BY <1>1, <1>2, <1>5 DEF AckedWasWorked, DeliveredIsAccounted, workVars
<1>8. HandsAgree'
  BY <1>1, <1>2 DEF GoTo, HandsAgree, workVars
<1>9. NewNameOwnsNothing'
  BY <1>1, <1>2, <1>5 DEF GoTo, NewNameOwnsNothing
<1>10. HeldIsTracked'
  BY <1>1, <1>2, <1>5 DEF HandsAgree, HeldIsTracked
<1>11. QED
  BY <1>4, <1>6, <1>7, <1>8, <1>9, <1>10

\* A claim passes pending entries to the claimer or, if they are trimmed, from
\* the pending list to the dropped ones.
LEMMA ClaimInductive ==
  ASSUME NEW c \in Consumers, Inductive, Claim(c)
  PROVE  Inductive'
<1> USE DEF Inductive, TypeOK, RedisTypeOK
<1> DEFINE claimable == {i \in scan[c] : owner[i] # NoOne}
           trimmed   == {i \in claimable : i < firstId}
<1>1. /\ pc[c] = "claim"
      /\ owner' = [i \in Ids |-> IF i \in trimmed THEN NoOne
                                 ELSE IF i \in claimable THEN c ELSE owner[i]]
      /\ idle' = idle \ claimable
      /\ dropped' = dropped \cup trimmed
      /\ UNCHANGED <<group, firstId, lastId, delivered, seen, acked, faults,
                     phase, held, tick, exit, workVars>>
      /\ scan' = [scan EXCEPT ![c] = {}]
      /\ GoTo(c, "select")
  BY DEF Claim, XClaim
<1>2. claimable \subseteq Pending /\ trimmed \subseteq claimable
  BY DEF Pending
<1> HIDE DEF claimable, trimmed
<1>3. /\ Pending' = Pending \ trimmed
      /\ \A d \in Consumers : d # c => Owned(d)' \subseteq Owned(d)
  BY <1>1, <1>2 DEF Pending, Owned
<1>4. TypeOK'
  <2>1. owner' \in [Ids -> Consumers \cup {Orphan, NoOne}]
    BY <1>1
  <2>2. idle' \subseteq Ids /\ dropped' \subseteq Ids
    BY <1>1, <1>2 DEF Pending
  <2>3. QED
    BY <1>1, <2>1, <2>2 DEF GoTo, PCs, workVars
<1>5. HandedOutIsBehind' /\ HistoryNests' /\ IdleIsPending' /\ AckedWasWorked'
  BY <1>1, <1>2, <1>3 DEF HandedOutIsBehind, HistoryNests, IdleIsPending,
                          AckedWasWorked, workVars
<1>6. HandsAgree'
  BY <1>1 DEF GoTo, HandsAgree, workVars
<1>7. NewNameOwnsNothing'
  BY <1>1, <1>3 DEF GoTo, NewNameOwnsNothing
<1>8. HeldIsTracked' /\ DeliveredIsAccounted'
  BY <1>1, <1>2, <1>3 DEF HeldIsTracked, DeliveredIsAccounted
<1>9. QED
  BY <1>4, <1>5, <1>6, <1>7, <1>8

-----------------------------------------------------------------------------
(* The theorems.                                                           *)

LEMMA NextInductive == Inductive /\ [Next]_vars => Inductive'
<1> SUFFICES ASSUME Inductive, [Next]_vars PROVE Inductive'
  OBVIOUS
<1>1. CASE Environment
  BY <1>1, EnvironmentInductive
<1>2. ASSUME NEW c \in Consumers, MainStep(c) PROVE Inductive'
  BY <1>2, MoveInductive, DeathInductive DEF MainStep
<1>3. ASSUME NEW c \in Consumers, LoopStep(c) PROVE Inductive'
  BY <1>3, MoveInductive, LoopConsumeInductive, ReadBacklogInductive,
     ReadNewInductive, WorkInductive, AckInductive, ClaimInductive DEF LoopStep
<1>4. ASSUME NEW c \in Consumers, ErrorStep(c) PROVE Inductive'
  BY <1>4, MoveInductive, DeathInductive, ReadNewInductive, AckInductive
     DEF ErrorStep
<1>5. ASSUME NEW c \in Consumers, Tick(c) PROVE Inductive'
  BY <1>5, MoveInductive
<1>6. CASE UNCHANGED vars
  BY <1>6 DEF vars, redisVars, procVars, workVars, Inductive, TypeOK, RedisTypeOK,
              HandedOutIsBehind, HistoryNests, HandsAgree, NewNameOwnsNothing,
              IdleIsPending, AckedWasWorked, HeldIsTracked, DeliveredIsAccounted,
              Pending, Owned, Ids
<1>7. QED
  BY <1>1, <1>2, <1>3, <1>4, <1>5, <1>6 DEF Next

\* The inductive invariant holds in every reachable state.
THEOREM InductiveHolds == Spec => []Inductive
BY InitInductive, NextInductive, PTL DEF Spec

\* Every variable keeps its type: no read, claim or restart puts a value into
\* the pending list or a goroutine that the code has no meaning for.
THEOREM TypeCorrect == Spec => []TypeOK
<1>1. Inductive => TypeOK
  BY DEF Inductive
<1>2. QED
  BY <1>1, InductiveHolds, PTL

\* processMessages never acknowledges a message whose work did not finish.
THEOREM AckedWasWorkedHolds == Spec => []AckedWasWorked
<1>1. Inductive => AckedWasWorked
  BY DEF Inductive
<1>2. QED
  BY <1>1, InductiveHolds, PTL

\* A crash of processMessages leaves its message in the pending list.
THEOREM HeldIsTrackedHolds == Spec => []HeldIsTracked
<1>1. Inductive => HeldIsTracked
  BY DEF Inductive
<1>2. QED
  BY <1>1, InductiveHolds, PTL

\* A delivered message is pending, acknowledged or dropped by Redis, and only
\* one of them.
THEOREM DeliveredIsAccountedHolds == Spec => []DeliveredIsAccounted
<1>1. Inductive => DeliveredIsAccounted
  BY DEF Inductive
<1>2. QED
  BY <1>1, InductiveHolds, PTL

-----------------------------------------------------------------------------
(* Action properties.                                                      *)

\* Work starts on the message of a read of ">" and on nothing else, and that
\* message was never tried before.
LEMMA NoSecondAttemptStep ==
  ASSUME Inductive, [Next]_vars, NEW c \in Consumers,
         pc[c] # "work", pc'[c] = "work"
  PROVE  held'[c] \notin tried
<1> USE DEF Inductive, TypeOK, RedisTypeOK, GoTo, Die, LetGo, redisVars,
            procVars, workVars
<1>1. CASE Environment
  BY <1>1 DEF Environment, Arrive, LoseData, Age
<1>2. ASSUME NEW d \in Consumers, MainStep(d) PROVE FALSE
  BY <1>2 DEF MainStep, Start, InitConsumer, DrainDone, DrainTimeout
<1>3. ASSUME NEW d \in Consumers, LoopStep(d) PROVE held'[c] \notin tried
  <2>1. CASE ReadNew(d)
    BY <2>1, NextNewIsFresh DEF ReadNew, XReadGroupNew, StartWork
  <2>2. CASE ReadBacklog(d)
    BY <2>2 DEF ReadBacklog, NewNameOwnsNothing
  <2>3. CASE \/ LoopExit(d) \/ LoopConsume(d) \/ XPending(d) \/ SelectDone(d)
             \/ SelectTick(d) \/ SelectDefault(d)
    BY <2>3 DEF LoopExit, LoopConsume, XPending, SelectDone, SelectTick,
                SelectDefault
  <2>4. CASE WorkDone(d) \/ WorkFails(d) \/ Ack(d) \/ Scan(d) \/ Claim(d)
    BY <2>4 DEF WorkDone, WorkFails, Ack, Scan, Claim
  <2>5. QED
    BY <1>3, <2>1, <2>2, <2>3, <2>4 DEF LoopStep
<1>4. ASSUME NEW d \in Consumers, ErrorStep(d) PROVE FALSE
  BY <1>4 DEF ErrorStep, InitFails, Terminate, Kill, XPendingPanics, ReadFails,
              ReadReplyLost, AckFails, SweepFails
<1>5. ASSUME NEW d \in Consumers, Tick(d) PROVE FALSE
  BY <1>5 DEF Tick
<1>6. CASE UNCHANGED vars
  BY <1>6 DEF vars
<1>7. QED
  BY <1>1, <1>2, <1>3, <1>4, <1>5, <1>6 DEF Next

\* No message is handed to SimulateWork twice, whatever restarts and claims
\* happen: the code gives at-most-once processing.
THEOREM NoSecondAttemptHolds == Spec => NoSecondAttempt
<1>1. Inductive /\ [Next]_vars
        => [\A c \in Consumers : pc[c] # "work" /\ pc'[c] = "work"
                                   => held'[c] \notin tried]_vars
  BY NoSecondAttemptStep
<1>2. QED
  BY <1>1, InductiveHolds, PTL DEF Spec, NoSecondAttempt

-----------------------------------------------------------------------------
(* What the stream holds.                                                  *)

\* Of the entries in the stream a step can only hand out the next one, and only
\* an acknowledgement takes one from the pending list: XCLAIM drops what was
\* trimmed.
LEMMA NothingIsLostStep ==
  ASSUME Inductive, NothingIsLost, [Next]_vars
  PROVE  NothingIsLost'
<1> USE DEF Inductive, TypeOK, RedisTypeOK, redisVars, NothingIsLost, Outstanding,
            Undelivered, Pending, Ids
<1>1. CASE UNCHANGED <<firstId, lastId, delivered, owner, acked>>
  BY <1>1
<1>2. CASE Environment
  <2>1. CASE Arrive
    BY <2>1 DEF Arrive, XAdd, HandedOutIsBehind
  <2>2. CASE LoseData
    BY <2>2 DEF LoseData
  <2>3. QED
    BY <1>1, <1>2, <2>1, <2>2 DEF Environment, Age
<1>3. ASSUME NEW c \in Consumers, MainStep(c) PROVE NothingIsLost'
  BY <1>1, <1>3 DEF MainStep, Start, InitConsumer, XGroupCreate, DrainDone, DrainTimeout
<1>4. ASSUME NEW c \in Consumers, ReadNew(c) \/ ReadReplyLost(c) PROVE NothingIsLost'
  <2>1. XReadGroupNew(c)
    BY <1>4 DEF ReadNew, ReadReplyLost
  <2>2. /\ owner' = [owner EXCEPT ![NextNew] = c] /\ delivered' = NextNew
        /\ NextNew \in Ids /\ UNCHANGED <<firstId, lastId, acked>>
    BY <2>1, NextNewIsFresh DEF XReadGroupNew
  <2>3. Pending \subseteq Pending' /\ NextNew \in Pending'
    BY <2>2
  <2>4. \A i \in Undelivered : i = NextNew \/ i \in Undelivered'
    BY <2>2 DEF NextNew
  <2>5. QED
    BY <2>2, <2>3, <2>4
<1>5. ASSUME NEW c \in Consumers, Ack(c) \/ AckFails(c) PROVE NothingIsLost'
  BY <1>1, <1>5 DEF Ack, AckFails, XAck
<1>6. ASSUME NEW c \in Consumers, LoopConsume(c) PROVE NothingIsLost'
  BY <1>6 DEF LoopConsume, XRename
<1>7. ASSUME NEW c \in Consumers, Claim(c) PROVE NothingIsLost'
  BY <1>7 DEF Claim, XClaim
<1>8. ASSUME NEW c \in Consumers, LoopStep(c) PROVE NothingIsLost'
  BY <1>1, <1>4, <1>5, <1>6, <1>7, <1>8
     DEF LoopStep, LoopExit, XPending, ReadBacklog, SelectDone, SelectTick, SelectDefault,
         WorkDone, WorkFails, Scan
<1>9. ASSUME NEW c \in Consumers, ErrorStep(c) PROVE NothingIsLost'
  BY <1>1, <1>4, <1>5, <1>9
     DEF ErrorStep, InitFails, XGroupCreate, Terminate, Kill, XPendingPanics, ReadFails,
         SweepFails
<1>10. CASE UNCHANGED vars \/ \E c \in Consumers : Tick(c)
  BY <1>1, <1>10 DEF vars, Tick
<1>11. QED
  BY <1>2, <1>3, <1>8, <1>9, <1>10 DEF Next

\* The replicas lose no message: what the stream still holds is waiting, pending
\* or acknowledged, for any number of replicas, crashes and losses of Redis.
THEOREM NothingIsLostHolds == Spec => []NothingIsLost
<1>1. Init => NothingIsLost
  BY DEF Init, RedisInit, NothingIsLost
<1>2. QED
  BY <1>1, NothingIsLostStep, InductiveHolds, PTL DEF Spec
=============================================================================
