-------------------------- MODULE ConsumerImplements --------------------------
(***************************************************************************)
(* Proof that the consumer replicas and their stream implement WorkQueue,  *)
(* under the mapping of module Consumer: a message's status is read off    *)
(* the pending list, the group's position and the acknowledgements.        *)
(***************************************************************************)
EXTENDS ConsumerProofs

USE OwnersAssumption, BoundsAssumption, ConsumerAssumption
    DEF OwnersAssumption, BoundsAssumption, ConsumerAssumption, streamVars

LEMMA UndeliveredIsIds ==
  ASSUME TypeOK
  PROVE  /\ Undelivered \subseteq Ids
         /\ \A i \in Undelivered : firstId =< i /\ i =< lastId /\ i > delivered
<1> SUFFICES ASSUME NEW i \in Undelivered
             PROVE  i \in Ids /\ firstId =< i /\ i =< lastId /\ i > delivered
  OBVIOUS
<1>1. /\ firstId \in Int /\ lastId \in Int /\ firstId >= 1 /\ lastId =< MaxId
  BY DEF TypeOK, RedisTypeOK
<1>2. i \in firstId..lastId /\ i > delivered
  BY DEF Undelivered
<1>3. QED
  BY <1>1, <1>2 DEF Ids

\* The mapped states of a message exclude each other.
LEMMA StatusIs ==
  ASSUME Inductive, NEW i \in Ids
  PROVE  /\ StatusOf(i) = "absent"  <=> i > lastId
         /\ StatusOf(i) = "settled" <=> i \in acked
         /\ StatusOf(i) = "taken"   <=> i \in Pending
         /\ StatusOf(i) = "queued"  <=> i \in Undelivered
         /\ StatusOf(i) = "lost" <=> /\ i =< lastId
                                     /\ i \notin acked \cup Pending \cup Undelivered
<1>1. ~(i > lastId) <=> i =< lastId
  BY DEF Inductive, TypeOK, RedisTypeOK, Ids
<1>2. i \in seen => i =< lastId /\ i \notin Undelivered
  BY <1>1 DEF Inductive, TypeOK, RedisTypeOK, HandedOutIsBehind, Undelivered, Ids
<1>3. i \in Undelivered => i =< lastId
  BY UndeliveredIsIds DEF Inductive
<1>4. i \in Pending \cup acked => i \in seen /\ ~(i \in Pending /\ i \in acked)
  BY DEF Inductive, DeliveredIsAccounted
<1>5. QED
  BY <1>1, <1>2, <1>3, <1>4 DEF StatusOf

LEMMA StatusIsPrimed ==
  ASSUME Inductive', NEW i \in Ids
  PROVE  /\ StatusOf(i)' = "absent"  <=> i > lastId'
         /\ StatusOf(i)' = "settled" <=> i \in acked'
         /\ StatusOf(i)' = "taken"   <=> i \in Pending'
         /\ StatusOf(i)' = "queued"  <=> i \in Undelivered'
         /\ StatusOf(i)' = "lost" <=> /\ i =< lastId'
                                      /\ i \notin acked' \cup Pending' \cup Undelivered'
<1>1. ~(i > lastId') <=> i =< lastId'
  BY DEF Inductive, TypeOK, RedisTypeOK, Ids
<1>2. i \in seen' => i =< lastId' /\ i \notin Undelivered'
  BY <1>1 DEF Inductive, TypeOK, RedisTypeOK, HandedOutIsBehind, Undelivered, Ids
<1>3. i \in Undelivered' => i =< lastId'
  BY DEF Inductive, TypeOK, RedisTypeOK, Undelivered
<1>4. i \in Pending' \cup acked' => i \in seen' /\ ~(i \in Pending' /\ i \in acked')
  BY DEF Inductive, DeliveredIsAccounted
<1>5. QED
  BY <1>1, <1>2, <1>3, <1>4 DEF StatusOf

LEMMA InitImplements == Init => Queue!Init
<1> SUFFICES ASSUME Init PROVE Queue!Init
  OBVIOUS
<1>1. Inductive /\ \A i \in Ids : i > lastId
  BY InitInductive DEF Init, RedisInit, Ids
<1>2. \A i \in Ids : StatusOf(i) = "absent"
  BY <1>1, StatusIs
<1>3. QED
  BY <1>2 DEF Init, BeingWorked, Queue!Init, Queue!Messages, Ids

\* A step that keeps the ids of each status, those being worked on and the
\* finished ones is a stutter.
LEMMA Stutter ==
  ASSUME UNCHANGED <<lastId, acked, worked>>,
         Pending' = Pending, Undelivered' = Undelivered, BeingWorked' = BeingWorked
  PROVE  UNCHANGED <<[i \in Ids |-> StatusOf(i)], BeingWorked, worked>>
<1>1. \A i \in Ids : StatusOf(i)' = StatusOf(i)
  BY DEF StatusOf
<1>2. QED
  BY <1>1 DEF Ids

\* A goroutine that goes on to another place than the work is done with the
\* message it worked on, and nobody else works on it.
LEMMA LeavesWork ==
  ASSUME Inductive, NEW c \in Consumers, NEW l \in PCs \ {"work"},
         pc' = [pc EXCEPT ![c] = l],
         held' = held \/ held' = [held EXCEPT ![c] = 0]
  PROVE  BeingWorked' = IF pc[c] = "work" THEN BeingWorked \ {held[c]} ELSE BeingWorked
<1> USE DEF Inductive, TypeOK, HandsAgree
<1>1. /\ pc'[c] = l
      /\ \A d \in Consumers \ {c} : pc'[d] = pc[d] /\ held'[d] = held[d]
  OBVIOUS
<1>2. BeingWorked' = {i \in Ids : \E d \in Consumers \ {c} : pc[d] = "work" /\ held[d] = i}
  BY <1>1 DEF BeingWorked, Ids
<1>3. CASE pc[c] = "work"
  <2>1. \A d \in Consumers \ {c} : pc[d] = "work" => held[d] # held[c]
    BY <1>3
  <2>2. QED
    BY <1>2, <1>3, <2>1 DEF BeingWorked
<1>4. CASE pc[c] # "work"
  BY <1>2, <1>4 DEF BeingWorked
<1>5. QED
  BY <1>3, <1>4

\* Redis trims waiting messages off the stream to make room for the new one.
LEMMA PublishImplements ==
  ASSUME Inductive, Inductive', Arrive
  PROVE  Queue!Publish
<1> DEFINE m == lastId + 1
           S == {i \in Undelivered : i < firstId'}
<1> USE DEF Inductive, TypeOK, RedisTypeOK, HandedOutIsBehind, Arrive, XAdd
<1>1. m \in Ids /\ m > lastId /\ S \subseteq Ids
  <2>1. m \in Ids /\ m > lastId
    BY DEF Ids
  <2>2. QED
    BY <2>1, UndeliveredIsIds
<1>2. Pending' = Pending /\ BeingWorked' = BeingWorked /\ UNCHANGED <<acked, worked>>
  BY DEF Pending, BeingWorked, Ids, procVars, workVars
<1>3. m \in Undelivered' /\ Undelivered' = (Undelivered \ S) \cup {m}
  <2>1. /\ firstId' \in Int /\ firstId =< firstId' /\ firstId' =< m
        /\ lastId' = m /\ delivered' = delivered
    <3>1. /\ lastId \in Int /\ firstId \in Int /\ DefaultMaxStreamLength \in Nat
          /\ DefaultMaxStreamLength >= 1 /\ firstId =< lastId + 1
      OBVIOUS
    <3>2. \/ firstId' = firstId
          \/ /\ firstId' = lastId + 2 - DefaultMaxStreamLength
             /\ lastId + 2 - firstId > DefaultMaxStreamLength
      OBVIOUS
    <3>3. lastId' = m /\ delivered' = delivered
      OBVIOUS
    <3>4. QED
      BY <3>1, <3>2, <3>3
  <2>2. m > delivered
    OBVIOUS
  <2>3. QED
    BY <2>1, <2>2 DEF Undelivered
<1> HIDE DEF S
<1>4. \A i \in S : StatusOf(i) = "queued" /\ i # m
  BY <1>1, StatusIs DEF S, Undelivered, Ids
<1>5. StatusOf(m) = "absent" /\ \A i \in Ids : StatusOf(i) = "absent" => m =< i
  BY <1>1, StatusIs DEF Ids
<1>6. \A i \in Ids : StatusOf(i)' = IF i = m THEN "queued"
                                    ELSE IF i \in S THEN "lost" ELSE StatusOf(i)
  <2> SUFFICES ASSUME NEW i \in Ids
               PROVE  StatusOf(i)' = IF i = m THEN "queued"
                                     ELSE IF i \in S THEN "lost" ELSE StatusOf(i)
    OBVIOUS
  <2>1. CASE i = m
    BY <2>1, <1>3, StatusIsPrimed
  <2>2. CASE i # m /\ i \in S
    <3>1. i =< lastId' /\ i \notin acked' \cup Pending' \cup Undelivered'
      BY <2>2, <1>2, <1>3, <1>4, StatusIs DEF DeliveredIsAccounted, S, Undelivered
    <3>2. QED
      BY <2>2, <3>1, StatusIsPrimed
  <2>3. CASE i # m /\ i \notin S
    <3>1. /\ i > lastId' <=> i > lastId
          /\ i \in Undelivered' <=> i \in Undelivered
      BY <2>3, <1>3 DEF Ids
    <3>2. QED
      BY <2>3, <3>1, <1>2 DEF StatusOf
  <2>4. QED
    BY <2>1, <2>2, <2>3
<1>7. S \in SUBSET Queue!With({"queued"})
  BY <1>1, <1>4 DEF Queue!With, Queue!Messages, Ids
<1>8. [i \in Ids |-> StatusOf(i)]' = [Queue!Lose(S) EXCEPT ![m] = "queued"]
  BY <1>1, <1>6 DEF Queue!Lose, Queue!Messages, Ids
<1>9. QED
  BY <1>1, <1>2, <1>5, <1>7, <1>8 DEF Queue!Publish, Queue!Messages, Ids

\* XREADGROUP ">" takes the oldest waiting message.
LEMMA TakeImplements ==
  ASSUME Inductive, Inductive', NEW c \in Consumers, XReadGroupNew(c),
         UNCHANGED worked,
         BeingWorked' = BeingWorked \/ BeingWorked' = BeingWorked \cup {NextNew}
  PROVE  Queue!Take
<1> DEFINE m == NextNew
<1> USE DEF Inductive, TypeOK, RedisTypeOK, XReadGroupNew
<1>1. m \in Ids /\ firstId =< m /\ m =< lastId /\ m \notin Pending \cup acked
  BY NextNewIsFresh DEF Ids
<1>2. m \in Undelivered /\ \A i \in Undelivered : m =< i
  BY <1>1 DEF Undelivered, NextNew
<1>3. Undelivered' = Undelivered \ {m} /\ Pending' = Pending \cup {m}
  <2>1. Undelivered' = Undelivered \ {m}
    BY <1>1 DEF Undelivered, NextNew
  <2>2. owner' = [owner EXCEPT ![m] = c] /\ c # NoOne
    OBVIOUS
  <2>3. Pending' = Pending \cup {m}
    BY <1>1, <2>2 DEF Pending
  <2>4. QED
    BY <2>1, <2>3
<1>4. UNCHANGED <<lastId, acked>>
  OBVIOUS
<1>0. BeingWorked' = BeingWorked \/ BeingWorked' = BeingWorked \cup {m}
  OBVIOUS
<1> HIDE DEF m
<1>5. StatusOf(m) = "queued" /\ \A i \in Ids : StatusOf(i) = "queued" => m =< i
  BY <1>1, <1>2, StatusIs
<1>6. \A i \in Ids : StatusOf(i)' = IF i = m THEN "taken" ELSE StatusOf(i)
  <2> SUFFICES ASSUME NEW i \in Ids
               PROVE  StatusOf(i)' = IF i = m THEN "taken" ELSE StatusOf(i)
    OBVIOUS
  <2>1. CASE i = m
    BY <2>1, <1>3, StatusIsPrimed
  <2>2. CASE i # m
    BY <2>2, <1>3, <1>4 DEF StatusOf
  <2>3. QED
    BY <2>1, <2>2
<1>7. QED
  <2>1. [i \in Ids |-> StatusOf(i)]' = [[i \in Ids |-> StatusOf(i)] EXCEPT ![m] = "taken"]
    BY <1>1, <1>6 DEF Ids
  <2>2. QED
    BY <1>0, <1>1, <1>5, <2>1 DEF Queue!Take, Queue!Messages, Ids

LEMMA FinishImplements ==
  ASSUME Inductive, NEW c \in Consumers, WorkDone(c)
  PROVE  Queue!Finish
<1> DEFINE m == held[c]
<1>1. m \in BeingWorked
  BY DEF WorkDone, Inductive, TypeOK, HandsAgree, BeingWorked, Ids
<1>2. worked' = worked \cup {m}
  BY DEF WorkDone
<1>3. BeingWorked' = BeingWorked \ {m}
  BY LeavesWork DEF WorkDone, GoTo, PCs
<1>4. UNCHANGED <<lastId, acked>> /\ Pending' = Pending /\ Undelivered' = Undelivered
  BY DEF WorkDone, redisVars, Pending, Undelivered, Ids
<1>5. \A i \in Ids : StatusOf(i)' = StatusOf(i)
  BY <1>4 DEF StatusOf
<1>6. QED
  BY <1>1, <1>2, <1>3, <1>5 DEF Queue!Finish, Ids

\* Work that fails, or ends with its process, is abandoned; a process that is
\* not working only stutters.
LEMMA AbandonImplements ==
  ASSUME Inductive, NEW c \in Consumers, NEW l \in PCs \ {"work"},
         pc' = [pc EXCEPT ![c] = l], held' = [held EXCEPT ![c] = 0],
         UNCHANGED <<lastId, acked, worked>>,
         Pending' = Pending, Undelivered' = Undelivered
  PROVE  \/ Queue!Abandon
         \/ UNCHANGED <<[i \in Ids |-> StatusOf(i)], BeingWorked, worked>>
<1>1. CASE pc[c] = "work"
  <2>1. BeingWorked' = BeingWorked \ {held[c]}
    BY <1>1, LeavesWork
  <2>2. held[c] \in BeingWorked
    BY <1>1 DEF Inductive, TypeOK, HandsAgree, BeingWorked, Ids
  <2>3. \A i \in Ids : StatusOf(i)' = StatusOf(i)
    BY DEF StatusOf
  <2>4. QED
    BY <2>1, <2>2, <2>3 DEF Queue!Abandon, Ids
<1>2. CASE pc[c] # "work"
  <2>1. BeingWorked' = BeingWorked
    BY <1>2, LeavesWork
  <2>2. QED
    BY <2>1, Stutter
<1>3. QED
  BY <1>1, <1>2

\* An XACK of the held message settles it, unless Redis dropped it before.
LEMMA SettleImplements ==
  ASSUME Inductive, Inductive', NEW m \in Ids, m \in worked, XAck(m), UNCHANGED worked,
         BeingWorked' = BeingWorked
  PROVE  \/ Queue!Settle
         \/ UNCHANGED <<[i \in Ids |-> StatusOf(i)], BeingWorked, worked>>
<1> USE DEF Inductive, TypeOK, RedisTypeOK
<1>1. UNCHANGED lastId /\ Undelivered' = Undelivered
  BY DEF XAck, Undelivered
<1>2. CASE m \in Pending
  <2>1. acked' = acked \cup {m} /\ Pending' = Pending \ {m}
    BY <1>2 DEF XAck, Pending
  <2>2. StatusOf(m) = "taken"
    BY <1>2, StatusIs
  <2>3. \A i \in Ids : StatusOf(i)' = IF i = m THEN "settled" ELSE StatusOf(i)
    <3>1. StatusOf(m)' = "settled"
      BY <2>1, StatusIsPrimed
    <3>2. \A i \in Ids \ {m} : StatusOf(i)' = StatusOf(i)
      BY <1>1, <2>1 DEF StatusOf
    <3>3. QED
      BY <3>1, <3>2
  <2>4. QED
    BY <2>2, <2>3 DEF Queue!Settle, Queue!Messages, Ids
<1>3. CASE m \notin Pending
  <2>1. UNCHANGED acked /\ Pending' = Pending
    BY <1>3 DEF XAck, Pending
  <2>2. QED
    BY <1>1, <2>1, Stutter
<1>4. QED
  BY <1>2, <1>3

\* Messages leave the stream or the pending list without being acknowledged.
LEMMA VanishImplements ==
  ASSUME Inductive, Inductive', UNCHANGED <<lastId, acked, worked>>,
         BeingWorked' = BeingWorked,
         Pending' \subseteq Pending, Undelivered' \subseteq Undelivered
  PROVE  Queue!Vanish
<1> DEFINE S == (Pending \ Pending') \cup (Undelivered \ Undelivered')
<1>1. S \subseteq Ids
  BY UndeliveredIsIds DEF Pending, Inductive
<1>2. \A i \in S : StatusOf(i) \in {"queued", "taken"}
  BY <1>1, StatusIs
<1>3. \A i \in Ids : StatusOf(i)' = IF i \in S THEN "lost" ELSE StatusOf(i)
  <2> SUFFICES ASSUME NEW i \in Ids
               PROVE  StatusOf(i)' = IF i \in S THEN "lost" ELSE StatusOf(i)
    OBVIOUS
  <2>1. CASE i \in S
    <3>1. i =< lastId
      <4>1. StatusOf(i) # "absent" /\ lastId \in Int /\ i \in Int
        <5>1. StatusOf(i) # "absent"
          BY <2>1, <1>2
        <5>2. QED
          BY <5>1 DEF Inductive, TypeOK, RedisTypeOK, Ids
      <4>2. QED
        BY <4>1, StatusIs
    <3>2. i \notin acked /\ ~(i \in Pending /\ i \in Undelivered)
      BY <2>1, <1>2, StatusIs
    <3>3. QED
      BY <2>1, <3>1, <3>2, StatusIsPrimed
  <2>2. CASE i \notin S
    BY <2>2 DEF StatusOf
  <2>3. QED
    BY <2>1, <2>2
<1> HIDE DEF S
<1>4. QED
  BY <1>1, <1>2, <1>3 DEF Queue!Vanish, Queue!With, Queue!Lose, Queue!Messages, Ids

-----------------------------------------------------------------------------
(* Every step of the replicas and their environment.                       *)

LEMMA StepImplements ==
  ASSUME Inductive, Inductive', [Next]_vars
  PROVE  Queue!Next \/ UNCHANGED <<[i \in Ids |-> StatusOf(i)], BeingWorked, worked>>
<1> DEFINE Stuttering == UNCHANGED <<[i \in Ids |-> StatusOf(i)], BeingWorked, worked>>
           Kept == /\ UNCHANGED <<lastId, acked, worked>>
                   /\ Pending' = Pending /\ Undelivered' = Undelivered
           Same == Kept /\ BeingWorked' = BeingWorked
<1> USE DEF redisVars, procVars, workVars
<1>1. Same => Stuttering
  BY Stutter
<1>2. ASSUME NEW c \in Consumers, NEW l \in PCs \ {"work"}, pc[c] # "work",
             GoTo(c, l), held' = held \/ held' = [held EXCEPT ![c] = 0]
      PROVE  BeingWorked' = BeingWorked
  BY <1>2, LeavesWork DEF GoTo
<1>3. ASSUME NEW c \in Consumers, NEW status \in Statuses, Die(c, status), Kept
      PROVE  Queue!Next \/ Stuttering
  <2>1. "off" \in PCs \ {"work"}
    BY DEF PCs
  <2>2. QED
    BY <1>3, <2>1, AbandonImplements DEF Die, GoTo, Queue!Next
<1> HIDE DEF Stuttering
<1>4. CASE Environment
  <2>1. CASE Arrive
    BY <2>1, PublishImplements DEF Queue!Next
  <2>2. CASE LoseData /\ UNCHANGED <<procVars, workVars>>
    <3>1. Pending' = {}
      BY <2>2 DEF LoseData, Pending
    <3>2. Undelivered' = {}
      BY <2>2 DEF LoseData, Undelivered, Inductive, TypeOK, RedisTypeOK
    <3>3. BeingWorked' = BeingWorked
      BY <2>2 DEF BeingWorked, Ids
    <3>4. QED
      BY <2>2, <3>1, <3>2, <3>3, VanishImplements DEF LoseData, Queue!Next
  <2>3. ASSUME NEW i \in Ids, Age(i) /\ UNCHANGED <<procVars, workVars>>
        PROVE  Stuttering
    BY <1>1, <2>3 DEF Age, Pending, Undelivered, BeingWorked, Ids
  <2>4. QED
    BY <1>4, <2>1, <2>2, <2>3 DEF Environment, Stuttering
<1>5. ASSUME NEW c \in Consumers, MainStep(c) PROVE Queue!Next \/ Stuttering
  <2>1. CASE Start(c)
    BY <1>1, <2>1 DEF Start, Pending, Undelivered, BeingWorked, Ids
  <2>2. CASE InitConsumer(c)
    <3>1. Kept
      BY <2>2 DEF InitConsumer, XGroupCreate, Pending, Undelivered
    <3>2. BeingWorked' = BeingWorked
      BY <1>2, <2>2 DEF InitConsumer, Inductive, NewNameOwnsNothing, PCs
    <3>3. QED
      BY <1>1, <3>1, <3>2
  <2>3. CASE DrainDone(c) \/ DrainTimeout(c)
    <3>1. Kept
      BY <2>3 DEF DrainDone, DrainTimeout, Die, Pending, Undelivered
    <3>2. Die(c, "ok") \/ Die(c, "error")
      BY <2>3 DEF DrainDone, DrainTimeout
    <3>3. QED
      BY <1>3, <3>1, <3>2 DEF Statuses
  <2>4. QED
    BY <1>5, <2>1, <2>2, <2>3 DEF MainStep
<1>6. ASSUME NEW c \in Consumers, LoopStep(c) PROVE Queue!Next \/ Stuttering
  <2>1. CASE ReadNew(c)
    <3>1. NextNew \in Ids
      BY <2>1, NextNewIsFresh DEF ReadNew, XReadGroupNew, Inductive, TypeOK, RedisTypeOK, Ids
    <3>2. /\ pc' = [pc EXCEPT ![c] = "work"] /\ held' = [held EXCEPT ![c] = NextNew]
          /\ pc[c] # "work"
      BY <2>1 DEF ReadNew, StartWork, GoTo
    <3>3. BeingWorked' = BeingWorked \cup {NextNew}
      BY <3>1, <3>2 DEF BeingWorked, Inductive, TypeOK, Ids
    <3>4. QED
      BY <2>1, <3>3, TakeImplements DEF ReadNew, StartWork, Queue!Next
  <2>2. CASE WorkDone(c)
    BY <2>2, FinishImplements DEF Queue!Next
  <2>3. CASE Ack(c)
    <3>1. held[c] \in Ids /\ held[c] \in worked
      BY <2>3 DEF Ack, Inductive, TypeOK, HandsAgree, Ids
    <3>2. BeingWorked' = BeingWorked
      BY <1>2, <2>3 DEF Ack, LetGo, PCs
    <3>3. QED
      BY <2>3, <3>1, <3>2, SettleImplements DEF Ack, Queue!Next, Stuttering
  <2>4. CASE Claim(c)
    <3>1. /\ UNCHANGED <<firstId, lastId, delivered, acked, worked>>
          /\ \A i \in Ids : owner[i] = NoOne => owner'[i] = NoOne
      BY <2>4 DEF Claim, XClaim
    <3>2. Pending' \subseteq Pending /\ Undelivered' = Undelivered
      BY <3>1 DEF Pending, Undelivered
    <3>3. BeingWorked' = BeingWorked
      BY <1>2, <2>4 DEF Claim, PCs
    <3>4. QED
      BY <3>1, <3>2, <3>3, VanishImplements DEF Queue!Next
  <2>5. CASE LoopConsume(c)
    <3>1. Pending' = Pending
      BY <2>5 DEF LoopConsume, XRename, Pending
    <3>2. BeingWorked' = BeingWorked
      BY <1>2, <2>5 DEF LoopConsume, PCs
    <3>3. QED
      BY <1>1, <2>5, <3>1, <3>2 DEF LoopConsume, XRename, Undelivered
  <2>6. CASE ReadBacklog(c)
    <3>1. Owned(c) = {}
      BY <2>6 DEF ReadBacklog, Inductive, NewNameOwnsNothing
    <3>2. BeingWorked' = BeingWorked
      BY <1>2, <2>6, <3>1 DEF ReadBacklog, PCs
    <3>3. QED
      BY <1>1, <2>6, <3>1, <3>2 DEF ReadBacklog, Pending, Undelivered
  <2>7. CASE WorkFails(c)
    <3>1. Kept
      BY <2>7 DEF WorkFails, LetGo, Pending, Undelivered
    <3>2. QED
      BY <2>7, <3>1, AbandonImplements DEF WorkFails, LetGo, GoTo, PCs, Queue!Next, Stuttering
  <2>8. CASE \/ LoopExit(c) \/ XPending(c) \/ SelectDone(c) \/ SelectTick(c)
             \/ SelectDefault(c) \/ Scan(c)
    <3>1. Kept
      BY <2>8 DEF LoopExit, XPending, SelectDone, SelectTick, SelectDefault, Scan,
                  Pending, Undelivered
    <3>2. BeingWorked' = BeingWorked
      BY <1>2, <2>8 DEF LoopExit, XPending, SelectDone, SelectTick, SelectDefault, Scan, PCs
    <3>3. QED
      BY <1>1, <3>1, <3>2
  <2>9. QED
    BY <1>6, <2>1, <2>2, <2>3, <2>4, <2>5, <2>6, <2>7, <2>8 DEF LoopStep
<1>7. ASSUME NEW c \in Consumers, ErrorStep(c) PROVE Queue!Next \/ Stuttering
  <2>1. CASE ReadReplyLost(c)
    <3>1. BeingWorked' = BeingWorked
      BY <1>2, <2>1 DEF ReadReplyLost, PCs
    <3>2. QED
      BY <2>1, <3>1, TakeImplements DEF ReadReplyLost, Queue!Next
  <2>2. CASE AckFails(c)
    <3>1. held[c] \in Ids /\ held[c] \in worked
      BY <2>2 DEF AckFails, Inductive, TypeOK, HandsAgree, Ids
    <3>2. BeingWorked' = BeingWorked
      BY <1>2, <2>2 DEF AckFails, LetGo, PCs
    <3>3. CASE XAck(held[c])
      BY <2>2, <3>1, <3>2, <3>3, SettleImplements DEF AckFails, Queue!Next, Stuttering
    <3>4. CASE ~XAck(held[c])
      BY <1>1, <2>2, <3>2, <3>4 DEF AckFails, Pending, Undelivered
    <3>5. QED
      BY <3>3, <3>4
  <2>3. CASE InitFails(c) \/ Kill(c) \/ XPendingPanics(c)
    <3>1. Kept
      BY <2>3 DEF InitFails, XGroupCreate, Kill, XPendingPanics, Die, Pending, Undelivered
    <3>2. Die(c, "error") \/ Die(c, "killed") \/ Die(c, "panic")
      BY <2>3 DEF InitFails, Kill, XPendingPanics
    <3>3. QED
      BY <1>3, <3>1, <3>2 DEF Statuses
  <2>4. CASE Terminate(c)
    BY <1>1, <2>4 DEF Terminate, Pending, Undelivered, BeingWorked, Ids
  <2>5. CASE ReadFails(c) \/ SweepFails(c)
    <3>1. Kept
      BY <2>5 DEF ReadFails, SweepFails, Pending, Undelivered
    <3>2. BeingWorked' = BeingWorked
      BY <1>2, <2>5 DEF ReadFails, SweepFails, PCs
    <3>3. QED
      BY <1>1, <3>1, <3>2
  <2>6. QED
    BY <1>7, <2>1, <2>2, <2>3, <2>4, <2>5 DEF ErrorStep
<1>8. ASSUME NEW c \in Consumers, Tick(c) PROVE Same
  BY <1>8 DEF Tick, Pending, Undelivered, BeingWorked, Ids
<1>9. CASE UNCHANGED vars
  <2>1. Same
    BY <1>9 DEF vars, Pending, Undelivered, BeingWorked, Ids
  <2>2. QED
    BY <1>1, <2>1 DEF Stuttering
<1> HIDE DEF Same
<1>10. ASSUME NEW c \in Consumers, MainStep(c) \/ LoopStep(c) \/ ErrorStep(c) \/ Tick(c)
       PROVE  Queue!Next \/ Stuttering
  BY <1>1, <1>5, <1>6, <1>7, <1>8, <1>10
<1>11. QED
  BY <1>4, <1>9, <1>10 DEF Next, Stuttering

\* The stream and its replicas implement the queue of module WorkQueue: a
\* message is taken in order, worked on at most once and settled only after the
\* work is done, whatever crashes, claims and lost replies there are.
THEOREM QueueImplemented == Spec => ImplementsQueue
<1>1. Inductive /\ Inductive' /\ [Next]_vars => [Queue!Next]_(Queue!vars)
  BY StepImplements DEF Queue!vars
<1>2. QED
  BY <1>1, InitImplements, InductiveHolds, PTL DEF Spec, ImplementsQueue, Queue!Spec
=============================================================================
