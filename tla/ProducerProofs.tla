---------------------------- MODULE ProducerProofs ----------------------------
(***************************************************************************)
(* Proofs about module Producer, for every number of requests, messages,   *)
(* failures and consumers, and every MAXLEN.                               *)
(***************************************************************************)
EXTENDS Producer, FiniteSetTheorems, TLAPS

USE OwnersAssumption, BoundsAssumption, ProducerAssumption
    DEF OwnersAssumption, BoundsAssumption, ProducerAssumption, streamVars

-----------------------------------------------------------------------------
(* Cardinalities of sets of ids.                                           *)

LEMMA IdsAreFinite ==
  ASSUME NEW S \in SUBSET Ids
  PROVE  IsFiniteSet(S) /\ Cardinality(S) \in 0..MaxId
<1>1. IsFiniteSet(Ids) /\ Cardinality(Ids) = MaxId
  BY FS_Interval DEF Ids
<1>2. IsFiniteSet(S) /\ Cardinality(S) =< Cardinality(Ids)
  BY <1>1, FS_Subset
<1>3. Cardinality(S) \in Nat
  BY <1>2, FS_CardinalityType
<1>4. QED
  BY <1>1, <1>2, <1>3

LEMMA SmallerSubset ==
  ASSUME NEW S \in SUBSET Ids, NEW T \in SUBSET S
  PROVE  Cardinality(T) =< Cardinality(S)
  BY IdsAreFinite, FS_Subset

\* A union is no larger than its parts together ...
LEMMA UnionIsBounded ==
  ASSUME NEW S \in SUBSET Ids, NEW T \in SUBSET Ids
  PROVE  Cardinality(S \cup T) =< Cardinality(S) + Cardinality(T)
<1>1. Cardinality(S \cup T) = Cardinality(S) + Cardinality(T) - Cardinality(S \cap T)
  BY IdsAreFinite, FS_Union
<1>2. /\ Cardinality(S \cap T) \in Nat /\ Cardinality(S) \in Nat
      /\ Cardinality(T) \in Nat
  <2>1. S \cap T \in SUBSET Ids
    OBVIOUS
  <2>2. QED
    BY <2>1, IdsAreFinite
<1>3. QED
  BY <1>1, <1>2

\* ... and just as large when they are disjoint.
LEMMA DisjointUnion ==
  ASSUME NEW S \in SUBSET Ids, NEW T \in SUBSET Ids, S \cap T = {}
  PROVE  Cardinality(S \cup T) = Cardinality(S) + Cardinality(T)
<1>1. Cardinality(S \cup T) = Cardinality(S) + Cardinality(T) - Cardinality(S \cap T)
  BY IdsAreFinite, FS_Union
<1>2. Cardinality(S \cap T) = 0 /\ Cardinality(S) \in Nat /\ Cardinality(T) \in Nat
  BY IdsAreFinite, FS_EmptySet
<1>3. QED
  BY <1>1, <1>2

-----------------------------------------------------------------------------
(* The stream.                                                             *)

\* What holds of the stream between two commands ...
StreamIsSound == RedisTypeOK /\ HandedOutIsBehind /\ Pending \subseteq seen

\* ... and what one command, or time, may do to it: ids grow and are trimmed,
\* what was handed out stays handed out, only a new id becomes undelivered and
\* only one that was never handed out becomes pending.
StreamMovesOn ==
  /\ lastId =< lastId' /\ firstId =< firstId'
  /\ seen \subseteq seen'
  /\ Undelivered' \subseteq Undelivered \cup (lastId + 1)..lastId'
  /\ \A i \in Pending' : i \in Pending \/ i \notin seen

StreamStep ==
  /\ UNCHANGED faults \/ Fault
  /\ \/ UNCHANGED streamVars
     \/ XAdd(DefaultMaxStreamLength)
     \/ XGroupCreate
     \/ \E c \in Consumers : XReadGroupNew(c) \/ XRename(c)
     \/ \E c \in Consumers, ids \in SUBSET Pending : XClaim(c, ids)
     \/ \E i \in Pending : XAck(i)
     \/ \E i \in Ids : Age(i)
     \/ LoseData

LEMMA FaultsAreBounded ==
  ASSUME RedisTypeOK, StreamStep PROVE faults' \in 0..MaxFaults
  BY DEF StreamStep, RedisTypeOK, Fault

LEMMA StreamStepIsSound ==
  ASSUME StreamIsSound, StreamStep
  PROVE  StreamIsSound' /\ StreamMovesOn
<1> USE DEF StreamIsSound, HandedOutIsBehind, StreamMovesOn, Undelivered, Ids
<1>0. faults' \in 0..MaxFaults
  BY FaultsAreBounded
<1> USE <1>0 DEF RedisTypeOK
<1>1. CASE UNCHANGED streamVars
  BY <1>1 DEF Pending
<1>2. CASE XAdd(DefaultMaxStreamLength)
  <2>1. Pending' = Pending
    BY <1>2 DEF XAdd, Pending
  <2>2. /\ lastId' \in 0..MaxId /\ lastId' = lastId + 1
        /\ firstId' \in 1..(MaxId + 1) /\ firstId =< firstId' /\ firstId' =< lastId' + 1
    BY <1>2 DEF XAdd
  <2>3. RedisTypeOK' /\ HandedOutIsBehind'
    BY <1>2, <2>2 DEF XAdd
  <2>4. Undelivered' \subseteq Undelivered \cup (lastId + 1)..lastId'
    BY <1>2, <2>2 DEF XAdd
  <2>5. QED
    BY <1>2, <2>1, <2>2, <2>3, <2>4 DEF XAdd
<1>3. CASE XGroupCreate
  BY <1>3 DEF XGroupCreate, Pending
<1>4. ASSUME NEW c \in Consumers, XReadGroupNew(c)
      PROVE  StreamIsSound' /\ StreamMovesOn
  <2>1. /\ NextNew \in Ids /\ NextNew =< lastId /\ NextNew \notin seen
        /\ delivered < NextNew
    BY <1>4 DEF XReadGroupNew, NextNew
  <2>2. /\ owner' \in [Ids -> Consumers \cup {Orphan, NoOne}]
        /\ Pending' \subseteq Pending \cup {NextNew}
    BY <1>4, <2>1 DEF XReadGroupNew, Pending
  <2>3. RedisTypeOK'
    BY <1>4, <2>1, <2>2 DEF XReadGroupNew
  <2>4. HandedOutIsBehind' /\ Pending' \subseteq seen'
    BY <1>4, <2>1, <2>2 DEF XReadGroupNew
  <2>5. QED
    BY <1>4, <2>1, <2>2, <2>3, <2>4 DEF XReadGroupNew
<1>5. ASSUME NEW c \in Consumers, XRename(c)
      PROVE  StreamIsSound' /\ StreamMovesOn
  <2>1. owner' \in [Ids -> Consumers \cup {Orphan, NoOne}] /\ Pending' = Pending
    BY <1>5 DEF XRename, Pending
  <2>2. RedisTypeOK' /\ HandedOutIsBehind'
    BY <1>5, <2>1 DEF XRename
  <2>3. QED
    BY <1>5, <2>1, <2>2 DEF XRename
<1>6. ASSUME NEW c \in Consumers, NEW ids \in SUBSET Pending, XClaim(c, ids)
      PROVE  StreamIsSound' /\ StreamMovesOn
  <2>1. /\ owner' \in [Ids -> Consumers \cup {Orphan, NoOne}]
        /\ Pending' \subseteq Pending
    BY <1>6 DEF XClaim, Pending
  <2>2. idle' \subseteq Ids /\ dropped' \subseteq Ids
    BY <1>6 DEF XClaim
  <2>3. QED
    BY <1>6, <2>1, <2>2 DEF XClaim
<1>7. ASSUME NEW i \in Pending, XAck(i)
      PROVE  StreamIsSound' /\ StreamMovesOn
  <2>1. /\ owner' \in [Ids -> Consumers \cup {Orphan, NoOne}]
        /\ Pending' \subseteq Pending
        /\ i \in Ids
    BY <1>7 DEF XAck, Pending
  <2>2. QED
    BY <1>7, <2>1 DEF XAck
<1>8. ASSUME NEW i \in Ids, Age(i)
      PROVE  StreamIsSound' /\ StreamMovesOn
  BY <1>8 DEF Age, Pending
<1>9. CASE LoseData
  <2>1. Pending' = {} /\ Pending \subseteq Ids
    BY <1>9 DEF LoseData, Pending
  <2>2. RedisTypeOK' /\ HandedOutIsBehind'
    <3>1. owner' \in [Ids -> Consumers \cup {Orphan, NoOne}]
      BY <1>9 DEF LoseData
    <3>2. /\ group' \in BOOLEAN /\ delivered' \in 0..MaxId /\ lastId' \in 0..MaxId
          /\ firstId' \in 1..(MaxId + 1)
      <4>1. group' \in BOOLEAN
        BY <1>9, Zenon DEF LoseData
      <4>2. delivered' = 0 /\ lastId' = lastId /\ firstId' = lastId + 1
        BY <1>9 DEF LoseData
      <4>3. QED
        BY <4>1, <4>2
    <3>3. idle' \subseteq Ids /\ seen' \subseteq Ids /\ acked' \subseteq Ids /\ dropped' \subseteq Ids
      BY <1>9, <2>1 DEF LoseData
    <3>4. HandedOutIsBehind'
      BY <1>9 DEF LoseData
    <3>5. QED
      BY <3>1, <3>2, <3>3, <3>4
  <2>3. Undelivered' = {}
    BY <1>9 DEF LoseData
  <2>4. QED
    BY <1>9, <2>1, <2>2, <2>3 DEF LoseData
<1>10. QED
  BY <1>1, <1>2, <1>3, <1>4, <1>5, <1>6, <1>7, <1>8, <1>9 DEF StreamStep

-----------------------------------------------------------------------------
(* The initial states.                                                     *)

LEMMA InitInductive == Init => Inductive
<1> SUFFICES ASSUME Init PROVE Inductive
  OBVIOUS
<1> USE DEF Init, RedisInit
<1>1. RedisTypeOK
  <2>1. group \in BOOLEAN
    OBVIOUS
  <2>2. /\ firstId \in 1..(MaxId + 1) /\ lastId \in 0..MaxId
        /\ delivered \in 0..MaxId /\ faults \in 0..MaxFaults
    OBVIOUS
  <2>3. owner \in [Ids -> Consumers \cup {Orphan, NoOne}]
    OBVIOUS
  <2>4. QED
    BY <2>1, <2>2, <2>3 DEF RedisTypeOK
<1>2. NoSnapshot \in Snapshot
  BY DEF NoSnapshot, Snapshot, Ids
<1>3. TypeOK
  BY <1>1, <1>2 DEF TypeOK, Places, Errors
<1>4. HandedOutIsBehind /\ Pending \subseteq seen
  BY DEF HandedOutIsBehind, Pending, Ids
<1>5. \A r \in Requests : LoopKeepsCount(r) /\ SnapshotStaysValid(r) /\ HalfOfSum(r)
  BY DEF LoopKeepsCount, SnapshotStaysValid, HalfOfSum
<1>6. QED
  BY <1>3, <1>4, <1>5 DEF Inductive

-----------------------------------------------------------------------------
(* What a request knows survives whatever happens to the stream meanwhile. *)

LEMMA FreshIsIds ==
  ASSUME Inductive, NEW r \in Requests,
         at[r] \in {"xlen", "xrange", "xpending"}
  PROVE  Fresh(r) \in SUBSET Ids /\ snap[r] \in Snapshot
  BY DEF Inductive, TypeOK, RedisTypeOK, Snapshot, Fresh, Ids

LEMMA RequestWaits ==
  ASSUME Inductive, StreamIsSound', StreamMovesOn,
         NEW r \in Requests,
         UNCHANGED <<at[r], left[r], lastID[r], undelivered[r], err[r], asked[r],
                     added[r], snap[r]>>,
         mishaps' \in Nat, mishaps =< mishaps'
  PROVE  LoopKeepsCount(r)' /\ SnapshotStaysValid(r)' /\ HalfOfSum(r)'
<1> USE DEF Inductive, StreamMovesOn
<1>0. /\ lastId \in Nat /\ lastId' \in Nat /\ lastId' \in 0..MaxId /\ mishaps \in Nat
      /\ firstId \in Nat /\ firstId' \in Nat
      /\ left[r] \in Nat /\ asked[r] \in Nat /\ added[r] \in Nat
  BY DEF TypeOK, RedisTypeOK, StreamIsSound
<1>1. LoopKeepsCount(r)'
  BY <1>0 DEF LoopKeepsCount
<1>2. ASSUME at[r] \in {"xlen", "xrange", "xpending"}
      PROVE  /\ Fresh(r) \subseteq Fresh(r)' /\ Fresh(r)' \in SUBSET Ids
             /\ snap[r].out \cap Undelivered' \subseteq snap[r].out \cap Undelivered
             /\ SnapshotStaysValid(r)'
  <2>1. snap[r] \in Snapshot
    BY <1>2, FreshIsIds
  <2>2. SnapshotStaysValid(r)'
    BY <1>0, <1>2, <2>1 DEF SnapshotStaysValid, Snapshot
  <2>3. Fresh(r) \subseteq Fresh(r)' /\ Fresh(r)' \in SUBSET Ids
    BY <1>0, <1>2, <2>1 DEF Fresh, Snapshot, Ids
  <2>4. snap[r].out \cap Undelivered' \subseteq snap[r].out \cap Undelivered
    BY <1>0, <1>2, <2>1 DEF SnapshotStaysValid, Snapshot
  <2>5. QED
    BY <2>2, <2>3, <2>4
<1>3. SnapshotStaysValid(r)'
  BY <1>2 DEF SnapshotStaysValid
<1>4. CASE at[r] \in {"xlen", "xrange"}
  <2>1. \A i \in Behind(lastID[r])' : i \in Behind(lastID[r]) \/ i \in (lastId + 1)..lastId'
    BY <1>0 DEF Behind
  <2>2. (lastId + 1)..lastId' \subseteq Fresh(r)'
    <3>1. snap[r] \in Snapshot
      BY <1>4, FreshIsIds
    <3>2. QED
      BY <1>0, <1>4, <3>1 DEF Fresh, SnapshotStaysValid, Snapshot
  <2>3. Behind(lastID[r])' \subseteq Fresh(r)'
    BY <1>2, <1>4, <2>1, <2>2 DEF HalfOfSum
  <2>4. snap[r].out \cap Undelivered' \subseteq Behind(lastID[r])'
    BY <1>0, <1>2, <1>4 DEF HalfOfSum, Behind, Undelivered
  <2>5. QED
    BY <1>1, <1>3, <1>4, <2>3, <2>4 DEF HalfOfSum
<1>5. CASE at[r] = "xpending"
  <2> DEFINE U == snap[r].out \cap Undelivered
  <2>1. U \in SUBSET Ids /\ U' \in SUBSET U
    <3>1. snap[r] \in Snapshot
      BY <1>5, FreshIsIds
    <3>2. QED
      BY <1>2, <1>5, <3>1 DEF Snapshot
  <2>2. Cardinality(U') =< Cardinality(U) /\ Cardinality(Fresh(r)) =< Cardinality(Fresh(r)')
    BY <1>2, <1>5, <2>1, SmallerSubset
  <2>3. /\ Cardinality(U) \in Nat /\ Cardinality(U') \in Nat /\ undelivered[r] \in Nat
        /\ Cardinality(Fresh(r)) \in Nat /\ Cardinality(Fresh(r)') \in Nat
    <3>1. U' \in SUBSET Ids /\ Fresh(r) \in SUBSET Ids
      BY <1>2, <1>5, <2>1
    <3>2. QED
      BY <1>2, <1>5, <2>1, <3>1, IdsAreFinite DEF TypeOK
  <2>4. Cardinality(U') =< undelivered[r] /\ undelivered[r] =< Cardinality(Fresh(r)')
    BY <1>5, <2>2, <2>3 DEF HalfOfSum
  <2>5. QED
    BY <1>1, <1>3, <1>5, <2>4 DEF HalfOfSum
<1>6. CASE at[r] \notin {"xlen", "xrange", "xpending"}
  BY <1>1, <1>3, <1>6 DEF HalfOfSum
<1>7. QED
  BY <1>4, <1>5, <1>6

-----------------------------------------------------------------------------
(* The steps of a request.                                                 *)

\* Every step moves the stream as a command does, and loses no failure.
LEMMA NextMovesStream ==
  ASSUME Inductive, [Next]_vars
  PROVE  StreamIsSound' /\ StreamMovesOn /\ mishaps' \in 0..MaxMishaps /\ mishaps =< mishaps'
<1> USE DEF redisVars, prodVars, Fault
<1>1. mishaps \in 0..MaxMishaps
  BY DEF Inductive, TypeOK
<1>2. ASSUME NEW r \in Requests, PublishStep(r) \/ CountStep(r)
      PROVE  StreamStep /\ mishaps' \in 0..MaxMishaps /\ mishaps =< mishaps'
  <2>1. CASE Publish(r) \/ PublishRetried(r) \/ PublishFails(r)
    BY <1>1, <2>1 DEF Publish, PublishRetried, PublishFails, Mishap, StreamStep
  <2>2. CASE PublishTime(r) \/ PublishRefused(r) \/ CountStep(r)
    BY <1>1, <2>2 DEF PublishTime, PublishRefused, CountStep, Index, CountNothing,
       XInfoGroups, XLen, XRange, XPending, CountFails, Mishap, StreamStep
  <2>3. QED
    BY <1>2, <2>1, <2>2 DEF PublishStep
<1>3. CASE Elsewhere
  <2>1. StreamStep
    <3>1. \A i \in Ids : Age(i) => UNCHANGED faults
      BY DEF Age
    <3>2. LoseData => Fault
      BY DEF LoseData
    <3>3. QED
      BY <1>3, <3>1, <3>2 DEF Elsewhere, StreamStep
  <2>2. mishaps' = mishaps
    BY <1>3 DEF Elsewhere
  <2>3. QED
    BY <1>1, <2>1, <2>2, StreamStepIsSound DEF Inductive, TypeOK, StreamIsSound
<1>4. CASE UNCHANGED vars
  BY <1>1, <1>4, StreamStepIsSound
     DEF vars, StreamStep, Inductive, TypeOK, StreamIsSound
<1>5. QED
  BY <1>2, <1>3, <1>4, StreamStepIsSound DEF Next, Inductive, TypeOK, StreamIsSound

\* What is to be shown of the request that moves.
StepIsSound(r) == /\ TypeOK'
                  /\ LoopKeepsCount(r)' /\ SnapshotStaysValid(r)' /\ HalfOfSum(r)'

LEMMA CountParamIsPositive == \A n \in Counts : CountParam(n) \in Nat \ {0}
  BY DEF CountParam

LEMMA BeginIsSound ==
  ASSUME Inductive, [Next]_vars, NEW r \in Requests,
         PublishTime(r) \/ Index(r) \/ PublishRefused(r)
  PROVE  StepIsSound(r)
<1> USE DEF Inductive, LoopKeepsCount
<1>1. RedisTypeOK' /\ lastId' = lastId /\ UNCHANGED mishaps
  BY NextMovesStream DEF StreamIsSound, PublishTime, Index, PublishRefused, redisVars
<1>2. TypeOK'
  <2>1. CASE PublishTime(r)
    <3>1. PICK n \in Nat : /\ left' = [left EXCEPT ![r] = n]
                           /\ asked' = [asked EXCEPT ![r] = n]
      BY <2>1, CountParamIsPositive DEF PublishTime
    <3>2. QED
      BY <1>1, <2>1, <3>1 DEF TypeOK, PublishTime, GoTo, Places
  <2>2. CASE Index(r)
    BY <1>1, <2>2 DEF TypeOK, Index, GoTo, Places, history
  <2>3. CASE PublishRefused(r)
    BY <1>1, <2>3 DEF TypeOK, PublishRefused, GoTo, Places, Errors, history
  <2>4. QED
    BY <2>1, <2>2, <2>3
<1>3. at'[r] \in {"xadd", "xinfo"}
  BY DEF TypeOK, PublishTime, Index, PublishRefused, GoTo
<1>4. LoopKeepsCount(r)'
  <2>1. CASE PublishTime(r)
    <3>1. PICK n \in Nat \ {0} : /\ left' = [left EXCEPT ![r] = n]
                                 /\ asked' = [asked EXCEPT ![r] = n]
      BY <2>1, CountParamIsPositive DEF PublishTime
    <3>2. QED
      BY <1>1, <2>1, <3>1 DEF TypeOK, PublishTime, GoTo
  <2>2. CASE Index(r)
    BY <1>1, <2>2 DEF TypeOK, Index, GoTo, history
  <2>3. CASE PublishRefused(r)
    BY <1>1, <2>3 DEF TypeOK, PublishRefused, GoTo, history
  <2>4. QED
    BY <2>1, <2>2, <2>3
<1>5. QED
  BY <1>2, <1>3, <1>4 DEF StepIsSound, SnapshotStaysValid, HalfOfSum

LEMMA PublishIsSound ==
  ASSUME Inductive, [Next]_vars, NEW r \in Requests,
         Publish(r) \/ PublishRetried(r) \/ PublishFails(r)
  PROVE  StepIsSound(r)
<1> USE DEF Inductive, LoopKeepsCount
<1>1. /\ RedisTypeOK' /\ lastId \in Nat /\ lastId' \in 0..MaxId /\ lastId =< lastId'
      /\ mishaps' \in 0..MaxMishaps
  BY NextMovesStream DEF StreamIsSound, StreamMovesOn, RedisTypeOK, TypeOK
<1>2. /\ at[r] = "xadd" /\ left[r] \in Nat \ {0} /\ added[r] \in 0..MaxId
      /\ asked[r] \in Nat /\ mishaps \in Nat
  BY DEF TypeOK, Publish, PublishRetried, PublishFails
<1>3. \/ added' = [added EXCEPT ![r] = added[r] + 1] /\ lastId' = lastId + 1
      \/ UNCHANGED <<added, lastId>>
  BY DEF Publish, PublishRetried, PublishFails, XAdd, streamVars
<1>4. added' \in [Requests -> 0..MaxId] /\ added'[r] =< lastId'
  <2>1. added \in [Requests -> 0..MaxId] /\ added[r] =< lastId
    BY DEF TypeOK
  <2>2. CASE UNCHANGED <<added, lastId>>
    BY <2>1, <2>2
  <2>3. CASE added' = [added EXCEPT ![r] = added[r] + 1] /\ lastId' = lastId + 1
    <3>1. added[r] + 1 \in 0..MaxId /\ added[r] + 1 =< lastId'
      BY <1>1, <1>2, <2>1, <2>3
    <3>2. QED
      BY <2>1, <2>3, <3>1
  <2>4. QED
    BY <1>3, <2>2, <2>3
<1>5. TypeOK'
  BY <1>1, <1>2, <1>4 DEF TypeOK, Publish, PublishRetried, PublishFails, GoTo, Places, Errors,
     locals
<1>6. at'[r] \in {"xadd", "xinfo"}
  BY <1>2 DEF TypeOK, Publish, PublishRetried, PublishFails, GoTo, locals
<1>7. LoopKeepsCount(r)'
  BY <1>2, <1>4 DEF TypeOK, Publish, PublishRetried, PublishFails, Mishap, GoTo, locals
<1>8. QED
  BY <1>5, <1>6, <1>7 DEF StepIsSound, SnapshotStaysValid, HalfOfSum

\* XINFO GROUPS takes the picture that the rest of the count is compared with.
LEMMA XInfoIsSound ==
  ASSUME Inductive, [Next]_vars, NEW r \in Requests, XInfoGroups(r)
  PROVE  StepIsSound(r)
<1> USE DEF Inductive
<1> DEFINE s == [out |-> Outstanding, last |-> lastId, seen |-> seen]
<1>1. UNCHANGED redisVars /\ UNCHANGED streamVars
  BY DEF XInfoGroups, redisVars
<1>2. /\ lastId \in 0..MaxId /\ firstId \in 1..(MaxId + 1) /\ delivered \in 0..MaxId
      /\ seen \subseteq 1..lastId
  BY DEF TypeOK, RedisTypeOK, HandedOutIsBehind, Ids
<1>3. Outstanding \subseteq 1..lastId /\ Undelivered \cap seen = {}
  <2>1. Undelivered \subseteq 1..lastId
    BY <1>2 DEF Undelivered
  <2>2. Undelivered \cap seen = {}
    BY <1>2 DEF Undelivered, HandedOutIsBehind
  <2>3. QED
    BY <1>2, <2>1, <2>2 DEF Outstanding
<1>4. s \in Snapshot
  BY <1>2, <1>3 DEF Snapshot, Ids
<1>5. RedisTypeOK'
  BY NextMovesStream DEF StreamIsSound
<1>6. TypeOK'
  BY <1>2, <1>4, <1>5 DEF TypeOK, XInfoGroups, GoTo, Places
<1>7. /\ at'[r] = IF delivered = 0 THEN "xlen" ELSE "xrange"
      /\ lastID'[r] = delivered /\ snap'[r] = s
  BY DEF TypeOK, XInfoGroups, GoTo
<1>8. LoopKeepsCount(r)'
  BY <1>1, <1>7 DEF LoopKeepsCount, TypeOK, XInfoGroups, GoTo
<1>9. SnapshotStaysValid(r)'
  <2>1. s.out = Outstanding /\ s.last = lastId /\ s.seen = seen
    OBVIOUS
  <2>2. /\ Pending' = Pending /\ Undelivered' = Undelivered
        /\ Pending \cup Undelivered \subseteq Outstanding
    BY <1>1 DEF Pending, Undelivered, Outstanding
  <2>3. QED
    BY <1>1, <1>2, <1>3, <1>7, <2>1, <2>2 DEF SnapshotStaysValid
<1>10. HalfOfSum(r)'
  <2>1. Behind(delivered)' = Undelivered /\ Undelivered' = Undelivered
    BY <1>1 DEF Behind, Undelivered
  <2>2. Fresh(r)' = Outstanding \ seen
    BY <1>1, <1>2, <1>7 DEF Fresh
  <2>3. Undelivered \subseteq Outstanding \ seen
    BY <1>3 DEF Outstanding
  <2>4. Behind(lastID[r])' = Undelivered
    BY <1>1, <1>7, <2>1 DEF Behind
  <2>5. QED
    BY <1>7, <2>1, <2>2, <2>3, <2>4 DEF HalfOfSum
<1>11. QED
  BY <1>6, <1>8, <1>9, <1>10 DEF StepIsSound

\* XLEN or XRANGE: the first half of the sum becomes a number.
LEMMA HalfIsSound ==
  ASSUME Inductive, [Next]_vars, NEW r \in Requests, XLen(r) \/ XRange(r)
  PROVE  StepIsSound(r)
<1> USE DEF Inductive
<1> DEFINE B == Behind(lastID[r])
           U == snap[r].out \cap Undelivered
<1>1. UNCHANGED redisVars /\ UNCHANGED streamVars
  BY DEF XLen, XRange, redisVars
<1>2. /\ at[r] \in {"xlen", "xrange"} /\ at' = [at EXCEPT ![r] = "xpending"]
      /\ undelivered' = [undelivered EXCEPT ![r] = Cardinality(B)]
      /\ UNCHANGED <<rdb, mishaps, left, lastID, count, err, asked, added, snap>>
  <2>1. CASE XLen(r)
    <3>0. lastID[r] = 0 /\ firstId \in 1..(MaxId + 1)
      BY <2>1 DEF XLen, HalfOfSum, TypeOK, RedisTypeOK
    <3>1. firstId..lastId = B
      BY <3>0 DEF Behind
    <3>2. QED
      BY <2>1, <3>1 DEF XLen, GoTo, history
  <2>2. CASE XRange(r)
    BY <2>2 DEF XRange, GoTo, history
  <2>3. QED
    BY <2>1, <2>2
<1>3. /\ B \in SUBSET Ids /\ Fresh(r) \in SUBSET Ids
      /\ B \in SUBSET Fresh(r) /\ U \in SUBSET B
  <2>1. Fresh(r) \in SUBSET Ids
    BY <1>2, FreshIsIds
  <2>2. QED
    BY <1>2, <2>1 DEF HalfOfSum
<1>4. Cardinality(U) =< Cardinality(B) /\ Cardinality(B) =< Cardinality(Fresh(r))
  BY <1>3, SmallerSubset
<1>5. Cardinality(B) \in 0..MaxId
  BY <1>3, IdsAreFinite
<1>6. RedisTypeOK'
  BY NextMovesStream DEF StreamIsSound
<1>7. TypeOK'
  BY <1>2, <1>5, <1>6 DEF TypeOK, Places
<1>8. at'[r] = "xpending" /\ undelivered'[r] = Cardinality(B)
  BY <1>2 DEF TypeOK
<1>9. LoopKeepsCount(r)'
  BY <1>1, <1>2, <1>8 DEF LoopKeepsCount
<1>10. SnapshotStaysValid(r)'
  BY <1>1, <1>2 DEF SnapshotStaysValid, Pending, Undelivered
<1>11. HalfOfSum(r)'
  <2>1. U' = U /\ Fresh(r)' = Fresh(r)
    BY <1>1, <1>2 DEF Undelivered, Fresh
  <2>2. QED
    BY <1>4, <1>8, <2>1 DEF HalfOfSum
<1>12. QED
  BY <1>7, <1>9, <1>10, <1>11 DEF StepIsSound

\* The page is shown, with the count or without.
LEMMA ShowIsSound ==
  ASSUME Inductive, [Next]_vars, NEW r \in Requests,
         CountNothing(r) \/ XPending(r) \/ CountFails(r)
  PROVE  StepIsSound(r)
<1> USE DEF Inductive
<1>1. PICK n \in 0..(2 * MaxId) : Show(r, n)
  <2>1. Cardinality(Pending) \in 0..MaxId
    BY IdsAreFinite DEF Pending
  <2>2. undelivered[r] \in 0..MaxId
    BY DEF TypeOK
  <2>3. Cardinality(Pending) + undelivered[r] \in 0..(2 * MaxId) /\ 0 \in 0..(2 * MaxId)
    BY <2>1, <2>2
  <2>4. QED
    BY <2>3 DEF CountNothing, XPending, CountFails
<1>2. /\ RedisTypeOK' /\ lastId' = lastId
      /\ mishaps' \in 0..MaxMishaps /\ mishaps \in 0..MaxMishaps /\ mishaps =< mishaps'
  BY NextMovesStream DEF StreamIsSound, TypeOK, CountNothing, XPending, CountFails, redisVars
<1>3. NoSnapshot \in Snapshot
  BY DEF NoSnapshot, Snapshot, Ids
<1>4. TypeOK'
  BY <1>1, <1>2, <1>3 DEF TypeOK, Show, GoTo, Places
<1>5. at'[r] = "done" /\ at[r] \notin {"new", "xadd"}
  BY <1>1 DEF TypeOK, Show, GoTo, CountNothing, XPending, CountFails
<1>6. LoopKeepsCount(r)'
  BY <1>1, <1>2, <1>5 DEF LoopKeepsCount, TypeOK, Show
<1>7. QED
  BY <1>4, <1>5, <1>6 DEF StepIsSound, SnapshotStaysValid, HalfOfSum

-----------------------------------------------------------------------------
(* The inductive invariant.                                                *)

LEMMA RequestStepIsSound ==
  ASSUME Inductive, [Next]_vars, NEW r \in Requests, PublishStep(r) \/ CountStep(r)
  PROVE  StepIsSound(r)
  BY BeginIsSound, PublishIsSound, XInfoIsSound, HalfIsSound, ShowIsSound
     DEF PublishStep, CountStep

\* A step of one request leaves the others where they are.
LEMMA OthersWait ==
  ASSUME Inductive, NEW r \in Requests, PublishStep(r) \/ CountStep(r),
         NEW q \in Requests \ {r}
  PROVE  UNCHANGED <<at[q], left[q], lastID[q], undelivered[q], err[q], asked[q],
                     added[q], snap[q]>>
<1> USE DEF Inductive, TypeOK, GoTo, locals, history
<1>1. CASE PublishTime(r) \/ Index(r) \/ PublishRefused(r)
  BY <1>1 DEF PublishTime, Index, PublishRefused
<1>2. CASE Publish(r) \/ PublishRetried(r) \/ PublishFails(r)
  BY <1>2 DEF Publish, PublishRetried, PublishFails
<1>3. CASE XInfoGroups(r) \/ XLen(r) \/ XRange(r)
  BY <1>3 DEF XInfoGroups, XLen, XRange
<1>4. CASE CountNothing(r) \/ XPending(r) \/ CountFails(r)
  BY <1>4 DEF CountNothing, XPending, CountFails, Show
<1>5. QED
  BY <1>1, <1>2, <1>3, <1>4 DEF PublishStep, CountStep

LEMMA NextInductive == Inductive /\ [Next]_vars => Inductive'
<1> SUFFICES ASSUME Inductive, [Next]_vars PROVE Inductive'
  OBVIOUS
<1>1. /\ StreamIsSound' /\ StreamMovesOn
      /\ mishaps' \in 0..MaxMishaps /\ mishaps' \in Nat /\ mishaps =< mishaps'
  BY NextMovesStream
<1>2. ASSUME NEW r \in Requests, PublishStep(r) \/ CountStep(r)
      PROVE  Inductive'
  <2>1. StepIsSound(r)
    BY <1>2, RequestStepIsSound
  <2>2. ASSUME NEW q \in Requests \ {r}
        PROVE  LoopKeepsCount(q)' /\ SnapshotStaysValid(q)' /\ HalfOfSum(q)'
    BY <1>1, <1>2, <2>2, OthersWait, RequestWaits
  <2>3. QED
    BY <1>1, <2>1, <2>2 DEF Inductive, StepIsSound, StreamIsSound
<1>3. CASE Elsewhere \/ UNCHANGED vars
  <2>1. UNCHANGED prodVars
    BY <1>3 DEF Elsewhere, vars
  <2>2. TypeOK'
    BY <1>1, <2>1 DEF Inductive, TypeOK, StreamIsSound, prodVars, locals, history
  <2>3. \A r \in Requests : LoopKeepsCount(r)' /\ SnapshotStaysValid(r)' /\ HalfOfSum(r)'
    BY <1>1, <2>1, RequestWaits DEF prodVars, locals, history
  <2>4. QED
    BY <1>1, <2>2, <2>3 DEF Inductive, StreamIsSound
<1>4. QED
  BY <1>2, <1>3 DEF Next

\* The invariant the properties of the requests rest on: the account of the loop
\* of PublishTime, and what a count knows between its commands.
THEOREM InductiveHolds == Spec => []Inductive
  BY InitInductive, NextInductive, PTL DEF Spec

\* Every variable of the web side stays in its type: the page's number is at
\* most twice the number of ids.
THEOREM TypeCorrect == Spec => []TypeOK
<1>1. Inductive => TypeOK
  BY DEF Inductive
<1>2. QED
  BY <1>1, InductiveHolds, PTL

\* A page of PublishTime without an error stands for all its messages, whatever
\* fails and is sent again.
THEOREM PublishedAsAskedHolds == Spec => []PublishedAsAsked
<1>1. Inductive => PublishedAsAsked
  BY DEF Inductive, TypeOK, LoopKeepsCount, PublishedAsAsked
<1>2. QED
  BY <1>1, InductiveHolds, PTL

-----------------------------------------------------------------------------
(* The two bounds of the number that GetPendingMessagesCount returns.      *)

\* Only XPENDING completes a count without an error.
LEMMA CountedIsXPending ==
  ASSUME Inductive, [Next]_vars, NEW r \in Requests, Counted(r)
  PROVE  count'[r] = Cardinality(Pending) + undelivered[r]
<1> USE DEF Counted
<1>1. PICK q \in Requests : PublishStep(q) \/ CountStep(q)
  BY DEF Next, Elsewhere, vars, prodVars, locals
<1>2. q = r
  BY <1>1, OthersWait
<1>3. XPending(r)
  <2>1. at[r] = "xpending"
    OBVIOUS
  <2>2. ~PublishStep(r)
    BY <2>1 DEF PublishStep, PublishTime, Publish, PublishRefused, PublishRetried, PublishFails
  <2>3. ~CountFails(r)
    BY DEF CountFails, Mishap, Inductive, TypeOK
  <2>4. QED
    BY <1>1, <1>2, <2>1, <2>2, <2>3
       DEF CountStep, Index, CountNothing, XInfoGroups, XLen, XRange
<1>4. QED
  BY <1>3 DEF XPending, Show, Inductive, TypeOK

\* What the two halves of the sum count, as sets.
LEMMA HalvesAreSets ==
  ASSUME Inductive, NEW r \in Requests, at[r] = "xpending"
  PROVE  /\ snap[r].out \in SUBSET Ids /\ snap[r].seen \in SUBSET Ids
         /\ Pending \in SUBSET Ids /\ seen \in SUBSET Ids /\ Fresh(r) \in SUBSET Ids
         /\ snap[r].out \cup (snap[r].last + 1)..lastId \in SUBSET Ids
<1>1. /\ snap[r] \in Snapshot /\ seen \in SUBSET Ids /\ lastId \in 0..MaxId
      /\ Fresh(r) \in SUBSET Ids
  BY FreshIsIds DEF Inductive, TypeOK, RedisTypeOK
<1>2. QED
  BY <1>1 DEF Snapshot, Pending, Ids

\* A sum of 0 leaves nothing behind of what was published when the count began.
LEMMA ZeroLeavesNothing ==
  ASSUME Inductive, [Next]_vars, NEW r \in Requests, Counted(r), count'[r] = 0
  PROVE  /\ Pending = {} /\ Undelivered \cap 1..snap[r].last = {}
         /\ snap[r].last =< lastId
<1> DEFINE U == snap[r].out \cap Undelivered
<1>1. at[r] = "xpending"
  BY DEF Counted
<1>2. Pending \in SUBSET Ids /\ U \in SUBSET Ids
  BY <1>1, HalvesAreSets
<1>3. /\ IsFiniteSet(Pending) /\ IsFiniteSet(U)
      /\ Cardinality(Pending) \in Nat /\ Cardinality(U) \in Nat /\ undelivered[r] \in Nat
  BY <1>2, IdsAreFinite DEF Inductive, TypeOK
<1>4. Cardinality(Pending) + undelivered[r] = 0 /\ Cardinality(U) =< undelivered[r]
  BY <1>1, CountedIsXPending DEF Inductive, HalfOfSum
<1>5. Cardinality(Pending) = 0 /\ Cardinality(U) = 0
  BY <1>3, <1>4
<1>6. Pending = {} /\ U = {}
  BY <1>3, <1>5, FS_EmptySet
<1>7. /\ Undelivered \cap 1..snap[r].last \subseteq snap[r].out
      /\ snap[r].last =< lastId
  BY <1>1 DEF Inductive, SnapshotStaysValid
<1>8. QED
  BY <1>6, <1>7

\* The number shown misses no message that was outstanding throughout the call.
THEOREM CountMissesNothingHolds == Spec => CountMissesNothing
<1>1. ASSUME Inductive, [Next]_vars, NEW r \in Requests, Counted(r)
      PROVE  count'[r] >= Cardinality(snap[r].out \cap Outstanding)
  <2> DEFINE P == snap[r].out \cap Pending
             U == snap[r].out \cap Undelivered
  <2>1. at[r] = "xpending"
    BY <1>1 DEF Counted
  <2>2. P \in SUBSET Ids /\ U \in SUBSET Ids /\ Pending \in SUBSET Ids
    BY <1>1, <2>1, HalvesAreSets
  <2>3. /\ Cardinality(P) \in Nat /\ Cardinality(U) \in Nat
        /\ Cardinality(Pending) \in Nat /\ undelivered[r] \in Nat
        /\ Cardinality(P \cup U) \in Nat
    BY <1>1, <2>2, IdsAreFinite DEF Inductive, TypeOK
  <2>4. Cardinality(P \cup U) =< Cardinality(P) + Cardinality(U)
    BY <2>2, UnionIsBounded
  <2>5. Cardinality(P) =< Cardinality(Pending)
    BY <2>2, SmallerSubset
  <2>6. Cardinality(U) =< undelivered[r]
    BY <1>1, <2>1 DEF Inductive, HalfOfSum
  <2>7. snap[r].out \cap Outstanding = P \cup U
    BY DEF Outstanding
  <2>8. Cardinality(P \cup U) =< Cardinality(Pending) + undelivered[r]
    BY <2>3, <2>4, <2>5, <2>6
  <2>9. QED
    BY <1>1, <2>3, <2>7, <2>8, CountedIsXPending
<1>2. Inductive /\ [Next]_vars
        => [\A r \in Requests :
              Counted(r) => count'[r] >= Cardinality(snap[r].out \cap Outstanding)]_vars
  BY <1>1
<1>3. QED
  BY <1>2, InductiveHolds, PTL DEF Spec, CountMissesNothing

\* It is too high by no more than what was delivered during the call, which both
\* halves of the sum count.
THEOREM CountErrorIsBoundedHolds == Spec => CountErrorIsBounded
<1>1. ASSUME Inductive, [Next]_vars, NEW r \in Requests, Counted(r)
      PROVE  count'[r] =< Cardinality(snap[r].out \cup (snap[r].last + 1)..lastId)
                            + Cardinality(seen \ snap[r].seen)
  <2> DEFINE Old == Pending \cap snap[r].seen
             New == Pending \ snap[r].seen
             Out == snap[r].out \cup (snap[r].last + 1)..lastId
  <2>1. at[r] = "xpending"
    BY <1>1 DEF Counted
  <2>2. /\ Old \in SUBSET Ids /\ New \in SUBSET Ids /\ Fresh(r) \in SUBSET Ids
        /\ Out \in SUBSET Ids /\ seen \ snap[r].seen \in SUBSET Ids
    BY <1>1, <2>1, HalvesAreSets
  <2>3. /\ Cardinality(Old) \in Nat /\ Cardinality(New) \in Nat
        /\ Cardinality(Fresh(r)) \in Nat /\ Cardinality(Out) \in Nat
        /\ Cardinality(seen \ snap[r].seen) \in Nat /\ undelivered[r] \in Nat
    BY <1>1, <2>2, IdsAreFinite DEF Inductive, TypeOK
  <2>4. Cardinality(Pending) = Cardinality(Old) + Cardinality(New)
    <3>1. Old \cap New = {} /\ Old \cup New = Pending
      OBVIOUS
    <3>2. Cardinality(Old \cup New) = Cardinality(Old) + Cardinality(New)
      BY <2>2, <3>1, DisjointUnion
    <3>3. QED
      BY <3>1, <3>2
  <2>5. Cardinality(Old) + Cardinality(Fresh(r)) =< Cardinality(Out)
    <3>1. Old \cap Fresh(r) = {}
      BY DEF Fresh
    <3>2. Old \cup Fresh(r) \in SUBSET Out
      BY <1>1, <2>1 DEF Inductive, SnapshotStaysValid, Fresh
    <3>3. Cardinality(Old \cup Fresh(r)) =< Cardinality(Out)
      BY <2>2, <3>2, SmallerSubset
    <3>4. Cardinality(Old \cup Fresh(r)) = Cardinality(Old) + Cardinality(Fresh(r))
      BY <2>2, <3>1, DisjointUnion
    <3>5. QED
      BY <3>3, <3>4
  <2>6. Cardinality(New) =< Cardinality(seen \ snap[r].seen)
    <3>1. New \in SUBSET (seen \ snap[r].seen)
      BY <1>1 DEF Inductive
    <3>2. QED
      BY <2>2, <3>1, SmallerSubset
  <2>7. undelivered[r] =< Cardinality(Fresh(r))
    BY <1>1, <2>1 DEF Inductive, HalfOfSum
  <2>8. Cardinality(Pending) + undelivered[r]
          =< Cardinality(Out) + Cardinality(seen \ snap[r].seen)
    BY <2>3, <2>4, <2>5, <2>6, <2>7
  <2>9. QED
    BY <1>1, <2>8, CountedIsXPending
<1>2. Inductive /\ [Next]_vars
        => [\A r \in Requests :
              Counted(r) =>
                count'[r] =< Cardinality(snap[r].out \cup (snap[r].last + 1)..lastId)
                               + Cardinality(seen \ snap[r].seen)]_vars
  BY <1>1
<1>3. QED
  BY <1>2, InductiveHolds, PTL DEF Spec, CountErrorIsBounded
=============================================================================
