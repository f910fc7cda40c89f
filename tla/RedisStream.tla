----------------------------- MODULE RedisStream -----------------------------
(***************************************************************************)
(* The Redis server seen by kubetrainer: one stream and one consumer       *)
(* group on it.  Redis is not part of the repository; this module states   *)
(* what the commands that internal/consumer and internal/producer issue    *)
(* do to the stream.  Every command is one atomic step (Redis is           *)
(* single-threaded) and an action here; which error paths a caller can     *)
(* take around it belongs to the caller's module.                          *)
(*                                                                         *)
(* Entry ids are 1, 2, 3, ... in the order of XADD (Redis generates        *)
(* increasing ids).  The code never deletes an entry, so the stream is     *)
(* always the interval firstId..lastId.                                    *)
(*                                                                         *)
(* A consumer name is either the name a running replica currently uses,    *)
(* and then it is written as the replica, or one that nobody uses any      *)
(* more, written Orphan: names come from xid.New() and are never reused.   *)
(***************************************************************************)
EXTENDS Integers, FiniteSets

CONSTANTS Consumers,  \* the consumer replicas
          Orphan,     \* owner of an entry whose consumer name is out of use
          NoOne,      \* owner of an id that is not in the pending list
          MaxId,      \* bound: the number of entries ever added
          MaxFaults   \* bound: the number of faults of the environment

ASSUME OwnersAssumption == /\ Orphan \notin Consumers
                           /\ NoOne \notin Consumers
                           /\ Orphan # NoOne
ASSUME BoundsAssumption == MaxId \in Nat /\ MaxFaults \in Nat

VARIABLES
  group,      \* the consumer group exists
  firstId,    \* the oldest entry the stream still holds
  lastId,     \* the last id generated
  delivered,  \* the group's last-delivered-id (0 stands for "0-0")
  owner,      \* the group's pending list: the owner of each id, or NoOne
  idle,       \* the pending entries idle for at least a millisecond
  (* history, for the properties only *)
  seen,       \* ids delivered through ">" so far
  acked,      \* ids an XACK removed from the pending list
  dropped,    \* ids Redis itself removed from the pending list
  faults      \* faults of the environment so far

streamVars == <<group, firstId, lastId, delivered, owner, idle,
                seen, acked, dropped>>
redisVars  == <<streamVars, faults>>

Ids == 1..MaxId

Pending  == {i \in Ids : owner[i] # NoOne}
Owned(c) == {i \in Ids : owner[i] = c}

\* The entry XREADGROUP ">" hands out next, when there is one.
NextNew     == IF delivered < firstId THEN firstId ELSE delivered + 1
Undelivered == {i \in firstId..lastId : i > delivered}
Outstanding == Pending \cup Undelivered

RedisTypeOK ==
  /\ group \in BOOLEAN
  /\ firstId \in 1..(MaxId + 1)
  /\ lastId \in 0..MaxId
  /\ delivered \in 0..MaxId
  /\ owner \in [Ids -> Consumers \cup {Orphan, NoOne}]
  /\ idle \subseteq Ids
  /\ seen \subseteq Ids /\ acked \subseteq Ids /\ dropped \subseteq Ids
  /\ faults \in 0..MaxFaults

RedisInit ==
  /\ group = FALSE
  /\ firstId = 1 /\ lastId = 0 /\ delivered = 0
  /\ owner = [i \in Ids |-> NoOne]
  /\ idle = {} /\ seen = {} /\ acked = {} /\ dropped = {}
  /\ faults = 0

-----------------------------------------------------------------------------
(* Commands.  Each leaves faults to the caller.                            *)

\* XADD key MAXLEN maxLen *: append, then trim exactly to maxLen entries,
\* whether or not they were delivered.
XAdd(maxLen) ==
  /\ lastId < MaxId
  /\ lastId' = lastId + 1
  /\ firstId' = IF lastId + 2 - firstId > maxLen THEN lastId + 2 - maxLen
                                                 ELSE firstId
  /\ UNCHANGED <<group, delivered, owner, idle, seen, acked, dropped>>

\* XGROUP CREATE key group 0 MKSTREAM; BUSYGROUP leaves the group as it is.
XGroupCreate ==
  /\ group' = TRUE
  /\ UNCHANGED <<firstId, lastId, delivered, owner, idle, seen, acked, dropped>>

\* XREADGROUP GROUP g c COUNT 1 STREAMS key >: the oldest undelivered entry
\* enters the pending list under the caller's name.
XReadGroupNew(c) ==
  /\ group
  /\ NextNew =< lastId
  /\ delivered' = NextNew
  /\ owner' = [owner EXCEPT ![NextNew] = c]
  /\ idle' = idle \ {NextNew}
  /\ seen' = seen \cup {NextNew}
  /\ UNCHANGED <<group, firstId, lastId, acked, dropped>>

\* XACK key group i: removes i from the pending list, whoever owns it; an id
\* that is not pending is ignored, and a missing group is not an error.
XAck(i) ==
  /\ owner' = [owner EXCEPT ![i] = NoOne]
  /\ idle' = idle \ {i}
  /\ acked' = IF owner[i] # NoOne THEN acked \cup {i} ELSE acked
  /\ UNCHANGED <<group, firstId, lastId, delivered, seen, dropped>>

\* XCLAIM key group c 0 ids: the ids still pending, however old and whoever owns
\* them, pass to c and stop being idle; those trimmed from the stream leave the
\* pending list instead (Redis 7).
XClaim(c, ids) ==
  LET claimable == {i \in ids : owner[i] # NoOne}
      trimmed   == {i \in claimable : i < firstId}
  IN /\ owner' = [i \in Ids |-> IF i \in trimmed THEN NoOne
                                ELSE IF i \in claimable THEN c ELSE owner[i]]
     /\ idle' = idle \ claimable
     /\ dropped' = dropped \cup trimmed
     /\ UNCHANGED <<group, firstId, lastId, delivered, seen, acked>>

\* A consumer starts to use a new name: nobody uses the owner of its entries.
XRename(c) ==
  /\ owner' = [i \in Ids |-> IF owner[i] = c THEN Orphan ELSE owner[i]]
  /\ UNCHANGED <<group, firstId, lastId, delivered, idle, seen, acked, dropped>>

\* XRANGE key (id +: the entries behind id.
Behind(id) == {i \in firstId..lastId : i > id}

-----------------------------------------------------------------------------
(* The environment.                                                        *)

\* One more fault: a call that fails, a reply that is lost, a process killed.
Fault == faults < MaxFaults /\ faults' = faults + 1

\* A millisecond passes without a delivery or a claim of the pending entry i.
Age(i) ==
  /\ owner[i] # NoOne /\ i \notin idle
  /\ idle' = idle \cup {i}
  /\ UNCHANGED <<group, firstId, lastId, delivered, owner, seen, acked, dropped,
                 faults>>

\* Redis restarts without its data (deployment/docker-compose.yml gives it no
\* volume): stream, group and pending list are gone.
LoseData ==
  /\ Fault
  /\ group \/ firstId =< lastId
  /\ group' = FALSE
  /\ firstId' = lastId + 1
  /\ delivered' = 0
  /\ owner' = [i \in Ids |-> NoOne]
  /\ idle' = {}
  /\ dropped' = dropped \cup Pending
  /\ UNCHANGED <<lastId, seen, acked>>

-----------------------------------------------------------------------------
(* What the users of the stream rely on.                                   *)

\* The ids ">" handed out are behind the group's position, or trimmed or lost:
\* none is handed out twice.
HandedOutIsBehind ==
  /\ delivered =< lastId /\ firstId =< lastId + 1
  /\ \A i \in seen : i =< lastId /\ (i =< delivered \/ i < firstId)
=============================================================================
