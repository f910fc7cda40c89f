------------------------------- MODULE Producer -------------------------------
(***************************************************************************)
(* The web side of the queue: HTTP requests that publish messages and      *)
(* count the outstanding ones (internal/producer/producer.go, and the      *)
(* handlers PublishTime, Index and GetPendingMessagesCount of              *)
(* internal/html/handlers).                                                *)
(*                                                                         *)
(* Every request runs in a goroutine of its own, at at[r]:                 *)
(*   new      not yet arrived                                              *)
(*   xadd     in the loop of PublishTime                                   *)
(*   xinfo, xlen, xrange, xpending                                         *)
(*            before that command of GetPendingMessagesCount               *)
(*   done     the page is rendered                                         *)
(* Between two commands of one request anything may happen to the stream.  *)
(***************************************************************************)
EXTENDS RedisStream

CONSTANTS Requests,                \* HTTP requests, each made once
          Counts,                  \* what Atoi makes of the {count} parameter
          DefaultMaxStreamLength,  \* defaultMaxStreamLength
          MaxMishaps               \* bound: failed commands of the requests

ASSUME ProducerAssumption == /\ Counts \subseteq Int
                             /\ DefaultMaxStreamLength \in Nat \ {0}
                             /\ MaxMishaps \in Nat

VARIABLES
  rdb,          \* the web server was configured with a Redis client
  at,           \* where each request is
  left,         \* publications the loop of PublishTime has still to make
  lastID,       \* targetGroup.LastDeliveredID, 0 for "0-0"
  undelivered,  \* undeliveredCount
  count,        \* the number the page shows
  err,          \* the error the page shows
  mishaps,      \* commands of the requests that failed so far
  (* history, for the properties only *)
  asked,        \* messages each request has to publish
  added,        \* entries each request appended
  snap          \* the queue when the request read LastDeliveredID

locals   == <<at, left, lastID, undelivered, count, err>>
history  == <<asked, added, snap>>
prodVars == <<rdb, locals, mishaps, history>>
vars     == <<redisVars, prodVars>>

Places  == {"new", "xadd", "xinfo", "xlen", "xrange", "xpending", "done"}
Errors  == {"none", "errRedisNotInitialized", "errStreamWriteFailed"}

Snapshot == [out : SUBSET Ids, last : 0..MaxId, seen : SUBSET Ids]

TypeOK ==
  /\ RedisTypeOK
  /\ rdb \in BOOLEAN
  /\ at \in [Requests -> Places]
  /\ left \in [Requests -> Nat]
  /\ lastID \in [Requests -> 0..MaxId]
  /\ undelivered \in [Requests -> 0..MaxId]
  /\ count \in [Requests -> 0..(2 * MaxId)]
  /\ err \in [Requests -> Errors]
  /\ mishaps \in 0..MaxMishaps
  /\ asked \in [Requests -> Nat]
  /\ added \in [Requests -> 0..MaxId]
  /\ snap \in [Requests -> Snapshot]

NoSnapshot == [out |-> {}, last |-> 0, seen |-> {}]

Init ==
  /\ RedisInit
  /\ rdb \in BOOLEAN
  /\ at          = [r \in Requests |-> "new"]
  /\ left        = [r \in Requests |-> 0]
  /\ lastID      = [r \in Requests |-> 0]
  /\ undelivered = [r \in Requests |-> 0]
  /\ count       = [r \in Requests |-> 0]
  /\ err         = [r \in Requests |-> "none"]
  /\ mishaps     = 0
  /\ asked       = [r \in Requests |-> 0]
  /\ added       = [r \in Requests |-> 0]
  /\ snap        = [r \in Requests |-> NoSnapshot]

-----------------------------------------------------------------------------
(* Helpers.                                                                *)

GoTo(r, l) == at' = [at EXCEPT ![r] = l]

\* A command fails, or its reply is lost.
Mishap == mishaps < MaxMishaps /\ mishaps' = mishaps + 1

\* countParam: what cannot be parsed is 0, and less than one message is one.
CountParam(n) == IF n < 1 THEN 1 ELSE n

\* The page is rendered with the number n, and the request is over.
Show(r, n) == /\ GoTo(r, "done")
              /\ count' = [count EXCEPT ![r] = n]
              /\ lastID' = [lastID EXCEPT ![r] = 0]
              /\ undelivered' = [undelivered EXCEPT ![r] = 0]
              /\ snap' = [snap EXCEPT ![r] = NoSnapshot]
              /\ UNCHANGED <<rdb, left, err, asked, added>>

-----------------------------------------------------------------------------
(* Publishing.                                                             *)

\* POST /publish-time or /publish-time/{count}.
PublishTime(r) ==
  /\ at[r] = "new"
  /\ \E n \in Counts : /\ left' = [left EXCEPT ![r] = CountParam(n)]
                       /\ asked' = [asked EXCEPT ![r] = CountParam(n)]
  /\ GoTo(r, "xadd")
  /\ UNCHANGED <<redisVars, rdb, mishaps, lastID, undelivered, count, err, added, snap>>

\* GET /, or a toggle of a probe: only the count is asked for.
Index(r) ==
  /\ at[r] = "new"
  /\ GoTo(r, "xinfo")
  /\ UNCHANGED <<redisVars, rdb, mishaps, left, lastID, undelivered, count, err, history>>

\* MUTANT: the loop of PublishTime ends one message too early.
PublishShort(r) ==
  /\ at[r] = "xadd" /\ rdb /\ XAdd(DefaultMaxStreamLength)
  /\ left' = [left EXCEPT ![r] = left[r] - 1]
  /\ GoTo(r, IF left[r] =< 2 THEN "xinfo" ELSE "xadd")
  /\ added' = [added EXCEPT ![r] = added[r] + 1]
  /\ UNCHANGED <<faults, rdb, mishaps, lastID, undelivered, count, err, asked, snap>>

\* MUTANT: XADD without the cap the consumers count on.
PublishUncapped(r) ==
  /\ at[r] = "xadd" /\ rdb /\ XAdd(MaxId)
  /\ left' = [left EXCEPT ![r] = left[r] - 1]
  /\ GoTo(r, IF left[r] = 1 THEN "xinfo" ELSE "xadd")
  /\ added' = [added EXCEPT ![r] = added[r] + 1]
  /\ UNCHANGED <<faults, rdb, mishaps, lastID, undelivered, count, err, asked, snap>>

\* One round of the loop: XADD succeeds.
Publish(r) ==
  /\ at[r] = "xadd" /\ rdb
  /\ XAdd(DefaultMaxStreamLength)
  /\ left' = [left EXCEPT ![r] = left[r] - 1]
  /\ GoTo(r, IF left[r] = 1 THEN "xinfo" ELSE "xadd")
  /\ added' = [added EXCEPT ![r] = added[r] + 1]
  /\ UNCHANGED <<faults, rdb, mishaps, lastID, undelivered, count, err, asked, snap>>

\* The entry is appended, the reply is lost, and the client library sends the
\* command again.
PublishRetried(r) ==
  /\ at[r] = "xadd" /\ rdb
  /\ Mishap
  /\ XAdd(DefaultMaxStreamLength)
  /\ added' = [added EXCEPT ![r] = added[r] + 1]
  /\ UNCHANGED <<faults, rdb, locals, asked, snap>>

\* XADD returns an error, before or after Redis appended the entry: the handler
\* gives up and renders the error.
PublishFails(r) ==
  /\ at[r] = "xadd" /\ rdb
  /\ Mishap
  /\ \/ XAdd(DefaultMaxStreamLength) /\ added' = [added EXCEPT ![r] = added[r] + 1]
     \/ UNCHANGED <<streamVars, added>>
  /\ err' = [err EXCEPT ![r] = "errStreamWriteFailed"]
  /\ GoTo(r, "xinfo")
  /\ UNCHANGED <<faults, rdb, left, lastID, undelivered, count, asked, snap>>

\* The web server runs without Redis.
PublishRefused(r) ==
  /\ at[r] = "xadd" /\ ~rdb
  /\ err' = [err EXCEPT ![r] = "errRedisNotInitialized"]
  /\ GoTo(r, "xinfo")
  /\ UNCHANGED <<redisVars, rdb, mishaps, left, lastID, undelivered, count, history>>

-----------------------------------------------------------------------------
(* Counting: GetPendingMessagesCount.                                      *)

CountNothing(r) ==
  /\ at[r] = "xinfo" /\ ~rdb
  /\ Show(r, 0)
  /\ UNCHANGED <<redisVars, mishaps>>

\* MUTANT: the length of the stream counts also when something was delivered.
XInfoLengthAlways(r) ==
  /\ at[r] = "xinfo" /\ rdb /\ group
  /\ lastID' = [lastID EXCEPT ![r] = delivered]
  /\ GoTo(r, "xlen")
  /\ snap' = [snap EXCEPT ![r] = [out |-> Outstanding, last |-> lastId, seen |-> seen]]
  /\ UNCHANGED <<redisVars, rdb, mishaps, left, undelivered, count, err, asked, added>>

\* XINFO GROUPS: the group's last-delivered-id, and the branch it selects.
XInfoGroups(r) ==
  /\ at[r] = "xinfo" /\ rdb /\ group
  /\ lastID' = [lastID EXCEPT ![r] = delivered]
  /\ GoTo(r, IF delivered = 0 THEN "xlen" ELSE "xrange")
  /\ snap' = [snap EXCEPT ![r] = [out |-> Outstanding, last |-> lastId, seen |-> seen]]
  /\ UNCHANGED <<redisVars, rdb, mishaps, left, undelivered, count, err, asked, added>>

XLen(r) ==
  /\ at[r] = "xlen"
  /\ undelivered' = [undelivered EXCEPT ![r] = Cardinality(firstId..lastId)]
  /\ GoTo(r, "xpending")
  /\ UNCHANGED <<redisVars, rdb, mishaps, left, lastID, count, err, history>>

\* MUTANT: XRANGE lastID +, without the parenthesis that excludes lastID.
XRangeInclusive(r) ==
  /\ at[r] = "xrange"
  /\ undelivered' = [undelivered EXCEPT ![r] = Cardinality(Behind(lastID[r] - 1))]
  /\ GoTo(r, "xpending")
  /\ UNCHANGED <<redisVars, rdb, mishaps, left, lastID, count, err, history>>

\* MUTANT: the exclusive bound is applied twice, and the next message missed.
XRangeFresh(r) ==
  /\ at[r] = "xrange"
  /\ undelivered' = [undelivered EXCEPT ![r] = Cardinality(Behind(lastID[r] + 1))]
  /\ GoTo(r, "xpending")
  /\ UNCHANGED <<redisVars, rdb, mishaps, left, lastID, count, err, history>>

XRange(r) ==
  /\ at[r] = "xrange"
  /\ undelivered' = [undelivered EXCEPT ![r] = Cardinality(Behind(lastID[r]))]
  /\ GoTo(r, "xpending")
  /\ UNCHANGED <<redisVars, rdb, mishaps, left, lastID, count, err, history>>

XPending(r) ==
  /\ at[r] = "xpending" /\ group
  /\ Show(r, Cardinality(Pending) + undelivered[r])
  /\ UNCHANGED <<redisVars, mishaps>>

\* Any of the commands fails, or the group is missing: the error is printed and
\* the page shows 0.
CountFails(r) ==
  /\ rdb
  /\ \/ at[r] \in {"xinfo", "xpending"} /\ ~group /\ UNCHANGED mishaps
     \/ at[r] \in {"xinfo", "xlen", "xrange", "xpending"} /\ Mishap
  /\ Show(r, 0)
  /\ UNCHANGED redisVars

-----------------------------------------------------------------------------
(* The specification.                                                      *)

\* What consumers, time and Redis itself do to the stream meanwhile; module
\* Consumer models how they come to it.
Elsewhere ==
  /\ \/ /\ UNCHANGED faults \/ Fault
        /\ \/ XGroupCreate
           \/ UNCHANGED streamVars
           \/ \E c \in Consumers : XReadGroupNew(c)
           \/ \E i \in Pending : XAck(i)
           \/ \E c \in Consumers, ids \in SUBSET Pending : XClaim(c, ids)
           \/ \E c \in Consumers : XRename(c)
     \/ \E i \in Ids : Age(i)
     \/ LoseData
  /\ UNCHANGED prodVars

PublishStep(r) == \/ PublishTime(r) \/ Publish(r) \/ PublishRefused(r)
                  \/ PublishRetried(r) \/ PublishFails(r)

CountStep(r) == \/ Index(r) \/ CountNothing(r) \/ XInfoGroups(r) \/ XLen(r)
                \/ XRange(r) \/ XPending(r) \/ CountFails(r)

Next == \/ \E r \in Requests : PublishStep(r) \/ CountStep(r)
        \/ Elsewhere

Spec == Init /\ [][Next]_vars

-----------------------------------------------------------------------------
(* Properties.                                                             *)

\* The count of a request is complete in this step, without an error.
Counted(r) == at[r] = "xpending" /\ at'[r] = "done" /\ group /\ UNCHANGED mishaps

\* The number shown misses no message: what was outstanding throughout the three
\* commands is in it, although messages were delivered, trimmed and
\* acknowledged between them.
CountMissesNothing ==
  [][\A r \in Requests :
       Counted(r) => count'[r] >= Cardinality(snap[r].out \cap Outstanding)]_vars

\* It is too high by no more than the messages delivered between XINFO GROUPS
\* and XPENDING, which the two halves of the sum both count.
CountErrorIsBounded ==
  [][\A r \in Requests :
       Counted(r) =>
         count'[r] =< Cardinality(snap[r].out \cup (snap[r].last + 1)..lastId)
                        + Cardinality(seen \ snap[r].seen)]_vars

\* Without an error on its page a publication has appended all it was asked for;
\* each lost reply adds one entry more at most, with an error or without.
PublishedAsAsked ==
  \A r \in Requests :
    /\ at[r] \notin {"new", "xadd"} /\ err[r] = "none" => added[r] >= asked[r]
    /\ added[r] =< asked[r] + mishaps

\* What the three properties rest on.  The loop of PublishTime accounts for what
\* is left to it ...
LoopKeepsCount(r) ==
  /\ at[r] = "new" => asked[r] = 0 /\ added[r] = 0 /\ err[r] = "none"
  /\ at[r] = "xadd" => /\ left[r] > 0 /\ err[r] = "none"
                       /\ added[r] + left[r] >= asked[r]
  /\ at[r] \notin {"new", "xadd"} /\ err[r] = "none" => added[r] >= asked[r]
  /\ added[r] + left[r] =< asked[r] + mishaps
  /\ added[r] =< lastId

\* ... what XINFO GROUPS saw stays comparable with the stream ...
SnapshotStaysValid(r) ==
  at[r] \in {"xlen", "xrange", "xpending"} =>
    /\ snap[r].last =< lastId
    /\ snap[r].out \cup snap[r].seen \subseteq 1..snap[r].last
    /\ snap[r].seen \subseteq seen
    /\ Pending \cap snap[r].seen \subseteq snap[r].out
    /\ Undelivered \cap 1..snap[r].last \subseteq snap[r].out

\* ... and the first half of the sum lies between what is undelivered still of
\* that time and what was not delivered then.
Fresh(r) == (snap[r].out \cup (snap[r].last + 1)..lastId) \ snap[r].seen

HalfOfSum(r) ==
  /\ at[r] = "xlen" => lastID[r] = 0
  /\ at[r] \in {"xlen", "xrange"} =>
       /\ snap[r].out \cap Undelivered \subseteq Behind(lastID[r])
       /\ Behind(lastID[r]) \subseteq Fresh(r)
  /\ at[r] = "xpending" =>
       /\ Cardinality(snap[r].out \cap Undelivered) =< undelivered[r]
       /\ undelivered[r] =< Cardinality(Fresh(r))

\* The inductive invariant.
Inductive ==
  /\ TypeOK
  /\ HandedOutIsBehind /\ Pending \subseteq seen
  /\ \A r \in Requests : LoopKeepsCount(r) /\ SnapshotStaysValid(r) /\ HalfOfSum(r)

-----------------------------------------------------------------------------
(* What the documentation says of the program, and the code does not do.   *)

\* internal/producer/producer.go: GetPendingMessagesCount "returns the number of
\* pending and undelivered messages": no more than were outstanding at any
\* moment of the call.
CountIsOutstanding ==
  [][\A r \in Requests :
       Counted(r) =>
         count'[r] =< Cardinality(snap[r].out \cup (snap[r].last + 1)..lastId)]_vars
=============================================================================
