------------------------------- MODULE Consumer -------------------------------
(***************************************************************************)
(* The consumer mode: replicas of `kubetrainer -consumer` sharing one      *)
(* consumer group (cmd/main.go runConsumer, consumeLoop and                *)
(* waitForConsumerShutdown; internal/consumer/consumer.go).                *)
(*                                                                         *)
(* A replica has two goroutines.  The main one goes through phase[c]:      *)
(*   down    no process                                                    *)
(*   init    connecting to Redis and creating the group                    *)
(*   wait    blocked on stopChan                                           *)
(*   drain   stop signal received: the context is cancelled and the select *)
(*           of waitForConsumerShutdown is pending                         *)
(* The consuming one runs consumeLoop and is at pc[c]:                     *)
(*   off, loop (consumeLoop's select), pending (before XPENDING), backlog  *)
(*   (before XREADGROUP 0), select (Consume's select), read (issuing or    *)
(*   blocked in XREADGROUP >), work (in SimulateWork), ack (before XACK),  *)
(*   scan (before XPENDING's extended form), claim (before XCLAIM), done   *)
(* Messages arrive from the environment (Arrive); module Producer models   *)
(* where they come from.                                                   *)
(***************************************************************************)
EXTENDS RedisStream

CONSTANTS DataSizeBytes,    \* cfg.ProducerCfg.DataSizeBytes, given to SimulateWork
          DefaultMaxStreamLength,  \* defaultMaxStreamLength, the producer's MAXLEN
          StuckClaimBatch   \* stuckClaimBatch

ASSUME ConsumerAssumption == /\ DataSizeBytes \in Int
                             /\ DefaultMaxStreamLength \in Nat \ {0}
                             /\ StuckClaimBatch \in Nat \ {0}

VARIABLES
  phase,    \* main goroutine of each replica
  pc,       \* consuming goroutine of each replica
  held,     \* the message in processMessages, 0 for none
  tick,     \* Consume's ticker has a tick to deliver
  scan,     \* idsToClaim between XPENDING and XCLAIM
  exit,     \* how the replica's last process ended
  tried,    \* history: ids handed to SimulateWork
  worked    \* history: ids for which SimulateWork returned a checksum

procVars == <<phase, pc, held, tick, scan, exit>>
workVars == <<tried, worked>>
vars     == <<redisVars, procVars, workVars>>

Phases   == {"down", "init", "wait", "drain"}
PCs      == {"off", "loop", "pending", "backlog", "select", "read", "work",
             "ack", "scan", "claim", "done"}
Statuses == {"none", "ok", "error", "panic", "killed"}

TypeOK ==
  /\ RedisTypeOK
  /\ phase \in [Consumers -> Phases]
  /\ pc \in [Consumers -> PCs]
  /\ held \in [Consumers -> 0..MaxId]
  /\ tick \in [Consumers -> BOOLEAN]
  /\ scan \in [Consumers -> SUBSET Ids]
  /\ exit \in [Consumers -> Statuses]
  /\ tried \subseteq Ids /\ worked \subseteq Ids

Init ==
  /\ RedisInit
  /\ phase = [c \in Consumers |-> "down"]
  /\ pc    = [c \in Consumers |-> "off"]
  /\ held  = [c \in Consumers |-> 0]
  /\ tick  = [c \in Consumers |-> FALSE]
  /\ scan  = [c \in Consumers |-> {}]
  /\ exit  = [c \in Consumers |-> "none"]
  /\ tried = {} /\ worked = {}

-----------------------------------------------------------------------------
(* Helpers.                                                                *)

\* The context runConsumer hands to consumeLoop has been cancelled.
Cancelled(c) == phase[c] = "drain"

GoTo(c, l) == pc' = [pc EXCEPT ![c] = l]

\* The process of c ends: its memory is gone, the pending list is not.
Die(c, status) ==
  /\ phase' = [phase EXCEPT ![c] = "down"]
  /\ GoTo(c, "off")
  /\ held' = [held EXCEPT ![c] = 0]
  /\ tick' = [tick EXCEPT ![c] = FALSE]
  /\ scan' = [scan EXCEPT ![c] = {}]
  /\ exit' = [exit EXCEPT ![c] = status]
  /\ UNCHANGED workVars

\* A command on the group can be answered.
CallWorks(c) == group /\ ~Cancelled(c)

\* A command on the group returns an error and has no effect: the context is
\* already cancelled, the group is missing, or the connection fails.
CallFails(c) == \/ ~CallWorks(c) /\ UNCHANGED faults
                \/ Fault

\* processMessages starts on message i.
StartWork(c, i) ==
  /\ GoTo(c, "work")
  /\ held' = [held EXCEPT ![c] = i]
  /\ tried' = tried \cup {i}
  /\ UNCHANGED worked

\* processMessages returns: the message is no longer in this replica's hands.
LetGo(c, l) ==
  /\ GoTo(c, l)
  /\ held' = [held EXCEPT ![c] = 0]
  /\ UNCHANGED tried

-----------------------------------------------------------------------------
(* Main goroutine.                                                         *)

Start(c) ==
  /\ phase[c] = "down"
  /\ phase' = [phase EXCEPT ![c] = "init"]
  /\ UNCHANGED <<redisVars, pc, held, tick, scan, exit, workVars>>

\* MUTANT: XGROUP CREATE with "$": the group starts behind what is there.
InitConsumerAtEnd(c) ==
  /\ phase[c] = "init"
  /\ group' = TRUE
  /\ delivered' = IF group THEN delivered ELSE lastId
  /\ phase' = [phase EXCEPT ![c] = "wait"]
  /\ GoTo(c, "loop")
  /\ UNCHANGED <<firstId, lastId, owner, idle, seen, acked, dropped, faults,
                 held, tick, scan, exit, workVars>>

\* InitConsumer succeeds and runConsumer starts consumeLoop.
InitConsumer(c) ==
  /\ phase[c] = "init"
  /\ XGroupCreate
  /\ phase' = [phase EXCEPT ![c] = "wait"]
  /\ GoTo(c, "loop")
  /\ UNCHANGED <<held, tick, scan, exit, workVars, faults>>

\* The ping or the group creation fails: runConsumer returns the error.
InitFails(c) ==
  /\ phase[c] = "init"
  /\ Fault
  /\ XGroupCreate \/ UNCHANGED streamVars
  /\ Die(c, "error")

\* SIGTERM: <-stopChan returns and waitForConsumerShutdown cancels the context.
Terminate(c) ==
  /\ phase[c] = "wait"
  /\ Fault
  /\ phase' = [phase EXCEPT ![c] = "drain"]
  /\ UNCHANGED <<streamVars, pc, held, tick, scan, exit, workVars>>

\* wg.Wait() returned and shutdownDone is closed.
DrainDone(c) ==
  /\ phase[c] = "drain" /\ pc[c] = "done"
  /\ Die(c, "ok")
  /\ UNCHANGED redisVars

\* MUTANT: the shutdown waits for the consuming goroutine without a deadline.
NoDeadline(c) ==
  /\ phase[c] = "drain" /\ pc[c] = "done"
  /\ Die(c, "error")
  /\ UNCHANGED redisVars

\* time.After(consumerShutdownTimeout) fires first.
DrainTimeout(c) ==
  /\ phase[c] = "drain"
  /\ Die(c, "error")
  /\ UNCHANGED redisVars

\* SIGKILL, out of memory, node failure.
Kill(c) ==
  /\ phase[c] # "down"
  /\ Fault
  /\ Die(c, "killed")
  /\ UNCHANGED streamVars

-----------------------------------------------------------------------------
(* Consuming goroutine: consumeLoop and the start of Consume.              *)

LoopExit(c) ==
  /\ pc[c] = "loop" /\ Cancelled(c)
  /\ GoTo(c, "done")
  /\ UNCHANGED <<redisVars, phase, held, tick, scan, exit, workVars>>

\* MUTANT: a stable consumer name (the host name) instead of xid.New().
ConsumeUnderOldName(c) ==
  /\ pc[c] = "loop" /\ ~Cancelled(c)
  /\ GoTo(c, "pending")
  /\ tick' = [tick EXCEPT ![c] = FALSE]
  /\ UNCHANGED <<redisVars, phase, held, scan, exit, workVars>>

\* consumeLoop calls Consume.  uniqueID := xid.New().String(): what the replica
\* owned under its previous name now belongs to a name nobody uses.
LoopConsume(c) ==
  /\ pc[c] = "loop" /\ ~Cancelled(c)
  /\ XRename(c)
  /\ GoTo(c, "pending")
  /\ tick' = [tick EXCEPT ![c] = FALSE]
  /\ UNCHANGED <<faults, phase, held, scan, exit, workVars>>

\* processPendingBacklog: XPENDING answers; with nothing pending the backlog
\* is skipped.
XPending(c) ==
  /\ pc[c] = "pending" /\ CallWorks(c)
  /\ GoTo(c, IF Pending = {} THEN "select" ELSE "backlog")
  /\ UNCHANGED <<redisVars, phase, held, tick, scan, exit, workVars>>

\* MUTANT: the error of XPENDING is returned by Consume like every other error.
XPendingErrorReturned(c) ==
  /\ pc[c] = "pending" /\ CallFails(c)
  /\ GoTo(c, "loop")
  /\ UNCHANGED <<streamVars, phase, held, tick, scan, exit, workVars>>

\* XPENDING fails: Val() is a nil pointer, pending.Count panics, and nothing
\* recovers a panic of this goroutine.
XPendingPanics(c) ==
  /\ pc[c] = "pending" /\ CallFails(c)
  /\ Die(c, "panic")
  /\ UNCHANGED streamVars

\* MUTANT: an empty backlog ends Consume instead of its first phase.
EmptyBacklogEndsConsume(c) ==
  /\ pc[c] = "backlog" /\ CallWorks(c)
  /\ GoTo(c, "loop")
  /\ UNCHANGED <<redisVars, phase, held, tick, scan, exit, workVars>>

\* MUTANT: the emptiness of the reply is not checked.
BacklogUnchecked(c) ==
  /\ pc[c] = "backlog" /\ CallWorks(c)
  /\ StartWork(c, 0)
  /\ UNCHANGED <<redisVars, phase, tick, scan, exit>>

\* XREADGROUP from 0: the oldest entry pending under the caller's own name.
ReadBacklog(c) ==
  /\ pc[c] = "backlog" /\ CallWorks(c)
  /\ LET first == CHOOSE i \in Owned(c) : \A j \in Owned(c) : i =< j
     IN IF Owned(c) = {}
        THEN /\ GoTo(c, "select")
             /\ UNCHANGED <<idle, held, workVars>>
        ELSE /\ StartWork(c, first)
             /\ idle' = idle \ {first}
  /\ UNCHANGED <<group, firstId, lastId, delivered, owner, seen, acked,
                 dropped, faults, phase, tick, scan, exit>>

\* Either form of XREADGROUP fails: Consume returns the error, consumeLoop
\* logs it and calls Consume again.
ReadFails(c) ==
  /\ pc[c] \in {"backlog", "read"} /\ CallFails(c)
  /\ GoTo(c, "loop")
  /\ UNCHANGED <<streamVars, phase, held, tick, scan, exit, workVars>>

-----------------------------------------------------------------------------
(* Consuming goroutine: the loop of Consume.                               *)

SelectDone(c) ==
  /\ pc[c] = "select" /\ Cancelled(c)
  /\ GoTo(c, "loop")
  /\ UNCHANGED <<redisVars, phase, held, tick, scan, exit, workVars>>

SelectTick(c) ==
  /\ pc[c] = "select" /\ tick[c]
  /\ tick' = [tick EXCEPT ![c] = FALSE]
  /\ GoTo(c, "scan")
  /\ UNCHANGED <<redisVars, phase, held, scan, exit, workVars>>

\* The default case: taken only when neither channel is ready.
SelectDefault(c) ==
  /\ pc[c] = "select" /\ ~Cancelled(c) /\ ~tick[c]
  /\ GoTo(c, "read")
  /\ UNCHANGED <<redisVars, phase, held, tick, scan, exit, workVars>>

\* MUTANT: XREADGROUP with NOACK, which leaves nothing in the pending list.
ReadNewNoAck(c) ==
  /\ pc[c] = "read" /\ group /\ NextNew =< lastId
  /\ delivered' = NextNew
  /\ seen' = seen \cup {NextNew}
  /\ StartWork(c, NextNew)
  /\ UNCHANGED <<group, firstId, lastId, owner, idle, acked, dropped, faults,
                 phase, tick, scan, exit>>

\* MUTANT: the message is acknowledged on receipt, and no longer after the work.
AckOnReceipt(c) ==
  /\ pc[c] = "read"
  /\ XReadGroupNew(c)
  /\ GoTo(c, "ack")
  /\ held' = [held EXCEPT ![c] = NextNew]
  /\ UNCHANGED <<faults, phase, tick, scan, exit, workVars>>

\* A new message arrives in the reply of XREADGROUP >.  Cancelling the context
\* does not interrupt a read that is already blocked (BLOCK 0).
ReadNew(c) ==
  /\ pc[c] = "read"
  /\ XReadGroupNew(c)
  /\ StartWork(c, NextNew)
  /\ UNCHANGED <<faults, phase, tick, scan, exit>>

\* The entry is delivered but the reply is lost: the client library either
\* repeats the read or gives the error to Consume.
ReadReplyLost(c) ==
  /\ pc[c] = "read"
  /\ Fault
  /\ XReadGroupNew(c)
  /\ GoTo(c, "read") \/ GoTo(c, "loop")
  /\ UNCHANGED <<phase, held, tick, scan, exit, workVars>>

\* SimulateWork returns a checksum.  If the context is cancelled meanwhile the
\* result may still win the select.
WorkDone(c) ==
  /\ pc[c] = "work" /\ DataSizeBytes > 0
  /\ GoTo(c, "ack")
  /\ worked' = worked \cup {held[c]}
  /\ UNCHANGED <<redisVars, phase, held, tick, scan, exit, tried>>

\* SimulateWork returns an error: errInvalidSize, or the context is cancelled.
\* The message stays pending and Consume returns.
WorkFails(c) ==
  /\ pc[c] = "work" /\ (DataSizeBytes =< 0 \/ Cancelled(c))
  /\ LetGo(c, "loop")
  /\ UNCHANGED <<redisVars, phase, tick, scan, exit, worked>>

\* MUTANT: processMessages forgets the XACK.
AckForgotten(c) ==
  /\ pc[c] = "ack" /\ ~Cancelled(c)
  /\ LetGo(c, "select")
  /\ UNCHANGED <<redisVars, phase, tick, scan, exit, worked>>

Ack(c) ==
  /\ pc[c] = "ack" /\ ~Cancelled(c)
  /\ XAck(held[c])
  /\ LetGo(c, "select")
  /\ UNCHANGED <<faults, phase, tick, scan, exit, worked>>

\* XACK does not reach Redis, or its reply does not come back: Consume returns.
AckFails(c) ==
  /\ pc[c] = "ack"
  /\ \/ /\ Cancelled(c) /\ UNCHANGED redisVars
     \/ /\ Fault
        /\ XAck(held[c]) \/ UNCHANGED streamVars
  /\ LetGo(c, "loop")
  /\ UNCHANGED <<phase, tick, scan, exit, worked>>

-----------------------------------------------------------------------------
(* Consuming goroutine: claimStuckMessages.                                *)

\* minIdleTimeMs is 60_000 without a unit, and all that it is given to and compared
\* with are durations, which count nanoseconds: 60 microseconds.  Of these the client
\* library makes IDLE 1 for XPENDING and 0 for XCLAIM, which both take milliseconds.

\* XPENDING key group IDLE 1 - + stuckClaimBatch: the oldest entries that were not
\* delivered or claimed within the last millisecond.
StuckBatch == {i \in idle : Cardinality({j \in idle : j < i}) < StuckClaimBatch}

\* The entries of the batch that another consumer owns; that p.Idle reaches 60
\* microseconds holds for all of them.
IdsToClaim(c) == {i \in StuckBatch : owner[i] # c}

Scan(c) ==
  /\ pc[c] = "scan" /\ CallWorks(c)
  /\ scan' = [scan EXCEPT ![c] = IdsToClaim(c)]
  /\ GoTo(c, IF IdsToClaim(c) = {} THEN "select" ELSE "claim")
  /\ UNCHANGED <<redisVars, phase, held, tick, exit, workVars>>

\* MUTANT: XCLAIM with FORCE enters ids that were acknowledged since the scan.
ClaimForced(c) ==
  /\ pc[c] = "claim" /\ CallWorks(c)
  /\ owner' = [i \in Ids |-> IF i \in scan[c] THEN c ELSE owner[i]]
  /\ idle' = idle \ scan[c]
  /\ scan' = [scan EXCEPT ![c] = {}]
  /\ GoTo(c, "select")
  /\ UNCHANGED <<group, firstId, lastId, delivered, seen, acked, dropped,
                 faults, phase, held, tick, exit, workVars>>

\* XCLAIM takes the ids of the scan that are still pending, in work or not.  The
\* claimed messages are printed; nothing processes them.
Claim(c) ==
  /\ pc[c] = "claim" /\ CallWorks(c)
  /\ XClaim(c, scan[c])
  /\ scan' = [scan EXCEPT ![c] = {}]
  /\ GoTo(c, "select")
  /\ UNCHANGED <<faults, phase, held, tick, exit, workVars>>

\* An error of either command: Val() of the scan is empty, and Consume only
\* prints the error of the claim.
SweepFails(c) ==
  /\ pc[c] \in {"scan", "claim"} /\ CallFails(c)
  /\ scan' = [scan EXCEPT ![c] = {}]
  /\ GoTo(c, "select")
  /\ UNCHANGED <<streamVars, phase, held, tick, exit, workVars>>

\* One minute passes on the ticker.  A tick can only fall due while the
\* goroutine waits for a message or works on one: every other step is far
\* shorter than the minute between two ticks.
Tick(c) ==
  /\ pc[c] \in {"read", "work"} /\ ~tick[c]
  /\ tick' = [tick EXCEPT ![c] = TRUE]
  /\ UNCHANGED <<redisVars, phase, pc, held, scan, exit, workVars>>

-----------------------------------------------------------------------------
(* The specification.                                                      *)

\* A producer appends a message.
Arrive == XAdd(DefaultMaxStreamLength) /\ UNCHANGED <<faults, procVars, workVars>>

Environment == \/ Arrive
               \/ LoseData /\ UNCHANGED <<procVars, workVars>>
               \/ \E i \in Ids : Age(i) /\ UNCHANGED <<procVars, workVars>>

MainStep(c) == \/ Start(c) \/ InitConsumer(c) \/ DrainDone(c) \/ DrainTimeout(c)

\* What the consuming goroutine does when nothing goes wrong around it.
LoopStep(c) == \/ LoopExit(c) \/ LoopConsume(c) \/ XPending(c) \/ ReadBacklog(c)
               \/ SelectDone(c) \/ SelectTick(c) \/ SelectDefault(c) \/ ReadNew(c)
               \/ WorkDone(c) \/ WorkFails(c) \/ Ack(c) \/ Scan(c) \/ Claim(c)

ErrorStep(c) == \/ InitFails(c) \/ Terminate(c) \/ Kill(c) \/ XPendingPanics(c)
                \/ ReadFails(c) \/ ReadReplyLost(c) \/ AckFails(c) \/ SweepFails(c)

Next == \/ Environment
        \/ \E c \in Consumers : MainStep(c) \/ LoopStep(c) \/ ErrorStep(c) \/ Tick(c)

Spec == Init /\ [][Next]_vars

\* The errors a goroutine is certain to meet: the context is cancelled or the
\* group is gone.  A read that was blocked before the cancellation is not one.
ErrorReturn(c) == \/ XPendingPanics(c) \/ AckFails(c) \/ SweepFails(c)
                  \/ ReadFails(c) /\ (pc[c] = "backlog" \/ ~group)

\* The goroutines of a running process are scheduled, a pod that ended is
\* started again, and time passes.
Fairness == /\ \A c \in Consumers : /\ WF_vars(LoopStep(c) \/ ErrorReturn(c))
                                    /\ WF_vars(MainStep(c))
                                    /\ WF_vars(Tick(c))
            /\ \A i \in Ids : WF_vars(Age(i) /\ UNCHANGED <<procVars, workVars>>)

FairSpec == Spec /\ Fairness

-----------------------------------------------------------------------------
(* Safety.                                                                 *)

\* A message leaves the pending list by an acknowledgement only if
\* SimulateWork finished on it: whatever fails, is cancelled or is claimed in
\* between, processMessages never acknowledges unfinished work.
AckedWasWorked == acked \subseteq worked

\* A message somebody is working on is in the pending list, so that a crash
\* at any point of processMessages leaves a trace of it, unless Redis lost
\* its data or dropped the trimmed entry on an XCLAIM.
HeldIsTracked ==
  \A c \in Consumers : held[c] # 0 => held[c] \in Pending \cup dropped

\* Every message handed out by ">" is pending, acknowledged or dropped by
\* Redis, and only one of them: no race between XACK, XCLAIM and a crash
\* makes a message vanish or brings an acknowledged one back.
DeliveredIsAccounted ==
  /\ seen = Pending \cup acked \cup dropped
  /\ acked \cap (Pending \cup dropped) = {}
  /\ Pending \cap dropped = {}

\* An entry the stream still holds waits for delivery, is pending or was
\* acknowledged: only the cap and Redis itself take a message from the replicas.
\* None is skipped where the group is created late, created again or read by a
\* replica that crashes.
NothingIsLost == firstId..lastId \subseteq Outstanding \cup acked

\* What the properties above rest on, besides HandedOutIsBehind, which TypeOK
\* needs to be inductive: a message is handed out, tried, worked and acknowledged
\* in this order ...
HistoryNests == worked \subseteq tried /\ tried \subseteq seen

\* ... a replica holds a message exactly while it is in processMessages, and no
\* message is held twice ...
HandsAgree ==
  \A c \in Consumers :
    /\ held[c] # 0 <=> pc[c] \in {"work", "ack"}
    /\ held[c] # 0 => held[c] \in tried
    /\ pc[c] = "work" => held[c] \notin worked
    /\ pc[c] = "ack" => held[c] \in worked
    /\ \A d \in Consumers : held[c] # 0 /\ held[c] = held[d] => c = d

\* ... and in the backlog phase it owns nothing, its name being new.
NewNameOwnsNothing ==
  \A c \in Consumers :
    /\ phase[c] \in {"down", "init"} => pc[c] = "off"
    /\ pc[c] \in {"pending", "backlog"} => Owned(c) = {}

IdleIsPending == idle \subseteq Pending

\* The inductive invariant.
Inductive == /\ TypeOK
             /\ HandedOutIsBehind
             /\ HistoryNests
             /\ HandsAgree
             /\ NewNameOwnsNothing
             /\ IdleIsPending
             /\ AckedWasWorked
             /\ HeldIsTracked
             /\ DeliveredIsAccounted

\* The code processes each message at most once: no restart, no claim and no
\* replayed backlog hands a message to SimulateWork a second time.
NoSecondAttempt ==
  [][\A c \in Consumers : pc[c] # "work" /\ pc'[c] = "work"
                            => held'[c] \notin tried]_vars

\* The stream and its replicas implement a queue whose messages are taken in
\* order, worked on at most once, and settled only after the work is done.
StatusOf(i) == CASE i > lastId           -> "absent"
                 [] i \in acked          -> "settled"
                 [] i \in Pending        -> "taken"
                 [] i \in Undelivered    -> "queued"
                 [] OTHER                -> "lost"

BeingWorked == {i \in Ids : \E c \in Consumers : pc[c] = "work" /\ held[c] = i}

Queue == INSTANCE WorkQueue WITH status <- [i \in Ids |-> StatusOf(i)],
                                 busy   <- BeingWorked,
                                 done   <- worked

ImplementsQueue == Queue!Spec

-----------------------------------------------------------------------------
(* Liveness, under FairSpec.                                               *)

\* A message in the stream is eventually handed to a consumer, unless it is
\* trimmed or lost with Redis first.
EventuallyDelivered ==
  \A i \in Ids : (i \in Undelivered) ~> (i \notin Undelivered)

\* A stop signal ends the process even when the consuming goroutine is
\* blocked in a read that the cancellation does not interrupt.
StopEnds == \A c \in Consumers : (phase[c] = "drain") ~> (phase[c] = "down")

\* When Redis lost its data the group comes back: only InitConsumer creates
\* it, so every replica has to end and be started again.
GroupRestored == ~group ~> group

-----------------------------------------------------------------------------
(* What the documentation says of the program, and the code does not do.   *)

\* internal/consumer/consumer.go, Consume: "processes pending then new
\* messages".  When the backlog phase ends without an error, no message of a
\* consumer that is gone is left pending.
BacklogIsProcessed ==
  [][\A c \in Consumers : pc[c] = "backlog" /\ pc'[c] = "select"
                            => \A i \in Ids : owner[i] # Orphan]_vars

\* README.md: replicas "process Redis stream messages without loss (consumer
\* groups, pending claim recovery)": a message whose consumer is gone is claimed
\* by another.  claimStuckMessages runs between two reads only, and a read of a
\* quiet stream blocks for ever (Block: 0).
AbandonedIsClaimed == \A i \in Ids : (owner[i] = Orphan) ~> (owner[i] # Orphan)

\* The same sentence: a message a running consumer claimed after another one
\* had started on it is processed, or passes to somebody else.
ClaimedIsProcessed ==
  \A i \in Ids, c \in Consumers :
    (owner[i] = c /\ i \in tried /\ held[c] # i)
      ~> (held[c] = i \/ owner[i] # c)

\* README.md: "Graceful shutdown": a process told to stop is not ended by a
\* panic.
StopIsGraceful ==
  [][\A c \in Consumers : Cancelled(c) /\ phase'[c] = "down"
                            => exit'[c] # "panic"]_vars
=============================================================================
