# kubetrainer in TLA+

Specifications of [kubetrainer](../src/README.md), a Go program with two modes that share a
Redis stream: a web server that publishes messages, and consumer replicas that work on them.
The modules here are translated from the code (`src/cmd`, `src/internal`), model-checked with
TLC on small instances, and proved about with TLAPS for all values of their constants.

- [The system](#the-system)
- [The modules](#the-modules)
- [What the runs check](#what-the-runs-check)
- [Bounds](#bounds)
- [Fairness](#fairness)
- [What is proved](#what-is-proved)
- [Where the code differs from its documentation](#where-the-code-differs-from-its-documentation)
- [What is not modelled](#what-is-not-modelled)
- [Plan](#plan)

## The system

| Component | Code | State | Operations |
|---|---|---|---|
| Consumer replicas | `internal/consumer/consumer.go`, `cmd/main.go` 79-146 | in memory: the message in `processMessages`, `idsToClaim`, the ticker, the context; in Redis: the consumer name's share of the pending list | `InitConsumer`, `Consume` (backlog, read, work, acknowledge, claim), `consumeLoop`, `waitForConsumerShutdown` |
| SimulateWork | `consumer.go` 183-273 | two goroutines, an `io.Pipe`, `errChan`, `hashChan` | generate, hash, collect, cancel |
| Producer and its handlers | `internal/producer/producer.go`, `internal/html/handlers` | per request: what is left to publish, the halves of the count | `PublishTime`, `Index`, `Publish`, `GetPendingMessagesCount` |
| Redis stream (external) | not in the repository | stream, group, pending list | XADD, XGROUP CREATE, XREADGROUP, XACK, XPENDING, XCLAIM, XRANGE, XLEN, XINFO |
| Probe state and health checks | `handlers.go` 30-132 | two atomic booleans | toggles, `/liveness`, `/readiness`, `IsDBConnected`, `IsRedisConnected` |
| Web server lifecycle | `cmd/main.go` 41-62, 148-203, `internal/server` | listener, `serverErr`, `stopChan`, requests in flight | `run`, `runWebServer`, `Start`, `Shutdown` |
| Start-up and database | `cmd/init.go`, `internal/database` | the polling goroutine, the handles it opens, `chDBReady`, what is migrated | `initDB`, `WaitForDB`, `NewPostgres`, `InitDB` |
| Configuration | `pkg/config/config.go` | none | load, `IsRedisConfig`, `IsDBConfig`, `DefaultDataSize` |
| Views, assets, packaging | `internal/html/views`, `Dockerfile`, `deployment` | none | |

**How they interact.** The web server and the replicas never speak to each other: everything
goes through the stream. A request handler appends with XADD (and Redis trims the stream to
1000 entries), and counts the outstanding messages with three further commands. A replica
takes new messages with XREADGROUP under a name of its own, works on each with `SimulateWork`,
and acknowledges it with XACK; once a minute it asks for the oldest pending entries and claims
those under other names with XCLAIM (whatever their age, see [below](#where-the-code-differs-from-its-documentation)). Inside a replica the main goroutine waits
for a signal and cancels the context of the consuming goroutine; inside `SimulateWork` three
goroutines meet at a pipe and two channels. A web process first waits for its database, with a polling
goroutine of its own, and applies the migrations; it then serves in one goroutine and waits in another for
a stop or for the end of the first; each request has its own, and the two toggles are all that requests share in memory.
Web processes meet in the database when they migrate at the same time.

**What is hard.** Every Redis command can fail, can take effect with its reply lost, and
runs between the commands of everybody else; the reply of one command is used in a later
one (scan and claim, XINFO and XRANGE and XPENDING). A replica can be killed between any two
steps, and leaves its entries under a name nobody will use again. Redis can come back empty
(`deployment/docker-compose.yml` gives it no volume). The read of new messages blocks without
limit and does not notice a cancellation. A database may refuse, hang or go away between any two
steps of a start, and the pings of `NewPostgres` and `IsConnected` have no deadline. A stop signal may come
before anything that handles it runs. The cap trims entries whether or not they were
delivered.

**What makes each part correct.**

- *Consumer replicas*: no message is lost track of or acknowledged unfinished, whatever fails
  when, although claims take messages from replicas that are working on them; a message is not handed
  out twice as new; a stop ends the process; a lost group comes back.
- *SimulateWork*: one answer; a checksum covers all the data, a failure has a cause, no goroutine waits for what cannot come.
- *Producer*: a page without an error stands for all its messages; the count misses nothing and
  its error is bounded by what happened during the request.
- *The whole*: it is a queue whatever the web server publishes; a page that shows 0, without an error, is right about all
  that was published before; without faults every message that stays in the stream is settled.
- *Probes*: a toggle that no other one overtakes takes effect, as long as none is overtaken they add up, and a probe fails only if it was toggled.
- *Web server*: it ends without an error only when it was stopped and has answered what it accepted; a
  stop ends it, whenever it comes.
- *Start-up*: a process goes into operation with its table and nothing left over; a wait ends; a failure has a
  cause, in the DSN, the database or another process; of processes that start together all get ready if their DSN is good.

## The modules

```
RedisStream           the stream and its commands (external)
  Consumer            the replicas                  -- implements WorkQueue
    ConsumerProofs    inductive invariant, safety
      ConsumerImplements   the refinement
  Producer            requests that publish and count
    ProducerProofs    inductive invariant, the count's bounds
  KubeTrainer         Consumer and Producer on one stream
    KubeTrainerProofs each half is the other's environment; what both say together
WorkQueue             the abstract queue
WorkJob               the abstract job
SimulateWork          the work on one message     -- implements WorkJob
  SimulateWorkProofs  inductive invariant, safety
Startup               web processes that start on one database
  StartupProofs       inductive invariant, safety
WebServer             one web process, from start to end
  WebServerProofs     inductive invariant, safety
MC...                 instances for TLC
```

### RedisStream

One stream and one group. Ids are 1, 2, 3, ... in the order of XADD; since nothing deletes
an entry, the stream is an interval `firstId..lastId`. The pending list is the function
`owner`, and `idle` is the set of pending entries that have been idle for a millisecond or more. That is all the code ever
asks of an idle time: its `minIdleTimeMs`, 60_000, is used as a `time.Duration` (consumer.go 148, 159, 171) and so
is 60 microseconds. The client counts in milliseconds and sends it as IDLE 1 in XPENDING, where it rounds up, and as min-idle 0
in XCLAIM, where it rounds down. Each command is an action
without the error paths, which belong to its callers. Some facts about Redis 7 that matter:
XADD trims exactly (the code does not ask for `~`), XACK of an id that is not pending is no error,
XCLAIM without FORCE ignores ids that are no longer pending (and, with min-idle 0, takes all others) and removes
from the pending list those that were trimmed, and XREADGROUP with an id shows only the
caller's own entries.

Names come from `xid.New()` and are never repeated. So a name is either in use by exactly one
replica, and is then represented by the replica, or it is out of use for ever, and then by
`Orphan`; `XRename` is the moment a replica moves on to a new name. `seen`, `acked` and `dropped`
are history for the properties.

### Consumer

`phase[c]` is the main goroutine and `pc[c]` the consuming one, named after the place in the
code; the comment at the head of the module lists the places. One action stands for the code
between two points at which another process can be seen:

| Actions | Code |
|---|---|
| `Start`, `InitConsumer`, `InitFails` | `runConsumer` up to `wg.Go` (main.go 79-111) |
| `Terminate`, `DrainDone`, `DrainTimeout`, `Kill` | `<-stopChan` and `waitForConsumerShutdown` (113-146), and a process that is simply gone |
| `LoopExit`, `LoopConsume` | `consumeLoop` (118-129); the start of `Consume` and its new name (58-67) |
| `XPending`, `XPendingPanics`, `ReadBacklog` | `processPendingBacklog` (85-106); a failed XPENDING leaves a nil pointer that line 87 dereferences |
| `SelectDone`, `SelectTick`, `SelectDefault` | the select of `Consume` (69-82) |
| `ReadNew`, `ReadReplyLost`, `ReadFails` | `readAndProcessNew` (108-126) |
| `WorkDone`, `WorkFails`, `Ack`, `AckFails` | `processMessages` (128-141) |
| `Scan`, `Claim`, `SweepFails` | `claimStuckMessages` (143-181) |
| `Tick` | the ticker, whose channel holds one tick |

What the client library does is taken from how the code calls it: a command issued under
a cancelled context fails at once; a read that is already blocked is not interrupted; a
lost reply may make the library send the command again or give up. The backlog read is
modelled in full, including the branch that would process an entry; that the branch is never taken
is a fact about names (`NewNameOwnsNothing`), not an omission. `SimulateWork` is one step here,
with the outcomes that module SimulateWork establishes: a checksum if the size is positive,
an error if it is not or the context is cancelled (its `FailureHasCause`).

### SimulateWork

One call with the three goroutines. The random bytes are a count; the checksum is the number
of bytes it covers. A `Write` and a `Read` of the pipe meet in one step (`Transfer`), because `io.Copy` reads with a
buffer as large as the generator's. A goroutine blocked in the pipe may still complete when the other
end is being closed. The select of the caller is a choice between the actions that are enabled.

### Producer

A request is a goroutine of the web server with its place `at[r]`; each Redis command is one
step. What consumers do to the stream meanwhile is `Elsewhere`: any command of theirs at any
time. `CountParam` is what `strconv.Atoi` and the lower bound make of the path; `Show` is the
rendering of a page, of which only the number and the error are kept.

### KubeTrainer

Both halves on one stream. `Consumer` was specified with arrivals as its environment and
`Producer` with commands issued elsewhere; the properties `ConsumersAreServed == C!Spec` and
`RequestsAreServed == P!Spec` say that the real other half stays within that, so that the safety
results of each half are results about the whole. `SystemImplementsQueue` is the refinement of WorkQueue, over the variables
of the whole; it is proved and has no run of its own, since `consumer_safety` checks the refinement. `ZeroMeansSettled` needs both halves: what a count sees at three moments is on the side of the requests, what becomes of a
message in between on that of the replicas. It says nothing of a count that failed, which shows 0 as well (handlers.go 60).

### Startup

Any number of processes in `initDB`, each with its main goroutine (`phase[r]`) and the one `WaitForDB`
starts (`poll[r]`), and the database, which answers, refuses or hangs.

| Actions | Code |
|---|---|
| `PollOpen`, `PollDone`, `PollDefault`, `PingOK`, `PingFails`, `PollWake`, `PollClose`, `PollSignal` | the goroutine of `WaitForDB` (database.go 70-90); `PollDefault` includes the loop that goes round without a pause when `sql.Open` fails |
| `WaitTimesOut`, `WaitReturns`, `Expire` | the select of `WaitForDB` (92-97) and the deadline of its context; when both channels are ready both actions are enabled |
| `Begin`, `ParseFails` | the parsing of the DSN by `WaitForDB` (65-68), and, after the ping of `NewPostgres`, of the URI that `InitDB` has made of it for dbmate (102-105) |
| `Connect`, `ConnectFails` | `NewPostgres` (45-60), and the second call of `WaitForDB`; neither is enabled while the database hangs, because the ping has no deadline |
| `Find`, `FindFails`, `Check` | `FindMigrations`, and the look-up of what is applied, with which `CreateAndMigrate` begins (116-124) |
| `LookForTable`, `Apply`, `MigrateFails`, `CommitUnknown` | the rest of `CreateAndMigrate` (124-126): dbmate's own table is looked for and created, and the migration is applied in a transaction |
| `MigrateAstray` | the same behind another URL (`genDbmateURI`, 152-160) |
| `Restart`, `Crash`, `DatabaseChanges` | the orchestrator and the server |

`open[r]` are the `sql.DB` handles of a process. `CreateAndMigrate` is taken from the migration it runs
(`internal/database/db/migrations`), whose table must not exist: of two transactions that both found nothing applied, one fails.
Before it comes dbmate's table of applied versions (`versions`): CREATE TABLE IF NOT EXISTS of PostgreSQL looks for the table and creates it in two
steps, and of two processes that both found none one fails here already.

`dsn` is what becomes of the configured DSN. `WaitForDB` and `NewPostgres` use the connection string of the DSN library; `InitDB` puts the URI for dbmate together from
the parts, without escaping them and without any parameter but `sslmode`. So the two may mean the same (`good`), url.Parse may refuse the second
(`unparsable`, a `%` or a blank in the password), or it may lead elsewhere (`astray`, a `/`, `#` or `?` in the password, or a parameter that selected the schema);
what dbmate finds there is not in this database, and it may or may not be able to migrate it. `malformed` is a DSN that the library refuses, `refused` one that `sql.Open` refuses,
which the loop of `WaitForDB` does not report (77).
`blip` and `raced` are history: whether the database was away, or another process created a table, during this start.

### WebServer

One web process. `phase` is the main goroutine, `server` the one that calls `Start`, `at[r]` that of a
request.

| Actions | Code |
|---|---|
| `LoadConfig`, `LoadFails`, `InitOK`, `InitFails` | `run` (main.go 50-61), `buildWebServerOptions`, `NewWebServer` and the start of the serving goroutine (149-164) |
| `ReceiveServerErr`, `ReceiveStop` | the select of `runWebServer` (165-172) |
| `ShutdownOK`, `ShutdownTimeout` | `Shutdown` (174-180); `Exit` is the end of the process with all that runs in it |
| `Listen`, `ServeFails`, `ServerCloses` | `ListenAndServe` and what the goroutine makes of its error (157-163) |
| `Accept`, `ToggleLoad`, `ToggleStore`, `Probe`, `Page` | the routes (routes.go) and their handlers: a toggle is a load and a store, and its page follows |
| `Signal` | package signal: before `signal.Notify` a signal ends the process, afterwards it goes to `stopChan` or is dropped when that is full |

A toggle is *overtaken* when another request toggles the same probe between its load and its store (`overtaken`, history): then it
stores the complement of a state that is no longer there. Nothing else can make a toggle ineffective.

What a page does on its way (publishing and counting) is module Producer, and how long it takes depends on Redis and
the database: `Page` may happen or not. The initialisation is one step here, with the outcomes that module
Startup has. The configuration is a record of what decides: whether it is from a file, which settings
are present, and the stream's name in it and in the environment. The two goroutines may both have something for the select,
and the accept loop may take a connection after the main goroutine has decided to shut down.

### WorkQueue

The promise: a queue, first in first out, whose messages are taken, worked on at most once,
and settled only after the work; some may vanish on the way (trimmed, or lost with Redis). It has no
replicas, names, claims or commands. The work on a message starts when it is taken or never: that is where "at
most once" is said. The mapping is at `Queue` in module Consumer: the status of a message is read off
the acknowledgements, the pending list and the group's position, and the messages being worked on are those some
replica holds in `SimulateWork`.

### WorkJob

What `Consume` expects of `SimulateWork`: one answer, a hash of all the bytes if the size is positive, an error if it is not, and possibly no
result if it was cancelled. The mapping is by name, at `Job` in module SimulateWork; every step of the goroutines but the
last one of the caller and the cancellation is a stutter. It is what `WorkDone` and `WorkFails` of module Consumer stand for.

## What the runs check

| Run | Question | Answer |
|---|---|---|
| `consumer_safety` | can an interleaving of reads, work, acknowledgements, claims, a crash, a lost reply or an empty Redis lose track of a message, acknowledge unfinished work, hand a message out twice, or skip one? do replicas and stream implement the queue? | it cannot; they do |
| `consumer_liveness` | is a message delivered, does a stop end, does a lost group come back? | yes, under the fairness below; the last one only because an XPENDING without a group panics and the pod is restarted |
| `simulate_work` | can the checksum be incomplete, can an error come from the clean-up, can a goroutine wait for what cannot come or be left behind? is it the job of WorkJob? | no, and it is; the room of two in `errChan` is exactly what is needed |
| `producer_safety` | does a page without an error stand for all its messages; how wrong can the count be? | it does; the count misses nothing that was outstanding all the time and counts twice at most what was delivered in between |
| `kubetrainer` | is each half an admissible environment of the other? is a page that shows 0 right? is every message settled? | with no faults in the instance (see [Bounds](#bounds)) it is, and so is the page; every one that the cap leaves in the stream, and every trimmed one that was delivered is worked on |
| `startup` | can a process go into operation without its table or with a handle left over, fail without a cause in its DSN, the database or the other process, wait for an answer that cannot come or past its deadline, or never get ready? | it cannot, although both may migrate at the same time, and the database may do anything; getting ready, and having the table, needs a DSN that survives its conversion for dbmate |
| `web_server` | can a process end well with a request cut off, or because its listener failed? can a stop or the server's error be lost? can a toggle touch the other probe or be lost? | no, short of toggles that are overtaken |
| `consumer_backlog`, `consumer_quiet_claim`, `consumer_claimed`, `consumer_stop`, `producer_count` | does the code do what its documentation says? | no, see below |

In each module the conjunction `Inductive` is the invariant that the proofs induct over; it contains the type invariant `TypeOK`, so the runs list
`Inductive` only. The invariants and action properties are stated, with the code they are about, at the end of
each module. For each of them the module also holds a changed version of one action, marked `MUTANT`: a
mistake one could make at that place of the code. No specification uses it. With the
mutant in place of the action, TLC finds the property violated; `PROJECT.json` says which mutant
belongs to which property.

## Bounds

- `MaxId`, the number of messages ever published: 3 with a cap of 2 in the safety runs, so that
  there are messages before, in and behind the pending list and the cap trims undelivered and pending
  ones, and 3 with a cap of 2 in `kubetrainer`. 2 for liveness (cap 2).
- Two replicas: one that fails or is slow and one that claims from it. Two idle replicas differ from three
  in nothing that is modelled; the proofs hold for any number.
- `MaxFaults`, faults of the environment (a kill, a signal, a failed call, a lost reply, a Redis that lost its
  data): one at any place. The safety properties are proved without this bound; a run with two faults
  (1.4 million states) was also made. `Terminate` counts as a fault, so that a run has finitely many stops.
  `kubetrainer` has none, because `EveryMessageIsSettled` is about a system without faults: that replicas die while a page counts is in
  the theorems `ZeroMeansSettledHolds`, `ConsumersAreServedHolds` and `RequestsAreServedHolds`, and an instance with one fault (2.3 million states) was checked for these three as well.
- `MaxMishaps`, failed or repeated commands of the requests: one, and none in `kubetrainer`.
- `StuckClaimBatch` 2 of 3 messages for safety, so that a batch is cut off and holds more than one id.
- Sizes -1 to 7 with a buffer of 2: invalid, shorter than the buffer, exact multiples and remainders.
- Two web processes start together, one of them may be killed (`MaxCrashes`); the database changes as often as it likes, and
  a failed process starts again without limit. The DSN is any of the five kinds.
- Three requests to one web process: two whose toggles overlap and one that probes or waits. Two signals and
  room for one (`stopChanBufferSize`, 5 in the code), so that a signal is dropped. Five configurations: nothing; everything from
  the environment; a file with the same name, without a name, and with another name, in the environment.
- In the liveness runs there is no symmetry and no state constraint.

`CHECK_DEADLOCK FALSE` stands where the system rests: all published, every replica blocked in
a read of an empty stream (that is what `Block: 0` does).

## Fairness

`Consumer!FairSpec` assumes of each replica:

- its consuming goroutine is scheduled: weak fairness of `LoopStep`, the steps nothing can prevent, together
  with the errors it is certain to meet (`ErrorReturn`: a cancelled context or a missing group);
- its main goroutine is scheduled and its process is started again when it ended (`MainStep`): the
  restart is what Kubernetes does to a pod;
- its ticker goes on, and an entry nobody touches becomes idle in time, which here is a millisecond.

No fault and no signal is assumed to happen, and none is excluded. A tick falls due only while the
goroutine reads or works (`Tick`): between two ticks lies a minute, and every other step is far
shorter. `DrainTimeout` is part of `MainStep`, being `time.After`. In SimulateWork the three
goroutines are scheduled, and the cancellation is not assumed.

`Startup!FairSpec` assumes that both goroutines of a process are scheduled and that a failed process is started again. Nothing is
assumed of the database. That a deadline passes is a premise of `WaitEnds` alone, so that `EventuallyReady` cannot rest on it: there the premise
is that the server answers from some time on and that thirty seconds are then enough.

`WebServer!FairSpec` assumes that the main and the serving goroutine are scheduled, and that the deadline of
`Shutdown` passes. It does not assume that the initialisation ends (the ping of `NewPostgres` may last for ever), that a request
ends, that a listener fails, or that a signal is sent; so `StopEnds` starts counting when the initialisation is over.

`KubeTrainer!FairSpec` assumes the same of the goroutines on both sides, but not that an
entry becomes idle: `EveryMessageIsSettled` must not need it.

## What is proved

| Theorem | Statement |
|---|---|
| `ConsumerProofs!InductiveHolds` | `Spec => []Inductive` |
| `ConsumerProofs!TypeCorrect`, `AckedWasWorkedHolds`, `HeldIsTrackedHolds`, `DeliveredIsAccountedHolds`, `NothingIsLostHolds` | the invariants of `consumer_safety` |
| `ConsumerProofs!NoSecondAttemptHolds` | its action property |
| `ConsumerImplements!QueueImplemented` | `Spec => ImplementsQueue` |
| `SimulateWorkProofs!InductiveHolds`, `TypeCorrect`, `ChecksumIsCompleteHolds`, `FailureHasCauseHolds`, `NobodyIsStuckHolds` | the invariants of `simulate_work`; the last one for a channel with room for two |
| `SimulateWorkProofs!JobImplemented` | `Spec => ImplementsJob` |
| `ProducerProofs!InductiveHolds`, `TypeCorrect`, `PublishedAsAskedHolds`, `CountMissesNothingHolds`, `CountErrorIsBoundedHolds` | the properties of `producer_safety` |
| `KubeTrainerProofs!ConsumersAreServedHolds`, `RequestsAreServedHolds` | `Spec => C!Spec` and `Spec => P!Spec`, for the whole system |
| `KubeTrainerProofs!ReplicasStaySound`, `RequestsStaySound` | the invariants of the replicas and of the requests in the whole system |
| `KubeTrainerProofs!SystemImplementsQueueHolds`, `ZeroMeansSettledHolds` | `Spec => SystemImplementsQueue`, `Spec => ZeroMeansSettled` |
| `StartupProofs!InductiveHolds`, `TypeCorrect`, `ReadyIsCleanHolds`, `WaitIsAnsweredHolds`, `FailureHasCauseHolds` | the invariants of `startup`; `Inductive` includes that the migration is committed once, and after dbmate's table exists |
| `WebServerProofs!InductiveHolds`, `TypeCorrect`, `GracefulMeansAnsweredHolds`, `OKMeansStoppedHolds`, `MainIsWokenHolds`, `TogglesAddUpHolds`, `ProbeFailsByToggleHolds` | the invariants of `web_server` |
| `WebServerProofs!ToggleTakesEffectHolds` | its action property |

**Assumptions.** Only the named ones of the modules: the two special owners are no replicas and differ
(`OwnersAssumption`), the bounds are natural numbers (`BoundsAssumption`), the cap and the batch are positive and the data size
is an integer (`ConsumerAssumption`), the buffer is positive (`SimulateWorkAssumption`), configurations are records of their type in which, without a file, the
stream's name is that of the environment (`WebServerAssumption`). `Consumers` may be any set. One theorem has a hypothesis of its own: `NobodyIsStuckHolds` assumes
`PipeChannelBuffer >= 2`, which is what the code gives `errChan` (consumer.go 22, 229); with room for one the property is false, as its mutant shows.

**Consumer: the argument.** `DeliveredIsAccounted` is not inductive alone. If a message could be held
by two replicas, or be held after somebody acknowledged it, an XACK could remove what an XCLAIM had just
moved. The strengthening is in five parts. `HandedOutIsBehind`: what `>` has handed out is behind the group's
position, or was trimmed before Redis lost the position; so an id that `>` returns is fresh (lemma `NextNewIsFresh`),
and it is here that the loss of the data needs care, because it resets the position to 0 but not the ids.
`HistoryNests`: handed out, tried, worked, acknowledged, in this order. `HandsAgree`: a replica
holds a message exactly while it is in `processMessages`, has finished it exactly when it is about to acknowledge, and
nobody else holds it. `NewNameOwnsNothing`: in the backlog phase the name is new and owns nothing,
so that `ReadBacklog` never starts work. `IdleIsPending`. Each step is a lemma, grouped by goroutine.
`NoSecondAttempt` then follows since only `ReadNew` starts work and its id is fresh. `NothingIsLost` is an invariant on top of `Inductive`: of the entries the stream holds a step
hands out only the next one (`HandedOutIsBehind`), only an acknowledgement takes one from the pending list, and a group is created at 0.

**The refinement.** Lemma `StatusIs` shows that the five mapped statuses exclude each other (this needs
`Inductive`). Then `Arrive` is `Publish`, both forms of XREADGROUP `>` are `Take` (with the work or, when the reply is lost, without),
`WorkDone` is `Finish` (the message may be lost by then), a failure of the work and a death in the middle of it are `Abandon`
(lemma `LeavesWork`: nobody else works on the same message), XACK is `Settle` or, after Redis dropped the entry, a stutter, `LoseData` and a claim of trimmed entries are `Vanish`, and the
other steps are stutters.

**SimulateWork: the argument.** The pipe is closed by nobody but the generator as long as the call
has not returned (`PipeIsOpen`), `nil` is in `errChan` only after the last byte (`ErrorsAreCaused`, `AllWritten`), and all that
is written is hashed (`DataIsOrdered`). So the checksum of `hashChan` covers everything by the time
the caller waits for it, and an error in `errChan` before the call returns can only be the invalid size.
`NobodyIsStuck` rests on `ReportsArrive`: each of the two goroutines reports at most once, so that room for two is enough whoever reads; the generator reports before it
closes the pipe; a caller that has left has closed the reading end. For `JobImplemented` each way the caller returns is `Return`, with the three invariants above saying that the
answer is one the job may give.

**Producer: the argument.** `Inductive` has three parts for each request. `LoopKeepsCount`: what is added and what is left
together make what was asked, up to the mishaps. `SnapshotStaysValid`: what was outstanding at XINFO GROUPS, and what had been
delivered then, stay comparable with the stream. `HalfOfSum`: the first half of the count covers what is still undelivered of that time, and is covered
by what was not delivered then. At XPENDING the second half adds the pending entries, of which those delivered before were outstanding
already; cardinality lemmas turn the inclusions into the two bounds. `XLen` needs `lastID = 0`, that is, that the
branch was taken on what XINFO said.

**KubeTrainer: the argument.** A step of a request is an arrival or nothing to the replicas. So the system implements
`C!Spec`, and the theorems of ConsumerProofs apply (the `Same...` lemmas identify the two instances of module Consumer, one in
KubeTrainer and one under its proofs; likewise for Producer and WorkQueue). The other direction needs them: that a replica's step is a command `Producer` allows for is true only
because the backlog phase finds nothing (`NewNameOwnsNothing`), because a claim's ids of an earlier scan are cut down to those still pending, and because an
XACK of an entry that is no longer pending changes nothing. With it the theorems of ProducerProofs apply to the whole system,
too (`RequestsStaySound`), and `ZeroMeansSettled` takes one fact from each side. The requests: a sum of 0 means that nothing is pending and, since `snap[r].out` still
contains what is undelivered of the time of XINFO GROUPS (`SnapshotStaysValid`), that nothing of that time is undelivered (lemma `ZeroLeavesNothing`). The replicas: what the stream
holds and is neither waiting nor pending was acknowledged (`NothingIsLost`), and what was acknowledged was worked on (`AckedWasWorked`).

**Startup: the argument.** `HandlesAgree` says which handle a process has at which place; it is the order of close and signal in the goroutine
that makes it preserved by `WaitReturns`. From it `WaitIsAnswered`: the goroutine ends only by its signal, or because the deadline has passed. `MigrationAgrees`: who is about to create a table that is already there has been overtaken, by the race for dbmate's own table or by that for the migration, only a DSN that leads
astray goes past them, and who applies the migration has dbmate's table; `MigratedOnce`; and `CausesAreSeen`: as long as
the database is away in a start, the history knows it. `FailureHasCause` follows step by step: an error has one of these causes, or is that of a DSN that one of the two parsers refuses.

**WebServer: the argument.** `ProcessAgrees` ties the goroutines together: a nil from the server, or a shutdown, means
that a stop came; nothing is cut off before the end. `MainIsWoken`: a signal stays in `stopChan` until main takes it, since
a full channel drops only further ones. `LoadIsFresh`: a toggle that is not overtaken stores the complement of the state it
will replace; `ToggleTakesEffect` is that fact at the moment of the store. With `StoresOnce` each store adds a new request to a finite set, so that its parity changes as the state does.

**Only model-checked.** All liveness (`EventuallyDelivered`, `StopEnds` of both modules, `GroupRestored`, `NothingLeaks` (of which `NobodyIsStuck` is the safety half, and proved), `EveryMessageIsSettled`, `WaitEnds`,
`EventuallyReady`): fairness and ENABLED are outside what the prover does. Safety is proved for every property of a passing run.

## Where the code differs from its documentation

Each of these is a run that TLC must find violated, with the documented sentence as the property.

- **The backlog is never processed** (`consumer_backlog`). `Consume` "processes pending then new messages"
  (consumer.go:58), but it asks for the entries of the name it invented one line before (60), which has none.
- **A quiet stream recovers nothing** (`consumer_quiet_claim`). README.md:27 promises processing "without loss (consumer groups, pending
  claim recovery)". Claims happen between two reads, and a read blocks until a message comes (114).
- **A claimed message is not processed** (`consumer_claimed`). The claimed messages are printed (177), and stay pending
  under the claimer. With the two above: a message is attempted at most once (this is `NoSecondAttempt`, and proved), while
  README.md:14 speaks of at-least-once processing.
- **A stop can end in a panic** (`consumer_stop`). `XPending(...).Val()` is nil when the context is already
  cancelled, and line 87 dereferences it. The same panic is what brings a lost group back (`GroupRestored`).
- **The count can count twice** (`producer_count`). Its halves are read by different commands; a message delivered in between is in both.

More disagreements are visible without a run:

- `runConsumer` hands over the configured data size without `DefaultDataSize` (main.go:98; unset, it is 0, and `SimulateWork` refuses it).
- `NewProducer` ignores the configured cap (producer.go:33).
- `errStreamWriteFailed`, "an event has not been written", is also returned when only the reply was lost (producer.go:52; the
  action `PublishFails`).
- `minIdleTimeMs` is 60_000 "ms" by its name, but its type is that of the fields it is given to, `time.Duration` (consumer.go 23, 148, 159, 171): 60 microseconds. A sweep
  does not wait for a message to be stuck; it takes whatever is pending under other names, also what a running replica is working on. Module Consumer
  models this, and the safety properties hold nevertheless (an XACK needs no ownership).
- The URI for dbmate is put together without escaping user and password (database.go 152-160): a DSN that `WaitForDB` and `NewPostgres` connect with may be refused by
  url.Parse, or lead dbmate to another database (module Startup, `ParseFails` and `MigrateAstray`).
- README.md:74 offers a YAML file *or* the environment, but stream and group are always taken from the environment (main.go:96, 97, 192, server.go:67):
  with a file alone the server publishes to, and the consumers read from, a stream without a name (`StreamName` of module WebServer).
- The YAML keys and three of the variables that README.md:78-99 lists are not those of config.go 20-42: the keys there are `dsn`, `maxstreamlength`, `streamname`, `streamgroup` and
  `data_size_bytes`, the variables `DB_DSN`, `REDIS_DSN` and `PRODUCER_DATA_SIZE_BYTES` (as in `deployment/docker-compose.yml`).
- `initDB` waits thirty seconds, but the ping of `NewPostgres` in its middle has no deadline (database.go:57).
- `deployment/docker-compose.yml` kills a container a minute after the stop signal, half of the consumer's drain (main.go:24); to the model this
  is a `Kill`.
- A toggle that another one overtakes may count for nothing (handlers.go 44, 50), though each is an operation on an `atomic.Bool`.

## What is not modelled

- Parsing of YAML and environment variables, and `DefaultDataSize`, which only tests call.
- Rendering, assets, logging, packaging: no state. The largest files under `src` are an embedded copy of Bootstrap 5.2.3 (`internal/html/views/bootstrap-5.2.3-dist`),
  a third-party library that the server only hands out and that holds none of this program's logic.
- Redis itself beyond the commands used; its replication, eviction and the idle time as a number.
- The hash and the random data.
- PostgreSQL beyond a committed migration (it does not lose it) and dbmate's own table, and dbmate's creation of the database, which the ping before has shown to exist.
- Sockets: keep-alive, header timeouts, and clients that go away. A request is accepted, answered or cut off.
- A loop of `PublishTime` with as many rounds as the largest int: outside any bound.

`PROJECT.json` lists the hazards of the code by line, with the properties that cover each, or
the reason why none does.

## Plan

The order followed was: RedisStream, Consumer and its proofs; SimulateWork; WorkQueue and the refinement; Producer; KubeTrainer;
Startup; WebServer; the proofs about the last four. What could follow:

1. A composition of WebServer with the requests of Producer, to say which messages a request has published when the deadline of `Shutdown`
   cuts it off; now each module states its half.
2. Several groups or streams, should the code come to use them.
