----------------------------- MODULE KubeTrainer -----------------------------
(***************************************************************************)
(* The deployed system: one web server that publishes and counts (module   *)
(* Producer), any number of consumer replicas (module Consumer) and the    *)
(* Redis stream they share.  The processes have nothing else in common, so *)
(* a step of the system is a step of one of them or of Redis.              *)
(*                                                                         *)
(* Each half was specified with the other as its environment: messages     *)
(* that arrive, commands that are issued elsewhere.  Here both are the     *)
(* real ones, and the runs check that the assumed environments allow all   *)
(* that happens.                                                           *)
(***************************************************************************)
EXTENDS RedisStream

CONSTANTS DataSizeBytes, StuckClaimBatch,
          Requests, Counts, MaxMishaps,
          DefaultMaxStreamLength

ASSUME KubeTrainerAssumption == /\ DataSizeBytes \in Int
                                /\ DefaultMaxStreamLength \in Nat \ {0}
                                /\ StuckClaimBatch \in Nat \ {0}
                                /\ Counts \subseteq Int
                                /\ MaxMishaps \in Nat

VARIABLES phase, pc, held, tick, scan, exit, tried, worked,
          rdb, at, left, lastID, undelivered, count, err, mishaps,
          asked, added, snap

C == INSTANCE Consumer
P == INSTANCE Producer

consVars == <<phase, pc, held, tick, scan, exit, tried, worked>>
webVars  == <<rdb, at, left, lastID, undelivered, count, err, mishaps,
              asked, added, snap>>
vars     == <<redisVars, consVars, webVars>>

Init == C!Init /\ P!Init

\* A request of the web server takes a step.
WebStep == /\ \E r \in Requests : P!PublishStep(r) \/ P!CountStep(r)
           /\ UNCHANGED consVars

\* A consumer replica takes a step.
ConsumerStep ==
  /\ \E c \in Consumers :
       C!MainStep(c) \/ C!LoopStep(c) \/ C!ErrorStep(c) \/ C!Tick(c)
  /\ UNCHANGED webVars

\* Redis restarts without its data, or time passes on a pending entry: what
\* the replicas take for their environment, but for the messages that arrive.
RedisStep == C!Environment /\ UNCHANGED <<lastId, webVars>>

Next == WebStep \/ ConsumerStep \/ RedisStep

Spec == Init /\ [][Next]_vars

Fairness == /\ \A r \in Requests : WF_vars((P!PublishStep(r) \/ P!CountStep(r))
                                             /\ UNCHANGED consVars)
            /\ \A c \in Consumers :
                 /\ WF_vars((C!LoopStep(c) \/ C!ErrorReturn(c)) /\ UNCHANGED webVars)
                 /\ WF_vars(C!MainStep(c) /\ UNCHANGED webVars)
                 /\ WF_vars(C!Tick(c) /\ UNCHANGED webVars)

FairSpec == Spec /\ Fairness

-----------------------------------------------------------------------------
(* Properties.                                                             *)

\* To the consumers, the web server is the arrival of messages: whatever it
\* publishes, retries or counts, the replicas and the stream keep the behaviour
\* that module Consumer describes.
ConsumersAreServed == C!Spec

\* To the web server, the consumers are commands issued elsewhere: none of the
\* things they do to the stream is outside what module Producer allows for.
RequestsAreServed == P!Spec

\* Whatever the web server publishes, stream and replicas implement the queue
\* of module WorkQueue.
SystemImplementsQueue == C!ImplementsQueue

\* A page that shows 0, its count having met no error, is right about all that was
\* published when the count began: each message is worked on and acknowledged, or
\* the cap or Redis has removed it.  The three commands of the count see the stream
\* at three moments, while replicas read, acknowledge and claim between them; that
\* they may also die is in the theorem and, MaxFaults being 0, not in the run.
ZeroMeansSettled ==
  [][\A r \in Requests :
       P!Counted(r) /\ count'[r] = 0
         => \A i \in 1..snap[r].last :
              i \in acked \cap worked \/ i \in dropped \/ i < firstId]_vars

\* When nothing fails, every message is worked on and acknowledged, unless the
\* cap trims it from the stream: then it may go unread, or an XCLAIM may drop it
\* from the pending list while its work completes.  No interleaving of
\* publishing, claiming and working leaves it pending for ever.
EveryMessageIsSettled ==
  \A i \in Ids :
    (i =< lastId) ~> (i \in acked \/ (i < firstId /\ (i \notin seen \/ i \in worked)))
=============================================================================
