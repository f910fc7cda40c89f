---------------------------- MODULE StartupProofs ----------------------------
(***************************************************************************)
(* Proofs about module Startup, for every number of processes and kills.   *)
(***************************************************************************)
EXTENDS Startup, TLAPS

USE StartupAssumption DEF StartupAssumption

\* What is to be shown of one process after a step.
ProcessIsSound(r) == /\ HandlesAgree(r) /\ MigrationAgrees(r) /\ CausesAreSeen(r)
                     /\ err[r] = "parse" => dsn \in {"malformed", "unparsable"}
                     /\ err[r] = "ping" => blip[r]
                     /\ err[r] = "find" => blip[r] \/ dsn = "astray"
                     /\ err[r] = "migrate" => blip[r] \/ raced[r] \/ dsn = "astray"

LEMMA InitInductive == Init => Inductive
<1> SUFFICES ASSUME Init PROVE Inductive
  OBVIOUS
<1> USE DEF Init
<1>1. TypeOK
  <2>1. dsn \in DSNs /\ db \in {"up", "down", "hung"} /\ versions \in BOOLEAN /\ commits \in Nat
    OBVIOUS
  <2>2. /\ phase \in [Replicas -> Phases] /\ poll \in [Replicas -> Polls]
        /\ expired \in [Replicas -> BOOLEAN] /\ dbReady \in [Replicas -> BOOLEAN]
        /\ open \in [Replicas -> SUBSET Handles] /\ err \in [Replicas -> Errors]
    BY DEF Starting, Phases, Polls, Errors
  <2>3. /\ crashes \in 0..MaxCrashes
        /\ blip \in [Replicas -> BOOLEAN] /\ raced \in [Replicas -> BOOLEAN]
    OBVIOUS
  <2>4. QED
    BY <2>1, <2>2, <2>3 DEF TypeOK
<1>2. MigratedOnce /\ FailureHasCause
  BY DEF MigratedOnce, FailureHasCause
<1>3. \A r \in Replicas : HandlesAgree(r) /\ MigrationAgrees(r) /\ CausesAreSeen(r)
  BY DEF HandlesAgree, MigrationAgrees, CausesAreSeen, Connected, Waits
<1>4. QED
  BY <1>1, <1>2, <1>3 DEF Inductive

\* A step of another process leaves this one as it is, but for the table it may create
\* and the database it may take with it.
LEMMA OtherIsSound ==
  ASSUME Inductive, NEW r \in Replicas,
         UNCHANGED <<phase[r], poll[r], expired[r], dbReady[r], open[r], err[r]>>,
         dsn' = dsn,
         \/ UNCHANGED <<versions, commits, raced[r]>>
         \/ /\ commits > 0 => commits' > 0
            /\ versions => versions'
            /\ raced[r] \/ phase[r] \in Starting => raced'[r],
         \/ UNCHANGED <<db, blip[r]>>
         \/ blip[r] \/ (db' # "up" /\ phase[r] \in Starting) => blip'[r]
  PROVE  ProcessIsSound(r)'
<1> USE DEF Inductive
<1>1. HandlesAgree(r)'
  BY DEF HandlesAgree
<1>2. MigrationAgrees(r)'
  BY DEF TypeOK, MigrationAgrees, Starting
<1>3. CausesAreSeen(r)'
  BY DEF CausesAreSeen
<1>4. QED
  BY <1>1, <1>2, <1>3 DEF ProcessIsSound, FailureHasCause

LEMMA PollStepIsSound ==
  ASSUME Inductive, NEW r \in Replicas, PollStep(r)
  PROVE  TypeOK' /\ ProcessIsSound(r)'
<1> USE DEF Inductive, TypeOK, PollTo, Opens, Closes
<1>1. UNCHANGED <<dsn, db, versions, commits, phase, err, expired, crashes, blip, raced>>
  BY DEF PollStep, PollOpen, PollDone, PollDefault, PingOK, PingFails, PollWake, PollClose,
         PollSignal, history, shared
<1>2. phase[r] \in Waits /\ poll[r] # "none"
  BY DEF PollStep, PollOpen, PollDone, PollDefault, PingOK, PingFails, PollWake, PollClose,
         PollSignal
<1>3. TypeOK'
  <2>1. open' \in [Replicas -> SUBSET Handles]
    BY DEF PollStep, PollOpen, PollDone, PollDefault, PingOK, PingFails, PollWake, PollClose,
           PollSignal, Handles
  <2>2. PICK p \in Polls : poll' = [poll EXCEPT ![r] = p]
    BY DEF PollStep, PollOpen, PollDone, PollDefault, PingOK, PingFails, PollWake, PollClose,
           PollSignal, Polls
  <2>3. dbReady' \in [Replicas -> BOOLEAN]
    BY DEF PollStep, PollOpen, PollDone, PollDefault, PingOK, PingFails, PollWake, PollClose,
           PollSignal
  <2>4. poll' \in [Replicas -> Polls] /\ \A q \in Replicas : poll'[q] # "none" => phase'[q] \in Waits
    BY <1>1, <1>2, <2>2
  <2>5. QED
    BY <1>1, <2>1, <2>3, <2>4
<1>4. HandlesAgree(r)'
  BY <1>1, <1>2 DEF PollStep, PollOpen, PollDone, PollDefault, PingOK, PingFails, PollWake, PollClose,
         PollSignal, HandlesAgree, Waits, Connected
<1>5. MigrationAgrees(r)' /\ CausesAreSeen(r)'
  BY <1>1 DEF MigrationAgrees, CausesAreSeen
<1>6. QED
  BY <1>1, <1>3, <1>4, <1>5 DEF ProcessIsSound, FailureHasCause

LEMMA MainStepIsSound ==
  ASSUME Inductive, NEW r \in Replicas,
         MainStep(r) \/ Expire(r) \/ Crash(r)
  PROVE  TypeOK' /\ MigratedOnce' /\ ProcessIsSound(r)'
<1> USE DEF Inductive, TypeOK, GoTo, ProcessIsSound, HandlesAgree, MigrationAgrees,
            CausesAreSeen, FailureHasCause, MigratedOnce, shared
<1> USE DEF Phases, Starting, Waits, Connected
<1>1. ASSUME NEW e \in Errors \ {"none"}, Fail(r, e), phase[r] # "failed",
             dsn' = dsn, db' \in {"up", "down", "hung"}, versions' \in BOOLEAN,
             commits' \in 0..1, commits' > 0 => versions', crashes' \in 0..MaxCrashes,
             blip' \in [Replicas -> BOOLEAN], raced' \in [Replicas -> BOOLEAN],
             e = "parse" => dsn \in {"malformed", "unparsable"},
             e = "ping" => blip'[r],
             e = "find" => blip'[r] \/ dsn = "astray",
             e = "migrate" => blip'[r] \/ raced'[r] \/ dsn = "astray"
      PROVE  TypeOK' /\ MigratedOnce' /\ ProcessIsSound(r)'
  <2>1. TypeOK'
    BY <1>1 DEF Fail, PollTo, Polls
  <2>2. /\ phase'[r] = "failed" /\ err'[r] = e /\ poll'[r] = "none" /\ open'[r] = {}
        /\ ~dbReady'[r]
    BY <1>1 DEF Fail, PollTo
  <2>3. QED
    BY <1>1, <2>1, <2>2
<1>2. CASE \/ ParseFails(r) \/ WaitTimesOut(r) \/ ConnectFails(r) \/ FindFails(r)
           \/ MigrateFails(r) \/ Crash(r)
  <2>1. commits \in 0..1
    OBVIOUS
  <2>2. CASE WaitTimesOut(r)
    BY <1>1, <2>1, <2>2 DEF WaitTimesOut, history, Errors
  <2>3. CASE ConnectFails(r)
    BY <1>1, <2>1, <2>3 DEF ConnectFails, history, Errors
  <2>4. CASE FindFails(r)
    BY <1>1, <2>1, <2>4 DEF FindFails, Refused, history, Errors
  <2>5. CASE MigrateFails(r)
    <3>1. blip[r] \/ raced[r] \/ dsn = "astray"
      BY <2>5 DEF MigrateFails, MigrationIsRefused, Refused, Reached
    <3>2. QED
      BY <1>1, <2>1, <2>5, <3>1 DEF MigrateFails, MigrationIsRefused, history, Errors
  <2>6. CASE Crash(r)
    BY <1>1, <2>1, <2>6 DEF Crash, history, Errors
  <2>7. CASE ParseFails(r)
    BY <1>1, <2>1, <2>7 DEF ParseFails, history, Errors
  <2>8. QED
    BY <1>2, <2>2, <2>3, <2>4, <2>5, <2>6, <2>7
<1>3. ASSUME Creates(r)
      PROVE  /\ phase[r] \in {"creating", "apply"} /\ dsn' = dsn /\ dsn # "astray"
             /\ versions' \in BOOLEAN /\ commits' \in 0..1
             /\ versions' /\ (phase[r] = "apply" => commits' = 1)
             /\ phase[r] = "creating" => commits' = commits
             /\ raced' \in [Replicas -> BOOLEAN] /\ raced'[r] = raced[r]
  <2>1. /\ dsn' = dsn /\ dsn # "astray"
        /\ raced' \in [Replicas -> BOOLEAN] /\ raced'[r] = raced[r]
    BY <1>3 DEF Creates, Reached
  <2>2. CASE phase[r] = "creating" /\ versions' = TRUE /\ UNCHANGED commits
    BY <2>1, <2>2
  <2>3. CASE phase[r] = "apply" /\ commits' = 1 /\ UNCHANGED versions
    BY <2>1, <2>3
  <2>4. QED
    BY <1>3, <2>2, <2>3 DEF Creates
<1>4. CASE CommitUnknown(r)
  <2>1. blip'[r] /\ blip' \in [Replicas -> BOOLEAN]
    BY <1>3, <1>4 DEF CommitUnknown
  <2>2. QED
    BY <1>1, <1>3, <1>4, <2>1 DEF CommitUnknown, Errors
<1>5. CASE WaitReturns(r)
  BY <1>5 DEF WaitReturns, history
<1>6. CASE Connect(r)
  BY <1>6 DEF Connect, history, Opens, CallWaitForDB, PollTo, Polls, Handles
<1>7. CASE Find(r) \/ Check(r) \/ MigrateAstray(r) \/ LookForTable(r)
  <2>1. CASE Find(r)
    BY <2>1 DEF Find, history
  <2>2. CASE Check(r)
    BY <2>2 DEF Check, Reached, history
  <2>3. CASE MigrateAstray(r)
    BY <2>3 DEF MigrateAstray, history
  <2>4. CASE LookForTable(r)
    BY <2>4 DEF LookForTable, Reached, history
  <2>5. QED
    BY <1>7, <2>1, <2>2, <2>3, <2>4
<1>8. CASE Apply(r)
  <2>1. /\ phase' = [phase EXCEPT ![r] = IF phase[r] = "creating" THEN "apply" ELSE "ready"]
        /\ UNCHANGED <<db, poll, expired, dbReady, open, err, crashes, blip>>
    BY <1>8 DEF Apply
  <2>2. TypeOK' /\ MigratedOnce'
    BY <1>3, <1>8, <2>1 DEF Apply
  <2>3. HandlesAgree(r)' /\ CausesAreSeen(r)'
    BY <1>3, <1>8, <2>1 DEF Apply
  <2>4. MigrationAgrees(r)'
    <3>1. CASE phase[r] = "creating"
      <4>1. commits > 0 => raced[r]
        BY <3>1
      <4>2. QED
        BY <1>3, <1>8, <2>1, <3>1, <4>1 DEF Apply
    <3>2. CASE phase[r] = "apply"
      BY <1>3, <1>8, <2>1, <3>2 DEF Apply
    <3>3. QED
      BY <1>3, <1>8, <3>1, <3>2 DEF Apply
  <2>5. UNCHANGED <<dsn, err[r], blip[r], raced[r]>>
    BY <1>3, <1>8, <2>1 DEF Apply
  <2>6. QED
    BY <2>2, <2>3, <2>4, <2>5
<1>9. CASE Restart(r)
  <2>1. /\ phase' = [phase EXCEPT ![r] = "begin"] /\ phase[r] = "failed"
        /\ err' = [err EXCEPT ![r] = "none"]
        /\ blip' = [blip EXCEPT ![r] = db # "up"] /\ raced' = [raced EXCEPT ![r] = FALSE]
        /\ UNCHANGED <<dsn, db, versions, commits, poll, expired, dbReady, open, crashes>>
    BY <1>9 DEF Restart
  <2>2. TypeOK'
    BY <2>1 DEF Errors
  <2>3. db # "up" => blip'[r]
    BY <2>1
  <2>4. phase'[r] = "begin" /\ err'[r] = "none" /\ poll[r] = "none"
    BY <2>1
  <2>5. QED
    BY <2>1, <2>2, <2>3, <2>4
<1>10. CASE Begin(r)
  <2>1. /\ phase' = [phase EXCEPT ![r] = "wait1"] /\ phase[r] = "begin"
        /\ poll' = [poll EXCEPT ![r] = "open"]
        /\ dbReady' = [dbReady EXCEPT ![r] = FALSE]
        /\ expired' = [expired EXCEPT ![r] = FALSE]
        /\ UNCHANGED <<dsn, db, versions, commits, open, err, crashes, blip, raced>>
    BY <1>10 DEF Begin, CallWaitForDB, PollTo, history
  <2>2. TypeOK'
    BY <2>1 DEF Polls
  <2>3. /\ phase'[r] = "wait1" /\ ~dbReady'[r] /\ open'[r] = open[r]
        /\ open[r] \cap {"polled", "left", "client"} = {}
    BY <2>1
  <2>4. QED
    BY <2>1, <2>2, <2>3
<1>11. CASE Expire(r)
  BY <1>11 DEF Expire, history
<1>12. QED
  BY <1>2, <1>4, <1>5, <1>6, <1>7, <1>8, <1>9, <1>10, <1>11 DEF MainStep

LEMMA OthersAreSound ==
  ASSUME Inductive, NEW r \in Replicas, NEW q \in Replicas \ {r},
         MainStep(r) \/ PollStep(r) \/ Expire(r) \/ Crash(r)
  PROVE  ProcessIsSound(q)'
<1> USE DEF Inductive, TypeOK, GoTo, PollTo, Opens, Closes, Fail, CallWaitForDB, history, shared
<1>1. UNCHANGED <<phase[q], poll[q], expired[q], dbReady[q], open[q], err[q]>>
  <2>1. CASE MainStep(r)
    BY <2>1 DEF MainStep, Begin, ParseFails, WaitTimesOut, WaitReturns, Connect,
       ConnectFails, Find, FindFails, Check, MigrateAstray, LookForTable, Apply,
       MigrateFails, CommitUnknown, Restart
  <2>2. CASE PollStep(r)
    BY <2>2 DEF PollStep, PollOpen, PollDone, PollDefault, PingOK, PingFails, PollWake,
       PollClose, PollSignal
  <2>3. CASE Expire(r) \/ Crash(r)
    BY <2>3 DEF Expire, Crash
  <2>4. QED
    BY <2>1, <2>2, <2>3
<1>2. ASSUME Creates(r)
      PROVE  /\ dsn' = dsn /\ (commits > 0 => commits' > 0) /\ (versions => versions')
             /\ raced[q] \/ phase[q] \in Starting => raced'[q]
  <2>1. dsn' = dsn /\ (raced[q] \/ phase[q] \in Starting => raced'[q])
    BY <1>2 DEF Creates
  <2>2. (commits > 0 => commits' > 0) /\ (versions => versions')
    BY <1>2 DEF Creates
  <2>3. QED
    BY <2>1, <2>2
<1>3. CASE Apply(r)
  <2>1. UNCHANGED <<db, blip[q]>>
    BY <1>3 DEF Apply
  <2>2. Creates(r)
    BY <1>3 DEF Apply
  <2>3. QED
    BY <1>1, <1>2, <2>1, <2>2, OtherIsSound
<1>4. CASE CommitUnknown(r)
  <2>1. blip[q] \/ (db' # "up" /\ phase[q] \in Starting) => blip'[q]
    BY <1>4 DEF CommitUnknown
  <2>2. Creates(r)
    BY <1>4 DEF CommitUnknown
  <2>3. QED
    BY <1>1, <1>2, <2>1, <2>2, OtherIsSound
<1>5. CASE ~Apply(r) /\ ~CommitUnknown(r)
  <2>1. UNCHANGED <<dsn, versions, commits, raced[q], db, blip[q]>>
    <3>1. CASE MainStep(r)
      BY <1>5, <3>1 DEF MainStep, Begin, ParseFails, WaitTimesOut, WaitReturns, Connect,
         ConnectFails, Find, FindFails, Check, MigrateAstray, LookForTable, MigrateFails,
         Restart
    <3>2. CASE PollStep(r)
      BY <3>2 DEF PollStep, PollOpen, PollDone, PollDefault, PingOK, PingFails, PollWake,
         PollClose, PollSignal
    <3>3. CASE Expire(r) \/ Crash(r)
      BY <3>3 DEF Expire, Crash
    <3>4. QED
      BY <3>1, <3>2, <3>3
  <2>2. QED
    BY <1>1, <2>1, OtherIsSound
<1>6. QED
  BY <1>3, <1>4, <1>5

LEMMA NextInductive == Inductive /\ [Next]_vars => Inductive'
<1> SUFFICES ASSUME Inductive, [Next]_vars PROVE Inductive'
  OBVIOUS
<1>1. ASSUME NEW r \in Replicas, MainStep(r) \/ PollStep(r) \/ Expire(r) \/ Crash(r)
      PROVE  Inductive'
  <2>1. PollStep(r) => UNCHANGED <<versions, commits>>
    BY DEF PollStep, PollOpen, PollDone, PollDefault, PingOK, PingFails, PollWake,
       PollClose, PollSignal, shared
  <2>2. TypeOK' /\ MigratedOnce' /\ ProcessIsSound(r)'
    BY <1>1, <2>1, MainStepIsSound, PollStepIsSound DEF Inductive, MigratedOnce
  <2>3. \A q \in Replicas \ {r} : ProcessIsSound(q)'
    BY <1>1, OthersAreSound
  <2>4. \A q \in Replicas : ProcessIsSound(q)'
    BY <2>2, <2>3
  <2>5. QED
    BY <2>2, <2>4 DEF Inductive, ProcessIsSound, FailureHasCause
<1>2. CASE DatabaseChanges
  <2>1. TypeOK'
    BY <1>2 DEF Inductive, TypeOK, DatabaseChanges, local
  <2>2. ASSUME NEW r \in Replicas PROVE ProcessIsSound(r)'
    <3>1. UNCHANGED <<phase[r], poll[r], expired[r], dbReady[r], open[r], err[r], dsn,
                      versions, commits, raced[r]>>
      BY <1>2 DEF DatabaseChanges, local
    <3>2. blip[r] \/ (db' # "up" /\ phase[r] \in Starting) => blip'[r]
      BY <1>2 DEF DatabaseChanges
    <3>3. QED
      BY <3>1, <3>2, OtherIsSound
  <2>3. MigratedOnce'
    BY <1>2 DEF DatabaseChanges, Inductive, MigratedOnce
  <2>4. QED
    BY <2>1, <2>2, <2>3 DEF Inductive, ProcessIsSound, FailureHasCause
<1>3. CASE UNCHANGED vars
  BY <1>3 DEF vars, shared, local, history, Inductive, TypeOK, MigratedOnce, FailureHasCause,
              HandlesAgree, MigrationAgrees, CausesAreSeen
<1>4. QED
  BY <1>1, <1>2, <1>3 DEF Next

\* The invariant the others rest on: which handles a process has open at each point
\* of its start, how far the migration is, and what has gone wrong since it began.
THEOREM InductiveHolds == Spec => []Inductive
  BY InitInductive, NextInductive, PTL DEF Spec

\* Every variable stays in its type, and no goroutine of WaitForDB outlives the call
\* in a process that goes on.
THEOREM TypeCorrect == Spec => []TypeOK
<1>1. Inductive => TypeOK
  BY DEF Inductive
<1>2. QED
  BY <1>1, InductiveHolds, PTL

\* A process that is ready has its client and no other handle, and its table unless
\* dbmate was sent elsewhere.
THEOREM ReadyIsCleanHolds == Spec => []ReadyIsClean
<1>1. Inductive => ReadyIsClean
  <2> SUFFICES ASSUME Inductive, NEW r \in Replicas, phase[r] = "ready"
               PROVE  open[r] = {"client"} /\ (commits > 0 \/ dsn = "astray")
    BY DEF ReadyIsClean
  <2>1. open[r] \subseteq Handles /\ poll[r] = "none"
    BY DEF Inductive, TypeOK, Waits
  <2>2. QED
    BY <2>1 DEF Inductive, HandlesAgree, MigrationAgrees, Handles, Waits, Connected
<1>2. QED
  BY <1>1, InductiveHolds, PTL

\* A start fails only for a reason that lies in its DSN or arose during it.
THEOREM FailureHasCauseHolds == Spec => []FailureHasCause
<1>1. Inductive => FailureHasCause
  BY DEF Inductive
<1>2. QED
  BY <1>1, InductiveHolds, PTL
-----------------------------------------------------------------------------
(* The two goroutines of a start.                                          *)

\* Only the polling goroutine ends itself while the main one waits, and the answer it
\* leaves behind stays until the select is over.
LEMMA WaitIsAnsweredStep ==
  ASSUME Inductive, WaitIsAnswered, [Next]_vars
  PROVE  WaitIsAnswered'
<1> USE DEF Inductive, TypeOK, WaitIsAnswered, GoTo, PollTo, history, local, shared
<1>1. ASSUME NEW r \in Replicas, PollStep(r)
      PROVE  WaitIsAnswered'
  BY <1>1 DEF PollStep, PollOpen, PollDone, PollDefault, PingOK, PingFails, PollWake,
     PollClose, PollSignal
<1>2. ASSUME NEW r \in Replicas, NEW e, Fail(r, e)
      PROVE  WaitIsAnswered'
  BY <1>2 DEF Fail, Waits
<1>3. ASSUME NEW r \in Replicas, NEW p, CallWaitForDB(r, p)
      PROVE  WaitIsAnswered'
  BY <1>3 DEF CallWaitForDB
<1>4. ASSUME NEW r \in Replicas,
             \/ WaitReturns(r) \/ Find(r) \/ Check(r) \/ MigrateAstray(r)
             \/ LookForTable(r) \/ Apply(r) \/ Restart(r)
      PROVE  WaitIsAnswered'
  BY <1>4 DEF WaitReturns, Find, Check, MigrateAstray, LookForTable, Apply, Restart, Waits
<1>5. ASSUME NEW r \in Replicas, MainStep(r) \/ Crash(r)
      PROVE  WaitIsAnswered'
  BY <1>2, <1>3, <1>4, <1>5
     DEF MainStep, Crash, Begin, ParseFails, WaitTimesOut, Connect, ConnectFails,
         FindFails, MigrateFails, CommitUnknown
<1>6. ASSUME NEW r \in Replicas, Expire(r)
      PROVE  WaitIsAnswered'
  BY <1>6 DEF Expire
<1>7. CASE DatabaseChanges \/ UNCHANGED vars
  BY <1>7 DEF DatabaseChanges, vars
<1>8. QED
  BY <1>1, <1>5, <1>6, <1>7 DEF Next

\* No start waits for a goroutine that is gone, however the deadline, the answers of the
\* server and the two goroutines interleave.
THEOREM WaitIsAnsweredHolds == Spec => []WaitIsAnswered
<1>1. Init => WaitIsAnswered
  BY DEF Init, WaitIsAnswered, Waits
<1>2. QED
  BY <1>1, WaitIsAnsweredStep, InductiveHolds, PTL DEF Spec
=============================================================================
