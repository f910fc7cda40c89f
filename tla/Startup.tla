------------------------------ MODULE Startup ------------------------------
(***************************************************************************)
(* Web processes that start at the same time on one PostgreSQL database:   *)
(* initDB (cmd/init.go), WaitForDB, NewPostgres and InitDB                 *)
(* (internal/database/database.go), and the migrations of dbmate.          *)
(*                                                                         *)
(* phase[r] is the main goroutine of replica r:                            *)
(*   begin     before initDB has parsed the DSN                            *)
(*   wait1     in the WaitForDB of initDB                                  *)
(*   connect   in NewPostgres                                              *)
(*   wait2     in the WaitForDB of InitDB                                  *)
(*   find      before FindMigrations                                       *)
(*   check     in CreateAndMigrate, before it reads what is applied        *)
(*   create    before CREATE TABLE IF NOT EXISTS for dbmate's own table    *)
(*   creating  inside that command, which has not found the table          *)
(*   apply     in CreateAndMigrate, with a migration to apply              *)
(*   ready     initDB has returned a client                                *)
(*   failed    initDB has returned an error, and the process has ended     *)
(* poll[r] is the goroutine that WaitForDB starts:                         *)
(*   open      at the head of its loop                                     *)
(*   select    in the select, with a new handle                            *)
(*   ping      in PingContext                                              *)
(*   close     pinged, before db.Close                                     *)
(*   signal    before close(chDBReady)                                     *)
(*   sleep     in the pause of a second                                    *)
(*   none      it has ended, or there is none                              *)
(* There is at most one per process: the second WaitForDB is called only   *)
(* when the first one's goroutine has signalled.                           *)
(***************************************************************************)
EXTENDS Integers

CONSTANTS Replicas,    \* the web processes
          MaxCrashes   \* bound: processes killed

ASSUME StartupAssumption == MaxCrashes \in Nat

VARIABLES
  dsn,        \* what becomes of the configured DSN
  db,         \* the database server: it answers, refuses, or does not answer
  versions,   \* dbmate's own table, of the versions that are applied, exists
  commits,    \* how often the migration of db/migrations was committed
  phase, poll,
  expired,    \* the deadline of the current ctx has passed
  dbReady,    \* chDBReady is closed
  open,       \* the handles (sql.DB) the process has open
  err,        \* the error of initDB
  crashes,    \* processes killed so far
  (* history, for the properties only *)
  blip,       \* the database was away at some time of this start
  raced       \* another replica created either table during this start

local   == <<phase, poll, expired, dbReady, open, err>>
history == <<blip, raced>>
shared  == <<dsn, db, versions, commits>>
vars    == <<shared, local, crashes, history>>

Waits    == {"wait1", "wait2"}
Starting == Waits \cup {"begin", "connect", "find", "check", "create", "creating", "apply"}
Phases   == Starting \cup {"ready", "failed"}
Polls    == {"open", "select", "ping", "close", "signal", "sleep", "none"}
Errors   == {"none", "parse", "deadline", "ping", "find", "migrate", "killed"}

\* malformed: dsn.New refuses it; refused: sql.Open does.  InitDB puts it together
\* again for dbmate, without escaping and without its parameters but sslmode:
\* unparsable is one of which this makes no URL, astray one of which it makes another
\* URL, that dbmate may or may not find a database behind; good has the same meaning
\* in both forms.
DSNs == {"malformed", "refused", "unparsable", "astray", "good"}

\* polled: the handle of the goroutine; left: one it did not close; client: the
\* one of the Postgres that NewPostgres returns.
Handles  == {"polled", "left", "client"}

TypeOK ==
  /\ dsn \in DSNs
  /\ db \in {"up", "down", "hung"}
  /\ versions \in BOOLEAN
  /\ commits \in Nat
  /\ phase \in [Replicas -> Phases]
  /\ poll \in [Replicas -> Polls]
  /\ expired \in [Replicas -> BOOLEAN]
  /\ dbReady \in [Replicas -> BOOLEAN]
  /\ open \in [Replicas -> SUBSET Handles]
  /\ err \in [Replicas -> Errors]
  /\ crashes \in 0..MaxCrashes
  /\ blip \in [Replicas -> BOOLEAN]
  /\ raced \in [Replicas -> BOOLEAN]
  \* A goroutine of WaitForDB runs only while somebody waits for it.
  /\ \A r \in Replicas : poll[r] # "none" => phase[r] \in Waits

Init ==
  /\ dsn \in DSNs
  /\ db \in {"up", "down", "hung"}
  /\ versions = FALSE
  /\ commits = 0
  /\ phase   = [r \in Replicas |-> "begin"]
  /\ poll    = [r \in Replicas |-> "none"]
  /\ expired = [r \in Replicas |-> FALSE]
  /\ dbReady = [r \in Replicas |-> FALSE]
  /\ open    = [r \in Replicas |-> {}]
  /\ err     = [r \in Replicas |-> "none"]
  /\ crashes = 0
  /\ blip    = [r \in Replicas |-> db # "up"]
  /\ raced   = [r \in Replicas |-> FALSE]

-----------------------------------------------------------------------------
(* Helpers.                                                                *)

GoTo(r, p)   == phase' = [phase EXCEPT ![r] = p]
PollTo(r, p) == poll' = [poll EXCEPT ![r] = p]
Opens(r, h)  == open' = [open EXCEPT ![r] = @ \cup {h}]
Closes(r, h) == open' = [open EXCEPT ![r] = @ \ {h}]

\* initDB returns an error: main prints it and ends the process, with whatever
\* it has running and open.
Fail(r, e) ==
  /\ GoTo(r, "failed")
  /\ err' = [err EXCEPT ![r] = e]
  /\ PollTo(r, "none")
  /\ open' = [open EXCEPT ![r] = {}]
  /\ expired' = [expired EXCEPT ![r] = FALSE]
  /\ dbReady' = [dbReady EXCEPT ![r] = FALSE]

\* WaitForDB is called with a new context, makes a new channel and starts its
\* goroutine.
CallWaitForDB(r, p) ==
  /\ GoTo(r, p)
  /\ PollTo(r, "open")
  /\ expired' = [expired EXCEPT ![r] = FALSE]
  /\ dbReady' = [dbReady EXCEPT ![r] = FALSE]

-----------------------------------------------------------------------------
(* The goroutine of WaitForDB.                                             *)

\* sql.Open makes a handle, without a connection yet, or refuses the DSN.
PollOpen(r) ==
  /\ poll[r] = "open"
  /\ PollTo(r, "select")
  /\ IF dsn # "refused" THEN Opens(r, "polled") ELSE UNCHANGED open
  /\ UNCHANGED <<shared, phase, expired, dbReady, err, crashes, history>>

\* case <-ctx.Done(): the goroutine returns, and the handle stays open.
PollDone(r) ==
  /\ poll[r] = "select" /\ expired[r]
  /\ PollTo(r, "none")
  /\ open' = [open EXCEPT ![r] = IF "polled" \in @ THEN (@ \ {"polled"}) \cup {"left"}
                                                   ELSE @]
  /\ UNCHANGED <<shared, phase, expired, dbReady, err, crashes, history>>

\* default, with a handle to ping, or with the error of sql.Open, and then the
\* loop goes round without a pause.
PollDefault(r) ==
  /\ poll[r] = "select" /\ ~expired[r]
  /\ PollTo(r, IF "polled" \in open[r] THEN "ping" ELSE "open")
  /\ UNCHANGED <<shared, phase, expired, dbReady, open, err, crashes, history>>

PingOK(r) ==
  /\ poll[r] = "ping" /\ db = "up"
  /\ PollTo(r, "close")
  /\ UNCHANGED <<shared, phase, expired, dbReady, open, err, crashes, history>>

\* The server refuses, or the ctx ends the ping: close, and pause.
PingFails(r) ==
  /\ poll[r] = "ping" /\ (db = "down" \/ expired[r])
  /\ Closes(r, "polled")
  /\ PollTo(r, "sleep")
  /\ UNCHANGED <<shared, phase, expired, dbReady, err, crashes, history>>

PollWake(r) ==
  /\ poll[r] = "sleep"
  /\ PollTo(r, "open")
  /\ UNCHANGED <<shared, phase, expired, dbReady, open, err, crashes, history>>

PollClose(r) ==
  /\ poll[r] = "close"
  /\ Closes(r, "polled")
  /\ PollTo(r, "signal")
  /\ UNCHANGED <<shared, phase, expired, dbReady, err, crashes, history>>

\* MUTANT: the goroutine returns without closing chDBReady.
PollSignalForgotten(r) ==
  /\ poll[r] = "signal"
  /\ PollTo(r, "none")
  /\ UNCHANGED <<shared, phase, expired, dbReady, open, err, crashes, history>>

PollSignal(r) ==
  /\ poll[r] = "signal"
  /\ dbReady' = [dbReady EXCEPT ![r] = TRUE]
  /\ PollTo(r, "none")
  /\ UNCHANGED <<shared, phase, expired, open, err, crashes, history>>

PollStep(r) == \/ PollOpen(r) \/ PollDone(r) \/ PollDefault(r) \/ PingOK(r)
               \/ PingFails(r) \/ PollWake(r) \/ PollClose(r) \/ PollSignal(r)

-----------------------------------------------------------------------------
(* The main goroutine.                                                     *)

\* initDB calls WaitForDB, which parses the DSN before it starts its goroutine.
Begin(r) ==
  /\ phase[r] = "begin" /\ dsn # "malformed"
  /\ CallWaitForDB(r, "wait1")
  /\ UNCHANGED <<shared, open, err, crashes, history>>

\* dsn.New refuses the DSN, or, after the ping of NewPostgres, url.Parse refuses what
\* InitDB has made of it.
ParseFails(r) ==
  /\ \/ phase[r] = "begin" /\ dsn = "malformed"
     \/ phase[r] = "connect" /\ db = "up" /\ dsn = "unparsable"
  /\ Fail(r, "parse")
  /\ UNCHANGED <<shared, crashes, history>>

\* MUTANT: WaitForDB waits for chDBReady alone.
WaitTimesOutNever(r) ==
  /\ phase[r] \in Waits /\ expired[r] /\ dbReady[r]
  /\ Fail(r, "deadline")
  /\ UNCHANGED <<shared, crashes, history>>

\* The select of WaitForDB returns ctx.Err(), possibly with chDBReady closed too.
WaitTimesOut(r) ==
  /\ phase[r] \in Waits /\ expired[r]
  /\ Fail(r, "deadline")
  /\ UNCHANGED <<shared, crashes, history>>

\* It returns nil, possibly after the deadline.
WaitReturns(r) ==
  /\ phase[r] \in Waits /\ dbReady[r]
  /\ GoTo(r, IF phase[r] = "wait1" THEN "connect" ELSE "find")
  /\ UNCHANGED <<shared, poll, expired, dbReady, open, err, crashes, history>>

\* NewPostgres pings with a context of its own, which has no deadline; then InitDB
\* parses the URI for dbmate and calls WaitForDB.
Connect(r) ==
  /\ phase[r] = "connect" /\ db = "up" /\ dsn # "unparsable"
  /\ Opens(r, "client")
  /\ CallWaitForDB(r, "wait2")
  /\ UNCHANGED <<shared, err, crashes, history>>

ConnectFails(r) ==
  /\ phase[r] = "connect" /\ db = "down"
  /\ Fail(r, "ping")
  /\ UNCHANGED <<shared, crashes, history>>

\* dbmate's commands: the database that the DSN names executes them, or something else
\* does, or nothing.
Reached == db = "up" /\ dsn # "astray"
Refused == db = "down" \/ dsn = "astray"

\* FindMigrations lists the migrations for the log.
Find(r) ==
  /\ phase[r] = "find" /\ (Reached \/ dsn = "astray")
  /\ GoTo(r, "check")
  /\ UNCHANGED <<shared, poll, expired, dbReady, open, err, crashes, history>>

FindFails(r) ==
  /\ phase[r] = "find" /\ Refused
  /\ Fail(r, "find")
  /\ UNCHANGED <<shared, crashes, history>>

\* MUTANT: applied migrations are not looked up.
CheckNothing(r) ==
  /\ phase[r] = "check" /\ Reached
  /\ GoTo(r, "create")
  /\ UNCHANGED <<shared, poll, expired, dbReady, open, err, crashes, history>>

\* CreateAndMigrate reads which migrations are applied, and is done if all are.
Check(r) ==
  /\ phase[r] = "check" /\ Reached
  /\ GoTo(r, IF commits > 0 THEN "ready" ELSE "create")
  /\ UNCHANGED <<shared, poll, expired, dbReady, open, err, crashes, history>>

\* What it finds and applies behind another URL is not in this database.
MigrateAstray(r) ==
  /\ phase[r] = "check" /\ dsn = "astray"
  /\ GoTo(r, "ready")
  /\ UNCHANGED <<shared, poll, expired, dbReady, open, err, crashes, history>>

\* CREATE TABLE IF NOT EXISTS looks for the table.
LookForTable(r) ==
  /\ phase[r] = "create" /\ Reached
  /\ GoTo(r, IF versions THEN "apply" ELSE "creating")
  /\ UNCHANGED <<shared, poll, expired, dbReady, open, err, crashes, history>>

\* A replica creates one of the two tables, which must not exist by then: dbmate's own
\* one, or, in a transaction with its version, that of the migration.
Creates(r) ==
  /\ Reached
  /\ \/ phase[r] = "creating" /\ ~versions /\ versions' = TRUE /\ UNCHANGED commits
     \/ phase[r] = "apply" /\ commits = 0 /\ commits' = 1 /\ UNCHANGED versions
  /\ raced' = [q \in Replicas |-> raced[q] \/ (q # r /\ phase[q] \in Starting)]
  /\ UNCHANGED dsn

\* MUTANT: CREATE TABLE IF NOT EXISTS in the migration: both replicas record the version.
ApplyAgain(r) ==
  /\ phase[r] \in {"creating", "apply"} /\ Reached
  /\ IF phase[r] = "apply" THEN commits' = commits + 1 /\ UNCHANGED versions
                           ELSE versions' = TRUE /\ UNCHANGED commits
  /\ GoTo(r, IF phase[r] = "creating" THEN "apply" ELSE "ready")
  /\ raced' = [q \in Replicas |-> raced[q] \/ (q # r /\ phase[q] \in Starting)]
  /\ UNCHANGED <<dsn, db, poll, expired, dbReady, open, err, crashes, blip>>

Apply(r) ==
  /\ Creates(r)
  /\ GoTo(r, IF phase[r] = "creating" THEN "apply" ELSE "ready")
  /\ UNCHANGED <<db, poll, expired, dbReady, open, err, crashes, blip>>

\* What makes CreateAndMigrate fail: the connection, or another replica that has
\* created the table meanwhile.
MigrationIsRefused(r) ==
  \/ phase[r] \in {"check", "create", "creating", "apply"} /\ Refused
  \/ phase[r] = "creating" /\ Reached /\ versions
  \/ phase[r] = "apply" /\ Reached /\ commits > 0

\* MUTANT: InitDB drops the error of CreateAndMigrate.
MigrateErrorDropped(r) ==
  /\ MigrationIsRefused(r)
  /\ GoTo(r, "ready")
  /\ UNCHANGED <<shared, poll, expired, dbReady, open, err, crashes, history>>

MigrateFails(r) ==
  /\ MigrationIsRefused(r)
  /\ Fail(r, "migrate")
  /\ UNCHANGED <<shared, crashes, history>>

\* The table is there, and the server goes away with the reply.
CommitUnknown(r) ==
  /\ Creates(r)
  /\ db' = "down"
  /\ Fail(r, "migrate")
  /\ blip' = [q \in Replicas |-> blip[q] \/ phase[q] \in Starting]
  /\ UNCHANGED crashes

\* The orchestrator starts the process again, which calls initDB.
Restart(r) ==
  /\ phase[r] = "failed"
  /\ GoTo(r, "begin")
  /\ err' = [err EXCEPT ![r] = "none"]
  /\ blip' = [blip EXCEPT ![r] = db # "up"]
  /\ raced' = [raced EXCEPT ![r] = FALSE]
  /\ UNCHANGED <<shared, poll, expired, dbReady, open, crashes>>

MainStep(r) == \/ Begin(r) \/ ParseFails(r) \/ WaitTimesOut(r) \/ WaitReturns(r)
               \/ Connect(r) \/ ConnectFails(r) \/ Find(r) \/ FindFails(r) \/ Check(r)
               \/ MigrateAstray(r) \/ LookForTable(r) \/ Apply(r) \/ MigrateFails(r)
               \/ CommitUnknown(r) \/ Restart(r)

-----------------------------------------------------------------------------
(* The environment.                                                        *)

\* Thirty seconds have passed since the context was made.
Expire(r) ==
  /\ phase[r] \in Waits /\ ~expired[r]
  /\ expired' = [expired EXCEPT ![r] = TRUE]
  /\ UNCHANGED <<shared, phase, poll, dbReady, open, err, crashes, history>>

\* The process is killed.
Crash(r) ==
  /\ phase[r] # "failed"
  /\ crashes < MaxCrashes /\ crashes' = crashes + 1
  /\ Fail(r, "killed")
  /\ UNCHANGED <<shared, history>>

\* The server stops, hangs or comes back.
DatabaseChanges ==
  /\ db' \in {"up", "down", "hung"} \ {db}
  /\ blip' = [r \in Replicas |-> blip[r] \/ (db' # "up" /\ phase[r] \in Starting)]
  /\ UNCHANGED <<dsn, versions, commits, local, crashes, raced>>

Next == \/ \E r \in Replicas : MainStep(r) \/ PollStep(r) \/ Expire(r) \/ Crash(r)
        \/ DatabaseChanges

Spec == Init /\ [][Next]_vars

\* Goroutines are scheduled, and failed processes are started again.  Nothing is
\* assumed of the database.
FairSpec == Spec /\ \A r \in Replicas : WF_vars(MainStep(r)) /\ WF_vars(PollStep(r))

-----------------------------------------------------------------------------
(* Properties.                                                             *)

\* The server that goes into operation has the table, unless dbmate was sent elsewhere,
\* and of all the handles opened on the way there it has only its client's left
\* (database.go 74, 80, 84): the goroutine that leaves one open does so only in a process
\* that is about to end.
ReadyIsClean ==
  \A r \in Replicas : phase[r] = "ready" => /\ open[r] = {"client"}
                                            /\ commits > 0 \/ dsn = "astray"

\* A start fails for a reason: short of a kill or a deadline, its DSN does not parse or
\* loses its meaning on the way to dbmate, the database was away at some time of this
\* start, or another replica created a table of the migration during it.  With a good
\* DSN, a database that stays and no other replica a start that is in time succeeds.
FailureHasCause ==
  \A r \in Replicas :
    /\ err[r] = "parse" => dsn \in {"malformed", "unparsable"}
    /\ err[r] = "ping" => blip[r]
    /\ err[r] = "find" => blip[r] \/ dsn = "astray"
    /\ err[r] = "migrate" => blip[r] \/ raced[r] \/ dsn = "astray"

\* A main goroutine in the select of WaitForDB is not left there by the one that polls:
\* that one ends only after it has closed chDBReady or seen the deadline, which the
\* select sees too (database.go 75, 81, 92).
WaitIsAnswered ==
  \A r \in Replicas : phase[r] \in Waits /\ poll[r] = "none" => dbReady[r] \/ expired[r]

\* What these invariants rest on.  The handles a process has open ...
Connected == {"wait2", "find", "check", "create", "creating", "apply", "ready"}

HandlesAgree(r) ==
  /\ "client" \in open[r] <=> phase[r] \in Connected
  /\ "polled" \in open[r] => poll[r] \in {"select", "ping", "close"}
  /\ poll[r] \in {"ping", "close"} => "polled" \in open[r]
  /\ "left" \in open[r] => phase[r] \in Waits /\ poll[r] = "none" /\ ~dbReady[r]
  /\ dbReady[r] => poll[r] = "none"

\* ... how far the migration is: replicas that migrate at the same time create its
\* table once, and dbmate's own one before it ...
MigratedOnce == commits =< 1 /\ (commits > 0 => versions)

MigrationAgrees(r) ==
  /\ phase[r] = "ready" => commits > 0 \/ dsn = "astray"
  /\ phase[r] \in {"create", "creating", "apply"} => dsn # "astray"
  /\ phase[r] = "creating" /\ versions => raced[r]
  /\ phase[r] = "apply" => versions
  /\ phase[r] \in {"create", "apply"} /\ commits > 0 => raced[r]

\* ... and that no cause of a failure goes unseen.
CausesAreSeen(r) ==
  /\ phase[r] \in Starting /\ db # "up" => blip[r]
  /\ err[r] # "none" => phase[r] = "failed"

\* The inductive invariant.
Inductive ==
  /\ TypeOK /\ MigratedOnce /\ FailureHasCause
  /\ \A r \in Replicas : HandlesAgree(r) /\ MigrationAgrees(r) /\ CausesAreSeen(r)

\* As time passes, WaitForDB returns, although the server may hang, refuse or come and
\* go, and although the driver may refuse the DSN.
WaitEnds ==
  \A r \in Replicas : WF_vars(Expire(r)) => (phase[r] \in Waits ~> phase[r] \notin Waits)

\* Once the server answers and no deadline passes any more, every replica with a good DSN
\* gets ready: of those that create a table at the same time, all but one are started again.
EventuallyReady ==
  <>[](dsn = "good" /\ db = "up" /\ \A r \in Replicas : ~expired[r])
    => \A r \in Replicas : <>(phase[r] = "ready")
=============================================================================
