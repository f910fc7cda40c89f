------------------------------ MODULE WebServer ------------------------------
(***************************************************************************)
(* One web process, from its start to its end: run, runWebServer and       *)
(* buildWebServerOptions (cmd/main.go), NewWebServer, Start and Shutdown   *)
(* (internal/server/server.go), the probe toggles of the Controller        *)
(* (internal/html/handlers/handlers.go) and the configuration it is given  *)
(* (pkg/config/config.go).                                                 *)
(*                                                                         *)
(* phase is the main goroutine:                                            *)
(*   load      before signal.Notify                                        *)
(*   init      in buildWebServerOptions                                    *)
(*   select    in the select of runWebServer                               *)
(*   shutdown  in Shutdown, waiting for the requests in flight             *)
(*   exited    the process has ended                                       *)
(* server is the goroutine that calls Start:                               *)
(*   off, listen (before net.Listen), accept (in the loop of Serve),       *)
(*   ended (its result is in serverErr)                                    *)
(* at[r] is the goroutine of the request r:                                *)
(*   new       not made yet                                                *)
(*   load, store                                                           *)
(*             before that half of UpdateLivenessState (or Readiness)      *)
(*   probe     in Liveness or Readiness                                    *)
(*   page      on the way to a page: it publishes, counts, pings and       *)
(*             renders (module Producer)                                   *)
(*   answered  the response is written                                     *)
(*   cut       the process has ended before                                *)
(***************************************************************************)
EXTENDS Integers, FiniteSets

CONSTANTS Requests,            \* HTTP requests, each made once
          Configs,             \* the configurations the process may be given
          stopChanBufferSize,  \* room of stopChan
          MaxSignals           \* bound: stop signals sent to the process

\* What main reads: from a file or from the environment, and the stream name that
\* is in the environment in either case.  Names are "", or one of two.
Names  == {"", "s1", "s2"}
Config == [file : BOOLEAN, redisDSN : BOOLEAN, maxStreamLength : Int,
           streamName : Names, streamGroup : Names, dbDSN : BOOLEAN, env : Names]

ASSUME WebServerAssumption ==
  /\ \A c \in Configs : c \in Config /\ (~c.file => c.env = c.streamName)
  /\ stopChanBufferSize \in Nat \ {0}
  /\ MaxSignals \in Nat

VARIABLES
  cfg,        \* the configuration of the process
  stream,     \* the stream the Controller publishes to
  phase, server,
  serverErr,  \* the channel serverErr, with room for one result
  stopChan,   \* the signals in stopChan
  exit,       \* how the process ended
  at,
  route,      \* what each request asks for
  saw,        \* what it loaded
  state,      \* livenessState and readinessState
  status,     \* the answer of a probe
  (* history, for the properties only *)
  signals,    \* signals sent so far
  stored,     \* requests that have stored a toggle
  overtaken   \* requests whose load is old: another one has toggled the probe since

process  == <<cfg, stream, phase, server, serverErr, stopChan, exit>>
requests == <<at, route, saw, state, status, stored, overtaken>>
vars     == <<process, requests, signals>>

Probes  == {"liveness", "readiness"}
Routes  == [kind : {"none", "page", "toggle", "probe"}, probe : Probes]
Places  == {"new", "load", "store", "probe", "page", "answered", "cut"}

\* The connections that Shutdown waits for.
InFlight == {r \in Requests : at[r] \in {"load", "store", "probe", "page"}}

TypeOK ==
  /\ cfg \in Configs /\ stream \in Names
  /\ phase \in {"load", "init", "select", "shutdown", "exited"}
  /\ server \in {"off", "listen", "accept", "ended"}
  /\ serverErr \in {"empty", "nil", "error"}
  /\ stopChan \in 0..stopChanBufferSize
  /\ exit \in {"none", "ok", "error", "signal"}
  /\ at \in [Requests -> Places]
  /\ route \in [Requests -> Routes]
  /\ saw \in [Requests -> BOOLEAN]
  /\ state \in [Probes -> BOOLEAN]
  /\ status \in [Requests -> {0, 200, 503}]
  /\ signals \in 0..MaxSignals
  /\ stored \subseteq Requests /\ overtaken \subseteq Requests

Init ==
  /\ cfg \in Configs
  /\ stream = "" /\ phase = "load" /\ server = "off"
  /\ serverErr = "empty" /\ stopChan = 0 /\ exit = "none"
  /\ at     = [r \in Requests |-> "new"]
  /\ route  = [r \in Requests |-> [kind |-> "none", probe |-> "liveness"]]
  /\ saw    = [r \in Requests |-> FALSE]
  /\ state  = [p \in Probes |-> TRUE]
  /\ status = [r \in Requests |-> 0]
  /\ signals = 0 /\ stored = {} /\ overtaken = {}

-----------------------------------------------------------------------------
(* Configuration.                                                          *)

IsDBConfig(c)    == c.dbDSN
IsRedisConfig(c) == /\ c.redisDSN
                    /\ c.maxStreamLength # 0
                    /\ c.streamName # ""
                    /\ c.streamGroup # ""

\* buildWebServerOptions takes the name from the environment, also when the
\* configuration was read from a file.
StreamName(c) == c.env

-----------------------------------------------------------------------------
(* The main goroutine.                                                     *)

\* run returns, and the process ends with everything in it.
Exit(e) ==
  /\ phase' = "exited"
  /\ exit' = e
  /\ server' = "off"
  /\ stopChan' = 0
  /\ at' = [r \in Requests |-> IF r \in InFlight THEN "cut" ELSE at[r]]
  /\ UNCHANGED <<cfg, stream, serverErr, route, saw, state, status, stored, overtaken>>

\* The configuration is read, and from here on stopChan gets the signals.
LoadConfig ==
  /\ phase = "load"
  /\ phase' = "init"
  /\ UNCHANGED <<cfg, stream, server, serverErr, stopChan, exit, requests, signals>>

LoadFails ==
  /\ phase = "load"
  /\ Exit("error")
  /\ UNCHANGED signals

\* buildWebServerOptions succeeds (for the database this is module Startup); the
\* server is built, and the goroutine that runs it is started.
InitOK ==
  /\ phase = "init"
  /\ phase' = "select"
  /\ stream' = StreamName(cfg)
  /\ server' = "listen"
  /\ UNCHANGED <<cfg, serverErr, stopChan, exit, requests, signals>>

\* Redis or the database cannot be reached.
InitFails ==
  /\ phase = "init"
  /\ IsRedisConfig(cfg) \/ IsDBConfig(cfg)
  /\ Exit("error")
  /\ UNCHANGED signals

\* case err := <-serverErr
ReceiveServerErr ==
  /\ phase = "select" /\ serverErr # "empty"
  /\ IF serverErr = "error"
     THEN Exit("error")
     ELSE /\ phase' = "shutdown"
          /\ serverErr' = "empty"
          /\ UNCHANGED <<cfg, stream, server, stopChan, exit, requests>>
  /\ UNCHANGED signals

\* case <-stopChan, and the call of Shutdown, which is to close the listener.
ReceiveStop ==
  /\ phase = "select" /\ stopChan > 0
  /\ stopChan' = stopChan - 1
  /\ phase' = "shutdown"
  /\ UNCHANGED <<cfg, stream, server, serverErr, exit, requests, signals>>

\* MUTANT: Close in place of Shutdown does not wait.
CloseAtOnce ==
  /\ phase = "shutdown" /\ server # "accept"
  /\ Exit("ok")
  /\ UNCHANGED signals

\* Shutdown returns nil: the accept loop has ended, and no request is in flight.
ShutdownOK ==
  /\ phase = "shutdown" /\ server # "accept" /\ InFlight = {}
  /\ Exit("ok")
  /\ UNCHANGED signals

\* The deadline of serverShutdownTimeout ends it.
ShutdownTimeout ==
  /\ phase = "shutdown"
  /\ Exit("error")
  /\ UNCHANGED signals

MainStep == \/ LoadConfig \/ LoadFails \/ InitOK \/ InitFails \/ ReceiveServerErr
            \/ ReceiveStop \/ ShutdownOK \/ ShutdownTimeout

-----------------------------------------------------------------------------
(* The goroutine that runs the server.                                     *)

ServerEnds(e) == /\ server' = "ended"
                 /\ serverErr' = e
                 /\ UNCHANGED <<cfg, stream, phase, stopChan, exit, requests, signals>>

Listen ==
  /\ server = "listen"
  /\ server' = "accept"
  /\ UNCHANGED <<cfg, stream, phase, serverErr, stopChan, exit, requests, signals>>

\* MUTANT: every error of ListenAndServe counts as ErrServerClosed.
ListenErrorDropped ==
  /\ server \in {"listen", "accept"}
  /\ ServerEnds("nil")

\* The port is taken, or Accept returns an error that is not temporary.
ServeFails ==
  /\ server \in {"listen", "accept"}
  /\ ServerEnds("error")

\* ErrServerClosed, before or after it has begun to listen.
ServerCloses ==
  /\ server \in {"listen", "accept"} /\ phase = "shutdown"
  /\ ServerEnds("nil")

ServerStep == Listen \/ ServeFails \/ ServerCloses

-----------------------------------------------------------------------------
(* The requests.                                                           *)

\* A connection is accepted, possibly by an accept loop that has not seen yet that the
\* server shuts down; its request gets a goroutine of its own.
Accept(r) ==
  /\ at[r] = "new" /\ server = "accept"
  /\ \E k \in {"page", "toggle", "probe"}, p \in Probes :
       /\ k = "page" => p = "liveness"
       /\ route' = [route EXCEPT ![r] = [kind |-> k, probe |-> p]]
       /\ at' = [at EXCEPT ![r] = IF k = "toggle" THEN "load" ELSE k]
  /\ UNCHANGED <<process, signals, saw, state, status, stored, overtaken>>

\* UpdateLivenessState, or UpdateReadinessState: Load, ...
ToggleLoad(r) ==
  /\ at[r] = "load"
  /\ saw' = [saw EXCEPT ![r] = state[route[r].probe]]
  /\ at' = [at EXCEPT ![r] = "store"]
  /\ UNCHANGED <<process, signals, route, state, status, stored, overtaken>>

\* MUTANT: both handlers toggle the liveness state.
ToggleStoreLiveness(r) ==
  LET p == route[r].probe
  IN /\ at[r] = "store"
     /\ state' = [state EXCEPT !["liveness"] = ~saw[r]]
     /\ at' = [at EXCEPT ![r] = "page"]
     /\ stored' = stored \cup {r}
     /\ overtaken' = overtaken \cup
          {q \in Requests \ {r} : at[q] = "store" /\ route[q].probe = p}
     /\ UNCHANGED <<process, signals, route, saw, status>>

\* ... and Store; the page follows.
ToggleStore(r) ==
  LET p == route[r].probe
  IN /\ at[r] = "store"
     /\ state' = [state EXCEPT ![p] = ~saw[r]]
     /\ at' = [at EXCEPT ![r] = "page"]
     /\ stored' = stored \cup {r}
     /\ overtaken' = overtaken \cup
          {q \in Requests \ {r} : at[q] = "store" /\ route[q].probe = p}
     /\ UNCHANGED <<process, signals, route, saw, status>>

\* MUTANT: the handlers of the two probes are exchanged.
ProbeExchanged(r) ==
  /\ at[r] = "probe"
  /\ \E p \in Probes \ {route[r].probe} :
       status' = [status EXCEPT ![r] = IF state[p] THEN 200 ELSE 503]
  /\ at' = [at EXCEPT ![r] = "answered"]
  /\ UNCHANGED <<process, signals, route, saw, state, stored, overtaken>>

\* Liveness or Readiness answers.
Probe(r) ==
  /\ at[r] = "probe"
  /\ status' = [status EXCEPT ![r] = IF state[route[r].probe] THEN 200 ELSE 503]
  /\ at' = [at EXCEPT ![r] = "answered"]
  /\ UNCHANGED <<process, signals, route, saw, state, stored, overtaken>>

\* The page is rendered and sent, whenever Redis and the database have answered.
Page(r) ==
  /\ at[r] = "page"
  /\ at' = [at EXCEPT ![r] = "answered"]
  /\ UNCHANGED <<process, signals, route, saw, state, status, stored, overtaken>>

RequestStep(r) == Accept(r) \/ ToggleLoad(r) \/ ToggleStore(r) \/ Probe(r) \/ Page(r)

-----------------------------------------------------------------------------
(* The environment.                                                        *)

\* MUTANT: without a buffer a signal is lost unless main is waiting for it.
SignalUnbuffered ==
  /\ signals < MaxSignals /\ phase # "exited"
  /\ signals' = signals + 1
  /\ IF phase = "load"
     THEN Exit("signal")
     ELSE /\ stopChan' = IF phase = "select" THEN 1 ELSE stopChan
          /\ UNCHANGED <<cfg, stream, phase, server, serverErr, exit, requests>>

\* MUTANT: the buffer is not respected.
SignalOverflows ==
  /\ signals < MaxSignals /\ phase # "exited"
  /\ signals' = signals + 1
  /\ IF phase = "load"
     THEN Exit("signal")
     ELSE /\ stopChan' = stopChan + 1
          /\ UNCHANGED <<cfg, stream, phase, server, serverErr, exit, requests>>

\* A stop signal: it ends a process that has not called signal.Notify yet; package
\* signal drops it when stopChan is full.
Signal ==
  /\ signals < MaxSignals /\ phase # "exited"
  /\ signals' = signals + 1
  /\ IF phase = "load"
     THEN Exit("signal")
     ELSE /\ stopChan' = IF stopChan < stopChanBufferSize THEN stopChan + 1 ELSE stopChan
          /\ UNCHANGED <<cfg, stream, phase, server, serverErr, exit, requests>>

Next == \/ MainStep \/ ServerStep \/ Signal
        \/ \E r \in Requests : RequestStep(r)

Spec == Init /\ [][Next]_vars

\* The two goroutines of the process are scheduled, and the deadline of Shutdown passes
\* in time.  The initialisation is not assumed to end, because it pings the database
\* without a deadline (module Startup), nor is a request, whose page does the same.
FairSpec == Spec /\ WF_vars(phase # "init" /\ MainStep) /\ WF_vars(Listen \/ ServerCloses)

-----------------------------------------------------------------------------
(* Properties.                                                             *)

\* The process ends without an error (main.go 174-180) only if it has answered every
\* request it has accepted.
GracefulMeansAnswered ==
  exit = "ok" => \A r \in Requests : at[r] # "cut"

\* And only if it was told to stop: a server that cannot listen or serve ends the
\* process with its error, unless a stop signal is there at the same time.
OKMeansStopped == exit = "ok" => signals > 0

\* A stop signal ends the process, whether it comes while the process serves or shuts
\* down, and although requests may hang for ever; one that comes while it initialises
\* is not lost, and ends it once the initialisation is over.
StopEnds == signals > 0 /\ phase # "init" ~> phase = "exited"

\* As long as no toggle of a probe has been overtaken by another one, the state of the
\* probe is what the number of toggles makes it: the other probe's toggles do not
\* touch it, and none is lost.
TogglesAddUp ==
  \A p \in Probes :
    LET toggles == {r \in stored : route[r].probe = p}
    IN toggles \cap overtaken = {} => state[p] = (Cardinality(toggles) % 2 = 0)

\* Whatever happened before, a toggle that nobody overtakes between its Load and its
\* Store inverts the state it finds, and leaves the other probe alone.
ToggleTakesEffect ==
  [][\A r \in Requests :
       r \in stored' \ stored /\ r \notin overtaken
         => state' = [state EXCEPT ![route[r].probe] = ~@]]_vars

\* What main waits for in its select reaches it (main.go 165-172): a signal that came
\* during the initialisation, or while the buffer was full, is still there, and so is
\* the error of a server that has ended.
MainIsWoken ==
  phase \in {"load", "init", "select"} =>
    /\ signals > 0 => stopChan > 0
    /\ server = "ended" => serverErr = "error"

\* A probe fails only if somebody has toggled this probe, even when toggles overlap.
ProbeFailsByToggle ==
  \A r \in Requests :
    status[r] = 503 => \E q \in stored : route[q].probe = route[r].probe

\* What these invariants rest on.  The goroutines of the process agree, and
\* nothing is cut off before its end ...
ProcessAgrees ==
  /\ phase \in {"load", "init", "exited"} => server = "off"
  /\ phase = "exited" => InFlight = {}
  /\ phase # "exited" => exit = "none" /\ \A r \in Requests : at[r] # "cut"
  /\ serverErr = "nil" => phase \in {"shutdown", "exited"}
  /\ stopChan > 0 \/ phase = "shutdown" => signals > 0
  /\ phase \in {"select", "shutdown"} => stream = StreamName(cfg)

\* ... a toggle acts on the state it has loaded, unless another one stores between ...
LoadIsFresh ==
  \A r \in Requests :
    at[r] = "store" /\ r \notin overtaken => saw[r] = state[route[r].probe]

\* ... and a request toggles once, and has no answer before it is made.
StoresOnce ==
  /\ IsFiniteSet(stored)
  /\ \A r \in Requests : /\ at[r] \in {"new", "load", "store"} => r \notin stored
                         /\ at[r] \in {"new", "load"} => r \notin overtaken
                         /\ at[r] = "new" => status[r] = 0
  /\ \A p \in Probes : ~state[p] => \E q \in stored : route[q].probe = p

\* The inductive invariant.
Inductive == /\ TypeOK
             /\ ProcessAgrees /\ LoadIsFresh /\ StoresOnce
             /\ GracefulMeansAnswered /\ OKMeansStopped /\ MainIsWoken
             /\ TogglesAddUp /\ ProbeFailsByToggle

=============================================================================
