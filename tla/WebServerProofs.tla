--------------------------- MODULE WebServerProofs ---------------------------
(***************************************************************************)
(* Proofs about module WebServer, for every number of requests and         *)
(* signals, every configuration and size of the signal buffer.             *)
(***************************************************************************)
EXTENDS WebServer, FiniteSetTheorems, TLAPS

USE WebServerAssumption DEF WebServerAssumption

LEMMA NoneIsEven == IsFiniteSet({}) /\ Cardinality({}) % 2 = 0
<1>1. IsFiniteSet({}) /\ Cardinality({}) = 0
  BY FS_EmptySet
<1>2. 0 % 2 = 0
  OBVIOUS
<1>3. QED
  BY <1>1, <1>2

LEMMA InitInductive == Init => Inductive
<1> SUFFICES ASSUME Init PROVE Inductive
  OBVIOUS
<1>1. TypeOK
  <2>1. [kind |-> "none", probe |-> "liveness"] \in Routes
    BY DEF Routes, Probes
  <2>2. route \in [Requests -> Routes]
    BY <2>1 DEF Init
  <2>3. /\ cfg \in Configs /\ stream \in Names /\ stopChan \in 0..stopChanBufferSize
        /\ signals \in 0..MaxSignals
    <3>1. cfg \in Configs /\ stream = "" /\ stopChan = 0 /\ signals = 0
      BY Zenon DEF Init
    <3>2. "" \in Names
      BY DEF Names
    <3>3. 0 \in 0..stopChanBufferSize /\ 0 \in 0..MaxSignals
      OBVIOUS
    <3>4. QED
      BY <3>1, <3>2, <3>3
  <2>4. /\ at \in [Requests -> Places] /\ saw \in [Requests -> BOOLEAN]
        /\ state \in [Probes -> BOOLEAN] /\ status \in [Requests -> {0, 200, 503}]
    BY DEF Init, Places
  <2>5. QED
    BY <2>2, <2>3, <2>4 DEF Init, TypeOK
<1>2. /\ ProcessAgrees /\ LoadIsFresh /\ GracefulMeansAnswered /\ OKMeansStopped
      /\ MainIsWoken
  BY DEF Init, ProcessAgrees, LoadIsFresh, GracefulMeansAnswered, OKMeansStopped, MainIsWoken
<1>3. ProbeFailsByToggle
  <2>1. \A r \in Requests : status[r] = 0
    BY DEF Init
  <2>2. QED
    BY <2>1 DEF ProbeFailsByToggle
<1>4. StoresOnce
  BY NoneIsEven DEF Init, StoresOnce
<1>5. TogglesAddUp
  <2>1. \A p \in Probes : {r \in stored : route[r].probe = p} = {} /\ state[p]
    BY DEF Init
  <2>2. QED
    BY <2>1, NoneIsEven DEF TogglesAddUp
<1>6. QED
  BY <1>1, <1>2, <1>3, <1>4, <1>5 DEF Inductive

-----------------------------------------------------------------------------
(* The process.                                                            *)

\* The properties of the toggles are about these variables alone.
LEMMA TogglesAreKept ==
  ASSUME Inductive, UNCHANGED <<route, saw, state, status, stored, overtaken>>,
         \A r \in Requests : at'[r] = at[r] \/ at'[r] = "cut"
  PROVE  LoadIsFresh' /\ StoresOnce' /\ TogglesAddUp' /\ ProbeFailsByToggle'
  BY DEF Inductive, LoadIsFresh, StoresOnce, TogglesAddUp, ProbeFailsByToggle

LEMMA ExitIsSound ==
  ASSUME Inductive, NEW e \in {"ok", "error", "signal"}, Exit(e), phase # "exited",
         signals' \in 0..MaxSignals, signals =< signals',
         e = "ok" => InFlight = {} /\ signals > 0
  PROVE  Inductive'
<1> USE DEF Inductive, Exit
<1>1. TypeOK'
  BY DEF TypeOK, Places
<1>2. \A r \in Requests : at'[r] = at[r] \/ at'[r] = "cut"
  OBVIOUS
<1>3. \A r \in Requests : at'[r] \notin {"load", "store", "probe", "page"}
  BY DEF InFlight
<1>4. ProcessAgrees'
  BY <1>3 DEF ProcessAgrees, InFlight, TypeOK
<1>5. GracefulMeansAnswered' /\ OKMeansStopped' /\ MainIsWoken'
  BY DEF GracefulMeansAnswered, OKMeansStopped, MainIsWoken, ProcessAgrees, TypeOK
<1>6. LoadIsFresh' /\ StoresOnce' /\ TogglesAddUp' /\ ProbeFailsByToggle'
  BY <1>2, TogglesAreKept
<1>7. QED
  BY <1>1, <1>4, <1>5, <1>6

\* A step of the process that leaves the requests alone and does not end it.
LEMMA GoesOnIsSound ==
  ASSUME Inductive, UNCHANGED <<exit, requests>>, TypeOK', ProcessAgrees',
         MainIsWoken', signals =< signals', phase # "exited"
  PROVE  Inductive'
<1> USE DEF Inductive, requests
<1>1. LoadIsFresh' /\ StoresOnce' /\ TogglesAddUp' /\ ProbeFailsByToggle'
  BY TogglesAreKept
<1>2. GracefulMeansAnswered' /\ OKMeansStopped'
  BY DEF GracefulMeansAnswered, OKMeansStopped, ProcessAgrees
<1>3. QED
  BY <1>1, <1>2

LEMMA MainStepInductive == ASSUME Inductive, MainStep PROVE Inductive'
<1> USE DEF Inductive
<1>1. signals \in 0..MaxSignals
  BY DEF TypeOK
<1>2. CASE LoadFails \/ InitFails \/ ShutdownTimeout
  BY <1>1, <1>2, ExitIsSound DEF LoadFails, InitFails, ShutdownTimeout
<1>3. CASE ShutdownOK
  BY <1>1, <1>3, ExitIsSound DEF ShutdownOK, ProcessAgrees
<1>4. CASE LoadConfig
  <2>1. TypeOK' /\ ProcessAgrees' /\ MainIsWoken'
    BY <1>4 DEF LoadConfig, TypeOK, ProcessAgrees, MainIsWoken, requests
  <2>2. QED
    BY <1>1, <1>4, <2>1, GoesOnIsSound DEF LoadConfig
<1>5. CASE InitOK
  <2>1. StreamName(cfg) \in Names
    BY DEF TypeOK, StreamName, Config
  <2>2. TypeOK' /\ ProcessAgrees' /\ MainIsWoken'
    BY <1>5, <2>1 DEF InitOK, TypeOK, ProcessAgrees, MainIsWoken, requests
  <2>3. QED
    BY <1>1, <1>5, <2>2, GoesOnIsSound DEF InitOK
<1>6. CASE ReceiveServerErr
  <2>1. serverErr = "error"
    BY <1>6 DEF ReceiveServerErr, ProcessAgrees, TypeOK
  <2>2. QED
    BY <1>1, <1>6, <2>1, ExitIsSound DEF ReceiveServerErr
<1>7. CASE ReceiveStop
  <2>1. TypeOK' /\ ProcessAgrees' /\ MainIsWoken'
    BY <1>7 DEF ReceiveStop, TypeOK, ProcessAgrees, MainIsWoken, requests
  <2>2. QED
    BY <1>1, <1>7, <2>1, GoesOnIsSound DEF ReceiveStop
<1>8. QED
  BY <1>2, <1>3, <1>4, <1>5, <1>6, <1>7 DEF MainStep

LEMMA ServerStepInductive == ASSUME Inductive, ServerStep PROVE Inductive'
<1> USE DEF Inductive
<1>1. signals \in 0..MaxSignals /\ signals' = signals /\ UNCHANGED <<exit, requests, phase>>
  BY DEF TypeOK, ServerStep, Listen, ServeFails, ServerCloses, ServerEnds
<1>2. TypeOK'
  BY DEF ServerStep, Listen, ServeFails, ServerCloses, ServerEnds, TypeOK, requests
<1>3. phase # "exited"
  BY DEF ServerStep, Listen, ServeFails, ServerCloses, ProcessAgrees
<1>4. ProcessAgrees'
  BY <1>3 DEF ServerStep, Listen, ServeFails, ServerCloses, ServerEnds, ProcessAgrees,
     requests, TypeOK
<1>5. MainIsWoken'
  BY DEF ServerStep, Listen, ServeFails, ServerCloses, ServerEnds, MainIsWoken
<1>6. QED
  BY <1>1, <1>2, <1>3, <1>4, <1>5, GoesOnIsSound

LEMMA SignalInductive == ASSUME Inductive, Signal PROVE Inductive'
<1> USE DEF Inductive
<1>1. /\ signals' \in 0..MaxSignals /\ signals =< signals' /\ signals' > 0
      /\ phase # "exited"
  BY DEF Signal, TypeOK
<1>2. CASE phase = "load"
  BY <1>1, <1>2, ExitIsSound DEF Signal
<1>3. CASE phase # "load"
  <2>1. TypeOK' /\ ProcessAgrees' /\ MainIsWoken'
    BY <1>1, <1>3 DEF Signal, TypeOK, ProcessAgrees, MainIsWoken, requests
  <2>2. QED
    BY <1>1, <1>3, <2>1, GoesOnIsSound DEF Signal
<1>4. QED
  BY <1>2, <1>3

-----------------------------------------------------------------------------
(* The requests.                                                           *)

\* The other variables stay as they are while a request moves on.
LEMMA RequestMovesOn ==
  ASSUME Inductive, UNCHANGED <<process, signals>>,
         NEW r \in Requests, NEW l \in {"load", "store", "probe", "page", "answered"},
         at' = [at EXCEPT ![r] = l], phase # "exited"
  PROVE  ProcessAgrees' /\ GracefulMeansAnswered' /\ OKMeansStopped' /\ MainIsWoken'
<1> USE DEF Inductive, process
<1>1. \A q \in Requests : at'[q] # "cut"
  BY DEF TypeOK, ProcessAgrees
<1>2. ProcessAgrees'
  BY <1>1 DEF TypeOK, ProcessAgrees
<1>3. QED
  BY <1>1, <1>2 DEF GracefulMeansAnswered, OKMeansStopped, MainIsWoken

\* A process that has ended runs no request.
LEMMA RunningRequest ==
  ASSUME Inductive, NEW r \in Requests,
         at[r] \in {"load", "store", "probe", "page"}
  PROVE  phase # "exited"
  BY DEF Inductive, ProcessAgrees, InFlight

LEMMA AcceptInductive == ASSUME Inductive, NEW r \in Requests, Accept(r) PROVE Inductive'
<1> USE DEF Inductive
<1>1. PICK k \in {"page", "toggle", "probe"}, p \in Probes :
         /\ route' = [route EXCEPT ![r] = [kind |-> k, probe |-> p]]
         /\ at' = [at EXCEPT ![r] = IF k = "toggle" THEN "load" ELSE k]
  BY DEF Accept
<1>2. /\ at[r] = "new" /\ phase # "exited"
      /\ UNCHANGED <<process, signals, saw, state, status, stored, overtaken>>
  BY DEF Accept, ProcessAgrees
<1>3. [kind |-> k, probe |-> p] \in Routes
  BY DEF Routes
<1>4. TypeOK'
  BY <1>1, <1>2, <1>3 DEF TypeOK, process, Places
<1>5. /\ r \notin stored /\ status[r] = 0 /\ at'[r] \notin {"new", "store"}
      /\ \A q \in Requests \ {r} : route'[q] = route[q] /\ at'[q] = at[q]
      /\ stored \subseteq Requests
  BY <1>1, <1>2 DEF TypeOK, StoresOnce
<1>6. \A q \in stored : route'[q] = route[q]
  BY <1>5
<1>7. LoadIsFresh' /\ ProbeFailsByToggle'
  BY <1>2, <1>5, <1>6 DEF LoadIsFresh, ProbeFailsByToggle
<1>8. StoresOnce'
  BY <1>2, <1>5, <1>6 DEF StoresOnce
<1>9. TogglesAddUp'
  <2>1. ASSUME NEW s \in Probes
        PROVE  {q \in stored' : route'[q].probe = s} = {q \in stored : route[q].probe = s}
    BY <1>2, <1>6
  <2>2. QED
    BY <1>2, <2>1 DEF TogglesAddUp
<1>10. ProcessAgrees' /\ GracefulMeansAnswered' /\ OKMeansStopped' /\ MainIsWoken'
  BY <1>1, <1>2, RequestMovesOn
<1>11. QED
  BY <1>4, <1>7, <1>8, <1>9, <1>10

\* Every step but the two halves of a toggle leaves the toggles alone.
LEMMA AnswerInductive ==
  ASSUME Inductive, NEW r \in Requests, Probe(r) \/ Page(r) PROVE Inductive'
<1> USE DEF Inductive
<1>1. /\ at[r] \in {"probe", "page"} /\ at' = [at EXCEPT ![r] = "answered"]
      /\ UNCHANGED <<process, signals, route, saw, state, stored, overtaken>>
  BY DEF Probe, Page
<1>2. \/ UNCHANGED status
      \/ status' = [status EXCEPT ![r] = IF state[route[r].probe] THEN 200 ELSE 503]
  BY DEF Probe, Page
<1>3. route[r].probe \in Probes
  BY DEF TypeOK, Routes
<1>4. TypeOK'
  BY <1>1, <1>2 DEF TypeOK, process, Places
<1>5. /\ \A q \in Requests \ {r} : status'[q] = status[q] /\ at'[q] = at[q]
      /\ at'[r] = "answered"
      /\ status'[r] = 503 => status[r] = 503 \/ ~state[route[r].probe]
  BY <1>1, <1>2 DEF TypeOK
<1>6. LoadIsFresh' /\ TogglesAddUp'
  BY <1>1, <1>5 DEF LoadIsFresh, TogglesAddUp
<1>7. StoresOnce'
  BY <1>1, <1>5 DEF StoresOnce
<1>8. ProbeFailsByToggle'
  BY <1>1, <1>3, <1>5 DEF ProbeFailsByToggle, StoresOnce
<1>9. ProcessAgrees' /\ GracefulMeansAnswered' /\ OKMeansStopped' /\ MainIsWoken'
  BY <1>1, RunningRequest, RequestMovesOn
<1>10. QED
  BY <1>4, <1>6, <1>7, <1>8, <1>9

LEMMA ToggleLoadInductive ==
  ASSUME Inductive, NEW r \in Requests, ToggleLoad(r) PROVE Inductive'
<1> USE DEF Inductive
<1>1. /\ at[r] = "load" /\ at' = [at EXCEPT ![r] = "store"]
      /\ saw' = [saw EXCEPT ![r] = state[route[r].probe]]
      /\ UNCHANGED <<process, signals, route, state, status, stored, overtaken>>
  BY DEF ToggleLoad
<1>2. route[r].probe \in Probes
  BY DEF TypeOK, Routes
<1>3. TypeOK'
  BY <1>1, <1>2 DEF TypeOK, process, Places
<1>4. /\ saw'[r] = state[route[r].probe] /\ at'[r] = "store"
      /\ \A q \in Requests \ {r} : saw'[q] = saw[q] /\ at'[q] = at[q]
  BY <1>1 DEF TypeOK
<1>5. LoadIsFresh'
  BY <1>1, <1>4 DEF LoadIsFresh
<1>6. StoresOnce' /\ TogglesAddUp' /\ ProbeFailsByToggle'
  BY <1>1, <1>4 DEF StoresOnce, TogglesAddUp, ProbeFailsByToggle
<1>7. ProcessAgrees' /\ GracefulMeansAnswered' /\ OKMeansStopped' /\ MainIsWoken'
  BY <1>1, RunningRequest, RequestMovesOn
<1>8. QED
  BY <1>3, <1>5, <1>6, <1>7

\* One more toggle turns an even number into an odd one, and back.
LEMMA OneMore == \A n \in Nat : ((n + 1) % 2 = 0) <=> ~(n % 2 = 0)
  OBVIOUS

LEMMA ToggleStoreInductive ==
  ASSUME Inductive, NEW r \in Requests, ToggleStore(r) PROVE Inductive'
<1> USE DEF Inductive
<1> DEFINE p == route[r].probe
           late == {q \in Requests \ {r} : at[q] = "store" /\ route[q].probe = p}
           T(s) == {q \in stored : route[q].probe = s}
<1>1. /\ at[r] = "store" /\ at' = [at EXCEPT ![r] = "page"]
      /\ state' = [state EXCEPT ![p] = ~saw[r]]
      /\ stored' = stored \cup {r}
      /\ overtaken' = overtaken \cup late
      /\ UNCHANGED <<process, signals, route, saw, status>>
  BY DEF ToggleStore
<1>2. p \in Probes /\ r \notin stored /\ IsFiniteSet(stored) /\ stored \subseteq Requests
  BY <1>1 DEF TypeOK, Routes, StoresOnce
<1>3. TypeOK'
  <2>1. state' \in [Probes -> BOOLEAN]
    BY <1>1 DEF TypeOK
  <2>2. overtaken' \subseteq Requests
    BY <1>1, <1>2 DEF TypeOK
  <2>3. at' \in [Requests -> Places] /\ stored' \subseteq Requests
    BY <1>1 DEF TypeOK, Places
  <2>4. QED
    BY <1>1, <2>1, <2>2, <2>3 DEF TypeOK, process
<1>4. /\ at'[r] = "page" /\ \A q \in Requests \ {r} : at'[q] = at[q]
      /\ state'[p] = ~saw[r] /\ \A s \in Probes \ {p} : state'[s] = state[s]
  <2>1. at \in [Requests -> Places] /\ state \in [Probes -> BOOLEAN]
    BY DEF TypeOK
  <2>2. at'[r] = "page" /\ \A q \in Requests \ {r} : at'[q] = at[q]
    BY <1>1, <2>1
  <2>3. state'[p] = ~saw[r]
    BY <1>1, <1>2, <2>1, Zenon
  <2>4. \A s \in Probes \ {p} : state'[s] = state[s]
    BY <1>1, <2>1, Zenon
  <2>5. QED
    BY <2>2, <2>3, <2>4
<1>5. LoadIsFresh'
  <2> SUFFICES ASSUME NEW q \in Requests, at'[q] = "store", q \notin overtaken'
               PROVE  saw[q] = state'[route[q].probe]
    BY <1>1 DEF LoadIsFresh
  <2>1. q # r /\ at[q] = "store" /\ route[q].probe \in Probes
    BY <1>4 DEF TypeOK, Routes
  <2>2. route[q].probe # p /\ q \notin overtaken
    BY <1>1, <2>1
  <2>3. QED
    BY <1>4, <2>1, <2>2 DEF LoadIsFresh
<1>6. StoresOnce'
  <2>1. IsFiniteSet(stored')
    BY <1>1, <1>2, FS_AddElement
  <2>2. \A q \in Requests : /\ at'[q] \in {"new", "load", "store"} => q \notin stored'
                            /\ at'[q] \in {"new", "load"} => q \notin overtaken'
                            /\ at'[q] = "new" => status[q] = 0
    BY <1>1, <1>4 DEF StoresOnce
  <2>3. \A s \in Probes : ~state'[s] => \E q \in stored' : route[q].probe = s
    BY <1>1, <1>4 DEF StoresOnce
  <2>4. QED
    BY <1>1, <2>1, <2>2, <2>3 DEF StoresOnce
<1>7. ProbeFailsByToggle'
  BY <1>1 DEF ProbeFailsByToggle
<1>8. TogglesAddUp'
  <2> DEFINE Td(s) == {q \in stored' : route[q].probe = s}
  <2> SUFFICES ASSUME NEW s \in Probes, Td(s) \cap overtaken' = {}
               PROVE  state'[s] = (Cardinality(Td(s)) % 2 = 0)
    BY <1>1 DEF TogglesAddUp
  <2>1. state[s] = (Cardinality(T(s)) % 2 = 0)
    <3>1. T(s) \cap overtaken = {}
      BY <1>1
    <3>2. QED
      BY <3>1 DEF TogglesAddUp
  <2>2. CASE s # p
    <3>1. Td(s) = T(s)
      BY <1>1, <2>2
    <3>2. QED
      BY <1>4, <2>1, <2>2, <3>1
  <2>3. CASE s = p
    <3>1. Td(s) = T(s) \cup {r} /\ r \notin T(s)
      BY <1>1, <1>2, <2>3
    <3>2. IsFiniteSet(T(s)) /\ Cardinality(T(s)) \in Nat
      <4>1. T(s) \in SUBSET stored
        OBVIOUS
      <4>2. QED
        BY <1>2, <4>1, FS_Subset, FS_CardinalityType
    <3>3. Cardinality(T(s) \cup {r}) = Cardinality(T(s)) + 1
      BY <3>1, <3>2, FS_AddElement
    <3>4. saw[r] = state[s]
      <4>1. r \in Td(s)
        BY <1>1, <2>3
      <4>2. r \notin overtaken
        BY <1>1, <4>1
      <4>3. QED
        BY <1>1, <2>3, <4>2 DEF LoadIsFresh
    <3>5. state'[s] = ~state[s]
      BY <1>1, <1>2, <2>3, <3>4 DEF TypeOK
    <3>6. (Cardinality(T(s)) + 1) % 2 = 0 <=> ~(Cardinality(T(s)) % 2 = 0)
      BY <3>2, OneMore
    <3> HIDE DEF T, Td
    <3>7. QED
      BY <2>1, <3>1, <3>3, <3>5, <3>6
  <2>4. QED
    BY <2>2, <2>3
<1>9. ProcessAgrees' /\ GracefulMeansAnswered' /\ OKMeansStopped' /\ MainIsWoken'
  BY <1>1, RunningRequest, RequestMovesOn
<1>10. QED
  BY <1>3, <1>5, <1>6, <1>7, <1>8, <1>9

-----------------------------------------------------------------------------
(* The theorems.                                                           *)

LEMMA NextInductive == Inductive /\ [Next]_vars => Inductive'
<1> SUFFICES ASSUME Inductive, [Next]_vars PROVE Inductive'
  OBVIOUS
<1>1. CASE MainStep \/ ServerStep \/ Signal
  BY <1>1, MainStepInductive, ServerStepInductive, SignalInductive
<1>2. ASSUME NEW r \in Requests, RequestStep(r) PROVE Inductive'
  BY <1>2, AcceptInductive, ToggleLoadInductive, ToggleStoreInductive, AnswerInductive
     DEF RequestStep
<1>3. CASE UNCHANGED vars
  BY <1>3 DEF vars, process, requests, Inductive, TypeOK, ProcessAgrees, LoadIsFresh,
              StoresOnce, GracefulMeansAnswered, OKMeansStopped, MainIsWoken, TogglesAddUp,
              ProbeFailsByToggle, InFlight
<1>4. QED
  BY <1>1, <1>2, <1>3 DEF Next

\* The invariant the others rest on: the states of main, server and requests agree,
\* and a toggle acts on what it loaded.
THEOREM InductiveHolds == Spec => []Inductive
  BY InitInductive, NextInductive, PTL DEF Spec

\* Every variable stays in its type; stopChan in its buffer.
THEOREM TypeCorrect == Spec => []TypeOK
<1>1. Inductive => TypeOK
  BY DEF Inductive
<1>2. QED
  BY <1>1, InductiveHolds, PTL

\* A process that ends without an error has answered all it accepted.
THEOREM GracefulMeansAnsweredHolds == Spec => []GracefulMeansAnswered
<1>1. Inductive => GracefulMeansAnswered
  BY DEF Inductive
<1>2. QED
  BY <1>1, InductiveHolds, PTL

\* A process that ends without an error was told to.
THEOREM OKMeansStoppedHolds == Spec => []OKMeansStopped
<1>1. Inductive => OKMeansStopped
  BY DEF Inductive
<1>2. QED
  BY <1>1, InductiveHolds, PTL

\* Toggles of a probe that do not overlap add up, whatever else is requested.
THEOREM TogglesAddUpHolds == Spec => []TogglesAddUp
<1>1. Inductive => TogglesAddUp
  BY DEF Inductive
<1>2. QED
  BY <1>1, InductiveHolds, PTL

\* A probe fails only after a toggle of the same probe.
THEOREM ProbeFailsByToggleHolds == Spec => []ProbeFailsByToggle
<1>1. Inductive => ProbeFailsByToggle
  BY DEF Inductive
<1>2. QED
  BY <1>1, InductiveHolds, PTL

\* A signal, or the error of a server that has ended, waits for main.
THEOREM MainIsWokenHolds == Spec => []MainIsWoken
<1>1. Inductive => MainIsWoken
  BY DEF Inductive
<1>2. QED
  BY <1>1, InductiveHolds, PTL

-----------------------------------------------------------------------------
(* A toggle that nobody overtakes.                                         *)

\* Only the second half of a toggle stores one.
LEMMA StoredByToggle ==
  ASSUME Next, NEW r \in Requests, r \in stored' \ stored
  PROVE  ToggleStore(r)
<1>1. MainStep \/ ServerStep \/ Signal => stored' = stored
  BY DEF MainStep, LoadConfig, LoadFails, InitOK, InitFails, ReceiveServerErr, ReceiveStop,
     ShutdownOK, ShutdownTimeout, ServerStep, Listen, ServeFails, ServerCloses, ServerEnds,
     Signal, Exit, requests
<1>2. PICK q \in Requests : RequestStep(q)
  BY <1>1 DEF Next
<1>3. Accept(q) \/ ToggleLoad(q) \/ Probe(q) \/ Page(q) => stored' = stored
  BY DEF Accept, ToggleLoad, Probe, Page
<1>4. ToggleStore(q)
  BY <1>2, <1>3 DEF RequestStep
<1>5. q = r
  BY <1>4 DEF ToggleStore
<1>6. QED
  BY <1>4, <1>5

LEMMA ToggleInverts ==
  ASSUME Inductive, NEW r \in Requests, ToggleStore(r), r \notin overtaken
  PROVE  state' = [state EXCEPT ![route[r].probe] = ~@]
<1> DEFINE p == route[r].probe
<1>1. state' = [state EXCEPT ![p] = ~saw[r]]
  BY DEF ToggleStore
<1>2. saw[r] = state[p]
  BY DEF Inductive, LoadIsFresh, ToggleStore
<1>3. QED
  BY <1>1, <1>2, Zenon

\* A toggle that nobody overtakes inverts its probe and leaves the other alone,
\* whatever the toggles before it have lost.
THEOREM ToggleTakesEffectHolds == Spec => ToggleTakesEffect
<1> DEFINE Inverts(r) == r \in stored' \ stored /\ r \notin overtaken
                           => state' = [state EXCEPT ![route[r].probe] = ~@]
<1>1. Inductive /\ Next => \A r \in Requests : Inverts(r)
  BY StoredByToggle, ToggleInverts
<1>2. Inductive /\ [Next]_vars => [\A r \in Requests : Inverts(r)]_vars
  BY <1>1
<1>3. QED
  BY <1>2, InductiveHolds, PTL DEF Spec, ToggleTakesEffect
=============================================================================
