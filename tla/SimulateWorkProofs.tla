-------------------------- MODULE SimulateWorkProofs --------------------------
(***************************************************************************)
(* Proofs about module SimulateWork, for every size, buffer size and       *)
(* channel capacity.                                                       *)
(***************************************************************************)
EXTENDS SimulateWork, TLAPS

USE SimulateWorkAssumption DEF SimulateWorkAssumption, given, data, pipe, chans, ret

LEMMA InitInductive == Init => Inductive
<1> SUFFICES ASSUME Init PROVE Inductive
  OBVIOUS
<1> USE DEF Init
<1>1. canceled \in BOOLEAN /\ prClosed \in BOOLEAN /\ pwClosed \in BOOLEAN
  OBVIOUS
<1>2. TypeOK
  BY <1>1 DEF TypeOK, Results
<1>3. DataIsOrdered /\ PipeIsOpen /\ ErrorsAreCaused /\ ReportsArrive
  BY DEF DataIsOrdered, PipeIsOpen, ErrorsAreCaused, ReportsArrive, Reported, AllWritten
<1>4. ChecksumIsComplete /\ FailureHasCause
  BY DEF ChecksumIsComplete, FailureHasCause
<1>5. QED
  BY <1>2, <1>3, <1>4 DEF Inductive

-----------------------------------------------------------------------------
(* The generator's steps.                                                  *)

LEMMA GenInductive == Inductive /\ (GenStep \/ Transfer) => Inductive'
<1> SUFFICES ASSUME Inductive, GenStep \/ Transfer PROVE Inductive'
  OBVIOUS
<1> USE DEF Inductive, TypeOK, DataIsOrdered, PipeIsOpen, ErrorsAreCaused,
            ReportsArrive, Reported,
            ChecksumIsComplete, FailureHasCause, AllWritten
<1>1. CASE GenStart
  BY <1>1 DEF GenStart
<1>2. CASE GenFill
  BY <1>2 DEF GenFill
<1>3. CASE Transfer
  BY <1>3 DEF Transfer, WriteSize, Remaining
<1>4. CASE WriteFails
  BY <1>4 DEF WriteFails
<1>5. CASE GenReport
  BY <1>5 DEF GenReport, ErrChanHasRoom
<1>6. CASE GenClose
  BY <1>6 DEF GenClose
<1>7. QED
  BY <1>1, <1>2, <1>3, <1>4, <1>5, <1>6 DEF GenStep

LEMMA HashInductive == Inductive /\ HashStep => Inductive'
<1> SUFFICES ASSUME Inductive, HashStep PROVE Inductive'
  OBVIOUS
<1> USE DEF Inductive, TypeOK, DataIsOrdered, PipeIsOpen, ErrorsAreCaused,
            ReportsArrive, Reported,
            ChecksumIsComplete, FailureHasCause, AllWritten
<1>1. CASE ReadEnds
  BY <1>1 DEF ReadEnds
<1>2. CASE HashSum
  BY <1>2 DEF HashSum
<1>3. CASE HashReport
  BY <1>3 DEF HashReport, ErrChanHasRoom
<1>4. QED
  BY <1>1, <1>2, <1>3 DEF HashStep

LEMMA CallInductive == Inductive /\ (CallStep \/ CtxDone) => Inductive'
<1> SUFFICES ASSUME Inductive, CallStep \/ CtxDone PROVE Inductive'
  OBVIOUS
<1> USE DEF Inductive, TypeOK, DataIsOrdered, PipeIsOpen, ErrorsAreCaused,
            ReportsArrive, Reported,
            ChecksumIsComplete, FailureHasCause, AllWritten, Results
<1>1. CASE Cancel
  BY <1>1 DEF Cancel
<1>2. CASE TakeError
  BY <1>2 DEF TakeError
<1>3. CASE TakeNil
  BY <1>3 DEF TakeNil
<1>4. CASE TakeHash
  BY <1>4 DEF TakeHash
<1>5. CASE CtxDone
  BY <1>5 DEF CtxDone
<1>6. QED
  BY <1>1, <1>2, <1>3, <1>4, <1>5 DEF CallStep

-----------------------------------------------------------------------------
(* The invariant and what follows from it.                                 *)

LEMMA NextInductive == Inductive /\ [Next]_vars => Inductive'
<1> SUFFICES ASSUME Inductive, [Next]_vars PROVE Inductive'
  OBVIOUS
<1>1. CASE GenStep \/ Transfer
  BY <1>1, GenInductive
<1>2. CASE HashStep
  BY <1>2, HashInductive
<1>3. CASE CallStep \/ CtxDone
  BY <1>3, CallInductive
<1>4. CASE UNCHANGED vars
  BY <1>4 DEF vars, Inductive, TypeOK, DataIsOrdered, PipeIsOpen, ErrorsAreCaused,
              ReportsArrive, Reported, ChecksumIsComplete, FailureHasCause, AllWritten
<1>5. QED
  BY <1>1, <1>2, <1>3, <1>4 DEF Next

\* The parts of the invariant hold throughout a call: the two goroutines keep
\* to the order of the loop in GenerateRandomData and its deferred close.
THEOREM InductiveHolds == Spec => []Inductive
<1>1. Init => Inductive
  BY InitInductive
<1>2. Inductive /\ [Next]_vars => Inductive'
  BY NextInductive
<1>3. QED
  BY <1>1, <1>2, PTL DEF Spec

\* Every variable keeps its type; errChan never holds more than its capacity.
THEOREM TypeCorrect == Spec => []TypeOK
<1>1. Inductive => TypeOK
  BY DEF Inductive
<1>2. QED
  BY <1>1, InductiveHolds, PTL

\* SimulateWork returns the checksum of all the data or none, whatever the
\* size, the buffer and the order in which the goroutines run.
THEOREM ChecksumIsCompleteHolds == Spec => []ChecksumIsComplete
<1>1. Inductive => ChecksumIsComplete
  BY DEF Inductive
<1>2. QED
  BY <1>1, InductiveHolds, PTL

\* SimulateWork fails only for an invalid size or a cancelled context.
THEOREM FailureHasCauseHolds == Spec => []FailureHasCause
<1>1. Inductive => FailureHasCause
  BY DEF Inductive
<1>2. QED
  BY <1>1, InductiveHolds, PTL

-----------------------------------------------------------------------------
(* Channels and pipe.                                                      *)

\* With room for both goroutines' reports in errChan, pipeChannelBuffer being 2
\* in the code, no goroutine of a call and no select of its caller waits for
\* what cannot come any more.
THEOREM NobodyIsStuckHolds ==
  ASSUME PipeChannelBuffer >= 2 PROVE Spec => []NobodyIsStuck
<1>1. Inductive => NobodyIsStuck
  BY DEF Inductive, TypeOK, DataIsOrdered, PipeIsOpen, ErrorsAreCaused, ReportsArrive,
         Reported, NobodyIsStuck, ErrChanHasRoom
<1>2. QED
  BY <1>1, InductiveHolds, PTL

-----------------------------------------------------------------------------
(* The promise to the caller.                                              *)

LEMMA StepOfJob == Inductive /\ [Next]_vars => [Job!Next]_(Job!vars)
<1> SUFFICES ASSUME Inductive, [Next]_vars PROVE [Job!Next]_(Job!vars)
  OBVIOUS
<1> USE DEF Job!vars, Job!Next, Job!Return
<1>1. CASE GenStep \/ Transfer \/ HashStep
  BY <1>1 DEF GenStep, GenStart, GenFill, Transfer, WriteFails, GenReport, GenClose,
     HashStep, ReadEnds, HashSum, HashReport
<1>2. call # "done" => result = "none"
  BY DEF Inductive, PipeIsOpen
<1>3. CASE Cancel
  BY <1>2, <1>3 DEF Cancel
<1>4. CASE TakeError
  BY <1>2, <1>4 DEF TakeError, Inductive, TypeOK, ErrorsAreCaused
<1>5. CASE TakeHash
  <2>1. Head(hashChan) = bytesWritten
    BY <1>5 DEF TakeHash, Inductive, TypeOK, PipeIsOpen
  <2>2. bytesWritten = sizeBytes /\ sizeBytes > 0
    BY <1>5 DEF TakeHash, Inductive, DataIsOrdered, AllWritten
  <2>3. QED
    BY <1>2, <1>5, <2>1, <2>2 DEF TakeHash
<1>6. CASE TakeNil \/ CtxDone \/ UNCHANGED vars
  BY <1>6 DEF TakeNil, CtxDone, vars, Job!Cancel
<1>7. QED
  BY <1>1, <1>3, <1>4, <1>5, <1>6 DEF Next, CallStep

\* Whatever the order of its goroutines, SimulateWork gives its caller one answer,
\* once, and the right one: it implements the job of module WorkJob.
THEOREM JobImplemented == Spec => ImplementsJob
<1>1. Init => Job!Init
  BY DEF Init, Job!Init
<1>2. QED
  BY <1>1, StepOfJob, InductiveHolds, PTL DEF Spec, ImplementsJob, Job!Spec
=============================================================================
