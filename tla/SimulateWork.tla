----------------------------- MODULE SimulateWork -----------------------------
(***************************************************************************)
(* One call of SimulateWork (internal/consumer/consumer.go): the caller    *)
(* and the two goroutines it starts, joined by an io.Pipe and two buffered *)
(* channels.                                                               *)
(*   call   select   the outer select                                      *)
(*          await    the inner select, after errChan gave nil              *)
(*          done     returned                                              *)
(*   gen    start, fill (rand.Read), write (blocked in the pipe),          *)
(*          report (errChan <- err), nil (errChan <- nil),                 *)
(*          close (the deferred pw.Close), end                             *)
(*   hash   read (blocked in the pipe), sum (hashChan <- hash),            *)
(*          report (errChan <- err), end                                   *)
(* A write and a read of the pipe meet: io.Copy's buffer is as large as    *)
(* the generator's, so that one read takes all of one write.               *)
(***************************************************************************)
EXTENDS Integers, Sequences, FiniteSets

CONSTANTS Sizes,             \* values of sizeBytes
          BufferSize,        \* bufferSize
          PipeChannelBuffer  \* pipeChannelBuffer, the capacity of errChan

ASSUME SimulateWorkAssumption == /\ Sizes \subseteq Int
                                 /\ BufferSize \in Nat \ {0}
                                 /\ PipeChannelBuffer \in Nat

VARIABLES
  sizeBytes,     \* the argument
  canceled,      \* ctx is done
  call, gen, hash,
  bytesWritten,  \* of GenerateRandomData
  hashed,        \* bytes that went through the hasher
  prClosed, pwClosed,
  errChan,       \* "nil" or "error", first in first out
  hashChan,      \* the byte counts of the checksums sent
  result,        \* what the call returned
  checksum       \* the number of bytes the returned checksum is over

given == <<sizeBytes, canceled>>
data  == <<bytesWritten, hashed>>
pipe  == <<prClosed, pwClosed>>
chans == <<errChan, hashChan>>
ret   == <<call, result, checksum>>
vars  == <<given, data, pipe, chans, ret, gen, hash>>

Results == {"none", "hash", "error", "canceled"}

TypeOK ==
  /\ sizeBytes \in Sizes
  /\ canceled \in BOOLEAN /\ prClosed \in BOOLEAN /\ pwClosed \in BOOLEAN
  /\ call \in {"select", "await", "done"}
  /\ gen \in {"start", "fill", "write", "report", "nil", "close", "end"}
  /\ hash \in {"read", "sum", "report", "end"}
  /\ bytesWritten \in Nat /\ hashed \in Nat
  /\ errChan \in Seq({"nil", "error"}) /\ Len(errChan) =< PipeChannelBuffer
  /\ hashChan \in Seq(Nat) /\ Len(hashChan) =< 1
  /\ result \in Results /\ checksum \in Nat

Init ==
  /\ sizeBytes \in Sizes
  /\ canceled = FALSE
  /\ call = "select" /\ gen = "start" /\ hash = "read"
  /\ bytesWritten = 0 /\ hashed = 0
  /\ prClosed = FALSE /\ pwClosed = FALSE
  /\ errChan = <<>> /\ hashChan = <<>>
  /\ result = "none" /\ checksum = 0

-----------------------------------------------------------------------------
(* The generating goroutine: GenerateRandomData(pw, sizeBytes).            *)

Remaining == sizeBytes - bytesWritten
WriteSize == IF Remaining < BufferSize THEN Remaining ELSE BufferSize

\* MUTANT: the size is checked against one.
GenStartStrict ==
  /\ gen = "start"
  /\ gen' = IF sizeBytes =< 1 THEN "report" ELSE "fill"
  /\ UNCHANGED <<given, data, pipe, chans, ret, hash>>

GenStart ==
  /\ gen = "start"
  /\ gen' = IF sizeBytes =< 0 THEN "report" ELSE "fill"
  /\ UNCHANGED <<given, data, pipe, chans, ret, hash>>

\* MUTANT: the loop's condition includes equality.
GenFillOnceMore ==
  /\ gen = "fill"
  /\ gen' = IF bytesWritten =< sizeBytes THEN "write" ELSE "nil"
  /\ UNCHANGED <<given, data, pipe, chans, ret, hash>>

\* One round of the loop up to w.Write, or its end.  (rand.Read of Go 1.24 and
\* later never returns an error.)
GenFill ==
  /\ gen = "fill"
  /\ gen' = IF bytesWritten < sizeBytes THEN "write" ELSE "nil"
  /\ UNCHANGED <<given, data, pipe, chans, ret, hash>>

\* The write and a read of the pipe meet.  A goroutine that finds the pipe
\* closed when it wakes may still take the other one's offer.
Transfer ==
  /\ gen = "write" /\ hash = "read"
  /\ bytesWritten' = bytesWritten + WriteSize
  /\ hashed' = hashed + WriteSize
  /\ gen' = "fill"
  /\ UNCHANGED <<given, pipe, chans, ret, hash>>

\* The write returns io.ErrClosedPipe.
WriteFails ==
  /\ gen = "write" /\ (prClosed \/ pwClosed)
  /\ gen' = "report"
  /\ UNCHANGED <<given, data, pipe, chans, ret, hash>>

\* MUTANT: errChan has room for one error only.
RoomForOne == Len(errChan) < PipeChannelBuffer - 1

ErrChanHasRoom == Len(errChan) < PipeChannelBuffer

\* errChan <- err or errChan <- nil; blocks while the channel is full.
GenReport ==
  /\ gen \in {"report", "nil"}
  /\ ErrChanHasRoom
  /\ errChan' = Append(errChan, IF gen = "nil" THEN "nil" ELSE "error")
  /\ gen' = "close"
  /\ UNCHANGED <<given, data, pipe, hashChan, ret, hash>>

\* The deferred pw.Close().
GenClose ==
  /\ gen = "close"
  /\ pwClosed' = TRUE
  /\ gen' = "end"
  /\ UNCHANGED <<given, data, prClosed, chans, ret, hash>>

-----------------------------------------------------------------------------
(* The hashing goroutine: CalculateSHA256(pr).                             *)

\* The read returns io.EOF if only the writing end is closed, and
\* io.ErrClosedPipe if the reading end is.
ReadEnds ==
  /\ hash = "read" /\ (prClosed \/ pwClosed)
  /\ hash' = IF prClosed THEN "report" ELSE "sum"
  /\ UNCHANGED <<given, data, pipe, chans, ret, gen>>

HashSum ==
  /\ hash = "sum" /\ Len(hashChan) < 1
  /\ hashChan' = Append(hashChan, hashed)
  /\ hash' = "end"
  /\ UNCHANGED <<given, data, pipe, errChan, ret, gen>>

HashReport ==
  /\ hash = "report"
  /\ ErrChanHasRoom
  /\ errChan' = Append(errChan, "error")
  /\ hash' = "end"
  /\ UNCHANGED <<given, data, pipe, hashChan, ret, gen>>

-----------------------------------------------------------------------------
(* The caller.                                                             *)

\* <-ctx.Done() in either select: both ends are closed, the reading one first.
Cancel ==
  /\ call \in {"select", "await"} /\ canceled
  /\ prClosed' = TRUE /\ pwClosed' = TRUE
  /\ call' = "done" /\ result' = "canceled"
  /\ UNCHANGED <<given, data, chans, checksum, gen, hash>>

\* err := <-errChan is an error.
TakeError ==
  /\ call = "select" /\ errChan # <<>> /\ Head(errChan) = "error"
  /\ errChan' = Tail(errChan)
  /\ prClosed' = TRUE
  /\ call' = "done" /\ result' = "error"
  /\ UNCHANGED <<given, data, pwClosed, hashChan, checksum, gen, hash>>

\* err := <-errChan is nil: only the checksum is missing.
TakeNil ==
  /\ call = "select" /\ errChan # <<>> /\ Head(errChan) = "nil"
  /\ errChan' = Tail(errChan)
  /\ call' = "await"
  /\ UNCHANGED <<given, data, pipe, hashChan, result, checksum, gen, hash>>

\* MUTANT: one select takes whatever comes first, the checksum or an error.
TakeAnyHash ==
  /\ call \in {"select", "await"} /\ hashChan # <<>>
  /\ hashChan' = Tail(hashChan)
  /\ prClosed' = TRUE
  /\ call' = "done" /\ result' = "hash" /\ checksum' = Head(hashChan)
  /\ UNCHANGED <<given, data, pwClosed, errChan, gen, hash>>

TakeHash ==
  /\ call = "await" /\ hashChan # <<>>
  /\ hashChan' = Tail(hashChan)
  /\ prClosed' = TRUE
  /\ call' = "done" /\ result' = "hash" /\ checksum' = Head(hashChan)
  /\ UNCHANGED <<given, data, pwClosed, errChan, gen, hash>>

\* The context is cancelled, at any time.
CtxDone ==
  /\ ~canceled
  /\ canceled' = TRUE
  /\ UNCHANGED <<sizeBytes, data, pipe, chans, ret, gen, hash>>

-----------------------------------------------------------------------------
(* The specification.                                                      *)

GenStep  == GenStart \/ GenFill \/ WriteFails \/ GenReport \/ GenClose
HashStep == ReadEnds \/ HashSum \/ HashReport
CallStep == Cancel \/ TakeError \/ TakeNil \/ TakeHash

Next == GenStep \/ Transfer \/ HashStep \/ CallStep \/ CtxDone

Spec == Init /\ [][Next]_vars

\* The goroutines are scheduled.  That the context is cancelled is not assumed.
FairSpec == /\ Spec
            /\ WF_vars(GenStep) /\ WF_vars(HashStep) /\ WF_vars(CallStep)
            /\ WF_vars(Transfer)

-----------------------------------------------------------------------------
(* Properties.                                                             *)

\* A checksum is returned for all the data asked for and for nothing less,
\* although the generator reports before it closes the pipe.
ChecksumIsComplete ==
  result = "hash" => checksum = sizeBytes /\ sizeBytes > 0

\* The call fails only for an invalid size or a cancelled context: no close of
\* the pipe that belongs to the clean-up comes back as a failure of the work.
\* Module Consumer relies on it in WorkDone and WorkFails.
FailureHasCause ==
  /\ result = "error" => sizeBytes =< 0
  /\ result = "canceled" => canceled

\* What both rest on: all bytes are written before errChan gets nil, and until
\* the call returns nobody but the generator closes the pipe.
AllWritten == sizeBytes > 0 /\ bytesWritten = sizeBytes

DataIsOrdered ==
  /\ hashed = bytesWritten
  /\ gen = "start" => bytesWritten = 0
  /\ gen \in {"fill", "write", "nil"} => sizeBytes > 0 /\ bytesWritten =< sizeBytes
  /\ gen = "write" => bytesWritten < sizeBytes
  /\ gen = "nil" \/ call = "await" => AllWritten
  /\ call = "await" => gen \in {"close", "end"}
  /\ hashChan # <<>> => hash = "end"

PipeIsOpen ==
  call # "done" => /\ result = "none" /\ ~prClosed
                   /\ pwClosed => gen = "end"
                   /\ gen = "report" => sizeBytes =< 0
                   /\ hash # "report"
                   /\ hashChan # <<>> => hashChan[1] = bytesWritten

ErrorsAreCaused ==
  \A i \in 1..Len(errChan) :
    /\ errChan[i] = "nil" => AllWritten /\ gen \in {"close", "end"}
    /\ errChan[i] = "error" => sizeBytes =< 0 \/ call = "done"

\* Nobody waits for what cannot come any more, in whatever order the caller
\* returns and the goroutines end: a report finds room in its channel although
\* nobody may read it, a write has a reader or a closed pipe, a read a writer or a
\* closed pipe, and a select of the caller the message it lacks.
NobodyIsStuck ==
  /\ gen \in {"report", "nil"} \/ hash = "report" => ErrChanHasRoom
  /\ hash = "sum" => hashChan = <<>>
  /\ gen = "write" => hash = "read" \/ prClosed
  /\ hash = "read" /\ gen = "end" => pwClosed
  /\ call = "select" /\ gen \in {"close", "end"} => errChan # <<>>
  /\ call = "await" /\ hash = "end" => hashChan # <<>>

\* Why: each goroutine reports at most once, the generator before it closes the
\* pipe, and a caller that left has closed the reading end.
Reported == (IF gen \in {"close", "end"} THEN 1 ELSE 0) + (IF hash = "end" THEN 1 ELSE 0)

ReportsArrive ==
  /\ Len(errChan) =< Reported
  /\ call = "select" /\ gen \in {"close", "end"} => errChan # <<>>
  /\ call # "done" /\ hash = "end" => hashChan # <<>>
  /\ call = "done" => prClosed
  /\ gen = "end" => pwClosed
  /\ hash # "read" => prClosed \/ pwClosed

\* The inductive invariant: at every point of the call, how far the generator
\* is, what it has written and reported, and who may have closed the pipe.
Inductive == /\ TypeOK
             /\ DataIsOrdered
             /\ PipeIsOpen
             /\ ErrorsAreCaused
             /\ ReportsArrive
             /\ ChecksumIsComplete
             /\ FailureHasCause

\* To its caller SimulateWork is a single step: it returns once, and neither a
\* close of the pipe nor a late report changes or repeats the answer.
Job == INSTANCE WorkJob

ImplementsJob == Job!Spec

\* The call returns and neither goroutine outlives it for ever, whichever of
\* the channels nobody reads any more.
NothingLeaks == <>(call = "done" /\ gen = "end" /\ hash = "end")
=============================================================================
