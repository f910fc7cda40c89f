------------------------------- MODULE WorkJob -------------------------------
(***************************************************************************)
(* What SimulateWork promises its caller, without goroutines, pipe and     *)
(* channels: one answer, given once.  Data of a valid size is hashed       *)
(* completely, an invalid size is an error, and a cancelled call may end   *)
(* without a result.  Module Consumer takes the work on a message for this *)
(* (WorkDone and WorkFails).                                               *)
(***************************************************************************)
EXTENDS Integers

CONSTANT Sizes

VARIABLES sizeBytes, canceled,
          result,    \* none, hash, error or canceled
          checksum   \* the number of bytes the checksum is over

vars == <<sizeBytes, canceled, result, checksum>>

Init == sizeBytes \in Sizes /\ canceled = FALSE /\ result = "none" /\ checksum = 0

Cancel == /\ ~canceled
          /\ canceled' = TRUE
          /\ UNCHANGED <<sizeBytes, result, checksum>>

Return ==
  /\ result = "none"
  /\ \/ sizeBytes > 0 /\ result' = "hash" /\ checksum' = sizeBytes
     \/ sizeBytes =< 0 /\ result' = "error" /\ UNCHANGED checksum
     \/ canceled /\ result' = "canceled" /\ UNCHANGED checksum
  /\ UNCHANGED <<sizeBytes, canceled>>

Next == Cancel \/ Return

Spec == Init /\ [][Next]_vars
=============================================================================
