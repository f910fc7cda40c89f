------------------------------ MODULE WorkQueue ------------------------------
(***************************************************************************)
(* What the stream and its consumer replicas promise together, without     *)
(* replicas, names or commands: a first-in first-out queue whose messages  *)
(* are worked on at most once, and settled only after the work is done.    *)
(* A queue of bounded length loses its oldest messages, and a message that *)
(* was taken may stay taken for ever.                                      *)
(***************************************************************************)
EXTENDS Integers

CONSTANT MaxId    \* bound: the number of messages ever published

VARIABLES status,  \* absent, queued, taken, settled or lost, of each message
          busy,    \* the messages being worked on
          done     \* the messages whose work was completed

vars == <<status, busy, done>>

Messages == 1..MaxId
Status   == {"absent", "queued", "taken", "settled", "lost"}

\* The messages with one of the statuses in Q.
With(Q) == {m \in Messages : status[m] \in Q}

\* The messages a step removes without work: waiting or taken ones.
Lose(S) == [m \in Messages |-> IF m \in S THEN "lost" ELSE status[m]]

Init == /\ status = [m \in Messages |-> "absent"]
        /\ busy = {}
        /\ done = {}

\* The next message enters the queue; waiting ones may be pushed out.
Publish ==
  \E m \in Messages, S \in SUBSET With({"queued"}) :
    /\ status[m] = "absent"
    /\ \A n \in Messages : status[n] = "absent" => m =< n
    /\ status' = [Lose(S) EXCEPT ![m] = "queued"]
    /\ UNCHANGED <<busy, done>>

\* The oldest waiting message is taken, and the work on it starts now or never.
Take ==
  \E m \in Messages :
    /\ status[m] = "queued"
    /\ \A n \in Messages : status[n] = "queued" => m =< n
    /\ status' = [status EXCEPT ![m] = "taken"]
    /\ busy' = busy \/ busy' = busy \cup {m}
    /\ UNCHANGED done

\* The work on a message completes; the message itself may have been lost since.
Finish ==
  \E m \in busy :
    /\ busy' = busy \ {m}
    /\ done' = done \cup {m}
    /\ UNCHANGED status

\* The work on a message ends without a result.
Abandon ==
  \E m \in busy :
    /\ busy' = busy \ {m}
    /\ UNCHANGED <<status, done>>

Settle ==
  \E m \in done :
    /\ status[m] = "taken"
    /\ status' = [status EXCEPT ![m] = "settled"]
    /\ UNCHANGED <<busy, done>>

Vanish ==
  \E S \in SUBSET With({"queued", "taken"}) :
    /\ status' = Lose(S)
    /\ UNCHANGED <<busy, done>>

Next == Publish \/ Take \/ Finish \/ Abandon \/ Settle \/ Vanish

Spec == Init /\ [][Next]_vars
=============================================================================
