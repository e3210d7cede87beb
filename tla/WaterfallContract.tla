--------------------------- MODULE WaterfallContract ---------------------------
(***************************************************************************)
(* What AcquisitionEngine.run promises its caller, whether it runs the     *)
(* strategies one after another or staggered on threads: strategies are    *)
(* launched best first, a launched attempt is settled once, the first      *)
(* verdict is final and settles every attempt still running with it, and   *)
(* failure is reported only when an error halted the run or every strategy *)
(* has failed.  There are no threads, futures or clocks here.              *)
(***************************************************************************)
EXTENDS Integers

CONSTANT MaxStrategies  \* bound: the most strategies an engine is configured with

VARIABLES
  n,        \* the number of strategies
  state,    \* AttemptState of each rank
  verdict,  \* open until run() returns or raises
  winner    \* rank of the selected strategy, 0 for none

vars == <<n, state, verdict, winner>>

Ranks   == 1..n
Settled == {"succeeded", "continuation_error", "terminal_error", "cancelled"}

Init ==
  /\ n \in 0..MaxStrategies
  /\ state = [i \in Ranks |-> "pending"]
  /\ verdict = "open"
  /\ winner = 0

\* The attempts once rank i is settled as s and the losers are cancelled.
Decide(i, s) ==
  [j \in Ranks |-> IF j = i THEN s
                   ELSE IF state[j] = "running" THEN "cancelled" ELSE state[j]]

Launch(i) ==
  /\ state[i] = "pending" /\ \A j \in Ranks : state[j] = "pending" => i <= j
  /\ state' = [state EXCEPT ![i] = "running"]
  /\ UNCHANGED <<n, verdict, winner>>

Fall(i) ==
  /\ state[i] = "running"
  /\ \E s \in {"continuation_error", "cancelled"} : state' = [state EXCEPT ![i] = s]
  /\ UNCHANGED <<n, verdict, winner>>

Win(i) ==
  /\ state[i] = "running"
  /\ state' = Decide(i, "succeeded")
  /\ verdict' = "success" /\ winner' = i
  /\ UNCHANGED n

\* "cancelled": a CancelledAttempt raised with terminal disposition.
Halt(i) ==
  /\ state[i] = "running"
  /\ \E s \in {"terminal_error", "cancelled"} : state' = Decide(i, s)
  /\ verdict' = "failed"
  /\ UNCHANGED <<n, winner>>

Exhaust ==
  /\ \A i \in Ranks : state[i] \in Settled
  /\ verdict' = "failed"
  /\ UNCHANGED <<n, state, winner>>

Raise ==
  /\ verdict' = "raised"
  /\ UNCHANGED <<n, state, winner>>

Next ==
  /\ verdict = "open"
  /\ \/ \E i \in Ranks : Launch(i) \/ Fall(i) \/ Win(i) \/ Halt(i)
     \/ Exhaust
     \/ Raise

Spec == Init /\ [][Next]_vars
=============================================================================
