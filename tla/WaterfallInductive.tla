--------------------------- MODULE WaterfallInductive ---------------------------
(***************************************************************************)
(* The inductive invariant behind the safety theorems about Waterfall.     *)
(***************************************************************************)
EXTENDS Waterfall

\* A launched attempt the coordinator has not looked at.
InFlight(i) == attempt[i] = Running /\ worker[i] \in {"queued", "running", "finished"}

\* An attempt that came back with a continuation error of its own.
Fallen(i) ==
  /\ worker[i] = "finished" /\ IsContinuation(outcome[i])
  /\ attempt[i] = ApplyOutcome(outcome[i])

InPool == {"loop", "wait", "apply", "post"}

\* Ranks are sorted, and launched one after another.
Sorted == \A i, j \in Ranks : i < j => Precedes(score, order[i], order[j])

LaunchedInOrder ==
  \A i \in Ranks : IF i < next THEN attempt[i].state # "pending" /\ worker[i] # "idle"
                               ELSE attempt[i] = Pending /\ worker[i] = "idle"

OutcomeWhenFinished == \A i \in Ranks : outcome[i] = "none" <=> worker[i] # "finished"

\* Until run() returns nothing is decided, and until it is over every launched
\* attempt is in flight or has fallen.
Undecided ==
  /\ pc # "returned" => result = 0 /\ receipt = NewReceipt /\ ~cancellation
  /\ ~Over => \A i \in Ranks : i < next => InFlight(i) \/ Fallen(i)

\* Sequentially only the attempt launched last can be in flight.
SequentialState ==
  /\ pc \in {"start", "seq_loop", "seq_call"} => batch = {}
  /\ pc = "start" => next = 1 /\ futures = {}
  /\ pc = "seq_loop" => \A i \in Ranks : i < next => Fallen(i)
  /\ pc = "seq_call" => /\ next > 1 /\ attempt[next - 1].state = "running"
                        /\ \A i \in Ranks : i < next - 1 => Fallen(i)

\* On the pool the futures dict holds exactly the attempts in flight, and the
\* done set only futures that are finished.  A first launch that failed has
\* left its item to no thread.
PoolState ==
  /\ pc \in InPool => /\ Staggered
                      /\ \A i \in Ranks : i \in futures <=> attempt[i].state = "running"
  /\ pc = "loop" => futures # {} \/ next > n
  /\ pc = "apply" => batch \subseteq futures
  /\ pc \in {"apply", "returned"} => \A i \in batch : worker[i] = "finished"
  /\ pc = "unstarted" => next > 1 /\ (next = 2 => futures = {} /\ worker[1] = "queued")

\* A receipt that was returned counts its attempts, and none of them runs.
Concluded ==
  pc = "returned" => /\ receipt.accounting = Accounting(attempt)
                     /\ \A i \in Ranks : attempt[i].state # "running"
                     /\ \A i \in Ranks : attempt[i].sniped =>
                          attempt[i].state = "cancelled" /\ result # 0

IInv ==
  /\ TypeOK
  /\ Sorted
  /\ LaunchedInOrder
  /\ OutcomeWhenFinished
  /\ Undecided
  /\ SequentialState
  /\ PoolState
  /\ Concluded
  /\ SelectionConsistent
  /\ TerminalStops
  /\ FallbackExhaustive
  /\ NoCallAfterReturn
  /\ LosersSignalled
=============================================================================
