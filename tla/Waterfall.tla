------------------------------ MODULE Waterfall ------------------------------
(***************************************************************************)
(* AcquisitionEngine.run: strategies ordered by score are tried one after  *)
(* another (stagger_ms <= 0, or a single strategy) or as a staggered       *)
(* waterfall on a thread pool.  The coordinator is the thread that called  *)
(* run(); every launched attempt has a worker that calls the adapter.  The *)
(* coordinator and the workers share the futures' completion and the       *)
(* cancellation event, so a coordinator step ends where it waits for the   *)
(* one or reads the other; everything else is local to the coordinator.    *)
(***************************************************************************)
EXTENDS Integers, FiniteSets

CONSTANTS
  MaxStrategies,  \* bound: the most strategies an engine is configured with
  Scores,         \* what score_for(request) may return
  Staggers        \* what stagger_ms may be, in ticks of the clock

ASSUME ConfigAssumption ==
  /\ MaxStrategies \in Nat
  /\ Scores \subseteq Int
  /\ Staggers \subseteq Nat

VARIABLES
  n,              \* len(self.strategies); strategy s is declared s-th
  score,          \* the score of each strategy for this request
  order,          \* ordered_strategies(request): rank -> strategy
  stagger,        \* self.stagger_ms
  pc,             \* where the coordinator is
  next,           \* next_index: the rank to launch next
  futures,        \* ranks in the futures dict: submitted, not yet popped
  batch,          \* ranks of the done set the for loop has not reached
  age,            \* time since last_launch, up to stagger
  cancellation,   \* cancellation.is_set()
  worker,         \* state of the work item of each rank
  outcome,        \* what the worker of each rank came back with
  attempt,        \* receipt.attempts
  result,         \* rank whose AdapterResult run() returns, 0 for None
  receipt         \* the other fields of the AcquisitionReceipt

config == <<n, score, order, stagger>>
locals == <<next, futures, batch, age, cancellation>>
pool   == <<worker, outcome>>
report == <<attempt, result, receipt>>
vars   == <<config, pc, locals, pool, report>>

Ranks     == 1..n
Staggered == stagger > 0 /\ n > 1
Over      == pc \in {"returned", "raised"}
-----------------------------------------------------------------------------
(* Adapters: what acquire() may do, and the _Outcome _invoke makes of it.  *)

\* "contract" is AdapterContractError.  An adapter may raise CancelledAttempt
\* with its own, continuation, disposition ("cancelled") or override it with
\* the terminal one ("halted").  "escape" is an exception that is not an
\* Exception (SystemExit, KeyboardInterrupt), which _invoke lets through.
Behaviours == {"returns_result", "returns_other", "raises_untyped", "raises_continuation",
               "raises_terminal", "raises_cancelled", "raises_halted", "raises_base"}

Invoke(b) ==
  CASE b = "returns_result"                         -> "result"
    [] b \in {"returns_other", "raises_untyped"}    -> "contract"
    [] b = "raises_continuation"                    -> "continuation"
    [] b = "raises_terminal"                        -> "terminal"
    [] b = "raises_cancelled"                       -> "cancelled"
    [] b = "raises_halted"                          -> "halted"
    [] b = "raises_base"                            -> "escape"

Outcomes == {"result", "contract", "continuation", "terminal", "cancelled", "halted", "escape"}
IsTerminal(o)     == o \in {"contract", "terminal", "halted"}
IsContinuation(o) == o \in {"continuation", "cancelled"}
-----------------------------------------------------------------------------
(* The receipt.                                                            *)

AttemptStates == {"pending", "running", "succeeded", "continuation_error",
                  "terminal_error", "cancelled"}
ErrorCodes    == {"none", "contract", "continuation", "terminal", "cancelled", "snipe_aborted"}
AttemptReceipt == [state : AttemptStates, error : ErrorCodes,
                   cancelled : BOOLEAN, sniped : BOOLEAN]

Pending == [state |-> "pending", error |-> "none", cancelled |-> FALSE, sniped |-> FALSE]
Running == [Pending EXCEPT !.state = "running"]

\* The attempt after _apply_outcome(attempt, outcome): CancelledAttempt is told
\* by its type, every other error by its disposition.
ApplyOutcome(o) ==
  LET cancelled == o \in {"cancelled", "halted"}
  IN  [state     |-> CASE o = "result"      -> "succeeded"
                       [] cancelled         -> "cancelled"
                       [] IsContinuation(o) -> "continuation_error"
                       [] OTHER             -> "terminal_error",
       error     |-> IF o = "result" THEN "none" ELSE IF cancelled THEN "cancelled" ELSE o,
       cancelled |-> cancelled,
       sniped    |-> FALSE]

\* The attempt after _cancel_inflight(..., snipe).  Its reason is "A later
\* strategy supplied the selected result." when sniped.
Cancelled(snipe) ==
  [state |-> "cancelled", error |-> IF snipe THEN "snipe_aborted" ELSE "cancelled",
   cancelled |-> TRUE, sniped |-> snipe]

InState(att, s) == {i \in DOMAIN att : att[i].state = s}

AccountingKeys == {"configured", "launched", "succeeded", "continuation_errors",
                   "terminal_errors", "cancelled", "snipe_aborted", "not_launched"}

\* The attempts each key of receipt.accounting counts.
Counted(att, key) ==
  CASE key = "configured"          -> DOMAIN att
    [] key = "launched"            -> DOMAIN att \ InState(att, "pending")
    [] key = "succeeded"           -> InState(att, "succeeded")
    [] key = "continuation_errors" -> InState(att, "continuation_error")
    [] key = "terminal_errors"     -> InState(att, "terminal_error")
    [] key = "cancelled"           -> InState(att, "cancelled")
    [] key = "snipe_aborted"       -> {i \in DOMAIN att : att[i].sniped}
    [] key = "not_launched"        -> InState(att, "pending")

\* receipt.accounting as _finish computes it.
Accounting(att) == [key \in AccountingKeys |-> Cardinality(Counted(att, key))]

NotFinished == [k \in AccountingKeys |-> 0]

\* named: the rank selection_reason names ("selected", "stopped") or the
\* number of failed strategies it counts ("all_failed").
NewReceipt == [outcome |-> "failed", selected |-> 0, reason |-> "initial",
               named |-> 0, accounting |-> NotFinished]

FirstSucceeded(att) ==
  CHOOSE i \in InState(att, "succeeded") : \A j \in InState(att, "succeeded") : i <= j

\* The receipt of the ordered strategies once the waterfall came back with res (0 for
\* None), why and who being the selection_reason it left.
FinalReceipt(ordered, att, res, why, who) ==
  LET exhausted == res = 0 /\ why = "initial"
  IN  [outcome    |-> IF res = 0 THEN "failed" ELSE "success",
       selected   |-> IF res = 0 THEN 0 ELSE ordered[FirstSucceeded(att)],
       reason     |-> IF exhausted THEN "all_failed" ELSE why,
       named      |-> IF exhausted
                      THEN Cardinality({i \in DOMAIN att : att[i].error # "none"})
                      ELSE who,
       accounting |-> Accounting(att)]

\* The tail of run().
Conclude(att, res, why, who) ==
  /\ pc' = "returned"
  /\ attempt' = att
  /\ result' = res
  /\ receipt' = FinalReceipt(order, att, res, why, who)
-----------------------------------------------------------------------------
(* Ordering: score descending, declaration order breaks ties.              *)

\* Mutant: the later declared strategy wins a tie.
PrecedesLastDeclared(sc, s, t) == sc[s] > sc[t] \/ (sc[s] = sc[t] /\ s > t)

Precedes(sc, s, t) == sc[s] > sc[t] \/ (sc[s] = sc[t] /\ s < t)

OrderedStrategies(sc, k) ==
  {p \in [1..k -> 1..k] : \A i, j \in 1..k : i < j => Precedes(sc, p[i], p[j])}

Init ==
  /\ n \in 0..MaxStrategies
  /\ score \in [1..n -> Scores]
  /\ order \in OrderedStrategies(score, n)
  /\ stagger \in Staggers
  /\ pc = "start"
  /\ next = 1
  /\ futures = {}
  /\ batch = {}
  /\ age = 0
  /\ cancellation = FALSE
  /\ worker = [i \in Ranks |-> "idle"]
  /\ outcome = [i \in Ranks |-> "none"]
  /\ attempt = [i \in Ranks |-> Pending]
  /\ result = 0
  /\ receipt = NewReceipt
-----------------------------------------------------------------------------
(* run() before the waterfall.                                             *)

\* ordered_strategies: a score function raised.
ScoringRaises ==
  /\ pc = "start" /\ n > 0
  /\ pc' = "raised"
  /\ UNCHANGED <<config, locals, pool, report>>

RunWithoutStrategies ==
  /\ pc = "start" /\ n = 0
  /\ pc' = "returned"
  /\ receipt' = [receipt EXCEPT !.reason = "no_strategies",
                                !.accounting = Accounting(attempt)]
  /\ UNCHANGED <<config, locals, pool, attempt, result>>

RunSequential ==
  /\ pc = "start" /\ n > 0 /\ ~Staggered
  /\ pc' = "seq_loop"
  /\ UNCHANGED <<config, locals, pool, report>>
-----------------------------------------------------------------------------
(* _run_sequential: the adapter is called on the coordinator's own thread. *)

SequentialLaunch ==
  /\ pc = "seq_loop" /\ next <= n
  /\ pc' = "seq_call"
  /\ attempt' = [attempt EXCEPT ![next] = Running]
  /\ worker' = [worker EXCEPT ![next] = "running"]
  /\ next' = next + 1
  /\ UNCHANGED <<config, futures, batch, age, cancellation, outcome, result, receipt>>

SequentialExhausted ==
  /\ pc = "seq_loop" /\ next > n
  /\ Conclude(attempt, 0, "initial", 0)
  /\ UNCHANGED <<config, locals, pool>>

\* _invoke returned for the attempt launched last.
Called(o) == pc = "seq_call" /\ worker[next - 1] = "finished" /\ outcome[next - 1] = o

SequentialResult ==
  /\ Called("result")
  /\ Conclude([attempt EXCEPT ![next - 1] = ApplyOutcome("result")],
              next - 1, "selected", next - 1)
  /\ UNCHANGED <<config, locals, pool>>

SequentialTerminal ==
  \E o \in Outcomes :
    /\ Called(o) /\ IsTerminal(o)
    /\ Conclude([attempt EXCEPT ![next - 1] = ApplyOutcome(o)], 0, "stopped", next - 1)
    /\ UNCHANGED <<config, locals, pool>>

SequentialContinue ==
  \E o \in Outcomes :
    /\ Called(o) /\ IsContinuation(o)
    /\ pc' = "seq_loop"
    /\ attempt' = [attempt EXCEPT ![next - 1] = ApplyOutcome(o)]
    /\ UNCHANGED <<config, locals, pool, result, receipt>>

SequentialEscape ==
  /\ Called("escape")
  /\ pc' = "raised"
  /\ UNCHANGED <<config, locals, pool, report>>
-----------------------------------------------------------------------------
(* _run_staggered.                                                         *)

\* Mutant: next_index moves past a strategy that was not launched.
LaunchSkipping ==
  /\ attempt' = [attempt EXCEPT ![next] = Running]
  /\ worker' = [worker EXCEPT ![next] = "queued"]
  /\ futures' = futures \cup {next}
  /\ next' = next + 2
  /\ age' = 0

\* launch(index): the attempt runs from here on, its future is queued.
Launch ==
  /\ attempt' = [attempt EXCEPT ![next] = Running]
  /\ worker' = [worker EXCEPT ![next] = "queued"]
  /\ futures' = futures \cup {next}
  /\ next' = next + 1
  /\ age' = 0

\* launch(0) and the set-up before it.
RunStaggered ==
  /\ pc = "start" /\ n > 0 /\ Staggered
  /\ pc' = "loop"
  /\ Launch
  /\ UNCHANGED <<config, batch, cancellation, outcome, result, receipt>>

\* while futures: nothing is left, and every strategy has been launched.
StaggeredExhausted ==
  /\ pc = "loop" /\ futures = {}
  /\ Conclude(attempt, 0, "initial", 0)
  /\ UNCHANGED <<config, locals, pool>>

Done == {i \in futures : worker[i] = "finished"}

\* concurrent.futures.wait finds finished futures when called: it returns
\* all of them.  Otherwise it blocks.
WaitCalled ==
  /\ pc = "loop" /\ futures # {}
  /\ IF Done = {} THEN pc' = "wait" /\ UNCHANGED batch
                  ELSE pc' = "apply" /\ batch' = Done
  /\ UNCHANGED <<config, next, futures, age, cancellation, pool, report>>

\* Mutant: wait for all futures instead of the first.
WaitWokenByAll ==
  /\ pc = "wait" /\ Done = futures
  /\ pc' = "apply" /\ batch' = Done
  /\ UNCHANGED <<config, next, futures, age, cancellation, pool, report>>

\* It was woken while blocked.  A future that finishes while wait() is taking
\* its waiters down may be missed, so done is any part of what has finished.
WaitWoken ==
  /\ pc = "wait"
  /\ pc' = "apply"
  /\ batch' \in SUBSET Done \ {{}}
  /\ UNCHANGED <<config, next, futures, age, cancellation, pool, report>>

\* Mutant: the stagger timer never fires.
WaitTimedOutLate ==
  /\ pc = "wait" /\ next <= n /\ age > stagger
  /\ pc' = "loop"
  /\ Launch
  /\ UNCHANGED <<config, batch, cancellation, outcome, result, receipt>>

\* The stagger interval passed and wait() returned an empty done.  A future
\* may have finished since.
WaitTimedOut ==
  /\ pc = "wait" /\ next <= n /\ age >= stagger
  /\ pc' = "loop"
  /\ Launch
  /\ UNCHANGED <<config, batch, cancellation, outcome, result, receipt>>

\* The for loop is at the future of rank i, whose outcome is o.
At(i, o) ==
  /\ pc = "apply"
  /\ i \in batch /\ \A j \in batch : i <= j
  /\ outcome[i] = o

\* Mutant: the handled future stays in the dict.
PopKeeping(i) == batch' = batch \ {i} /\ UNCHANGED futures

Pop(i) ==
  /\ futures' = futures \ {i}
  /\ batch' = batch \ {i}

\* Mutants: queued work items survive; the event is not set.
CancelInflightKeepingQueue(left) == cancellation' = TRUE /\ UNCHANGED worker
CancelInflightUnsignalled(left) ==
  /\ UNCHANGED cancellation
  /\ worker' = [i \in Ranks |-> IF i \in left /\ worker[i] = "queued"
                                THEN "dropped" ELSE worker[i]]

\* cancellation.set(), _cancel_inflight(futures) and shutdown(cancel_futures).
CancelInflight(left) ==
  /\ cancellation' = TRUE
  /\ worker' = [i \in Ranks |-> IF i \in left /\ worker[i] = "queued"
                                THEN "dropped" ELSE worker[i]]

\* Mutants: in-flight attempts are left running; a terminal error snipes them;
\* the loop goes on to the other finished futures.
DecidedForgettingLosers(i, o) == [attempt EXCEPT ![i] = ApplyOutcome(o)]
DecidedSniping(i, o) ==
  [j \in Ranks |-> IF j = i THEN ApplyOutcome(o)
                   ELSE IF j \in futures THEN Cancelled(TRUE)
                   ELSE attempt[j]]
DecidedGoingOn(i, o) ==
  [j \in Ranks |-> IF j = i \/ (j \in batch /\ outcome[j] = "result")
                   THEN ApplyOutcome(outcome[j])
                   ELSE IF j \in futures THEN Cancelled(o = "result")
                   ELSE attempt[j]]

\* receipt.attempts once rank i has outcome o and the rest is cancelled.
Decided(i, o) ==
  [j \in Ranks |-> IF j = i THEN ApplyOutcome(o)
                   ELSE IF j \in futures THEN Cancelled(o = "result")
                   ELSE attempt[j]]

ApplyResult ==
  \E i \in Ranks :
    /\ At(i, "result")
    /\ Pop(i)
    /\ CancelInflight(futures \ {i})
    /\ Conclude(Decided(i, "result"), i, "selected", i)
    /\ UNCHANGED <<config, next, age, outcome>>

ApplyTerminal ==
  \E i \in Ranks, o \in Outcomes :
    /\ At(i, o) /\ IsTerminal(o)
    /\ Pop(i)
    /\ CancelInflight(futures \ {i})
    /\ Conclude(Decided(i, o), 0, "stopped", i)
    /\ UNCHANGED <<config, next, age, outcome>>

ApplyContinuation ==
  \E i \in Ranks, o \in Outcomes :
    /\ At(i, o) /\ IsContinuation(o)
    /\ Pop(i)
    /\ attempt' = [attempt EXCEPT ![i] = ApplyOutcome(o)]
    /\ pc' = IF batch = {i} THEN "post" ELSE "apply"
    /\ UNCHANGED <<config, next, age, cancellation, pool, result, receipt>>

\* future.result() raises; finally waits for the pool without cancelling it.
ApplyEscape ==
  \E i \in Ranks :
    /\ At(i, "escape")
    /\ Pop(i)
    /\ pc' = "join"
    /\ UNCHANGED <<config, next, age, cancellation, pool, report>>

\* Mutants: a fallback is launched at once; a fast failure launches none.
FallbackDueAlways  == next <= n
FallbackDueByTimer == next <= n /\ age >= stagger

FallbackDue == next <= n /\ (futures = {} \/ age >= stagger)

PostLaunch ==
  /\ pc = "post" /\ FallbackDue
  /\ pc' = "loop"
  /\ Launch
  /\ UNCHANGED <<config, batch, cancellation, outcome, result, receipt>>

PostWait ==
  /\ pc = "post" /\ ~FallbackDue
  /\ pc' = "loop"
  /\ UNCHANGED <<config, locals, pool, report>>

\* launch() finds no thread for the work item it has queued: the attempt is
\* running, no future is in the dict, and next_index, which nothing reads any
\* more, counts it here.
SubmitFails ==
  /\ \/ pc = "start" /\ n > 0 /\ Staggered
     \/ pc = "wait" /\ next <= n /\ age >= stagger
     \/ pc = "post" /\ FallbackDue
  /\ pc' = "unstarted"
  /\ attempt' = [attempt EXCEPT ![next] = Running]
  /\ worker' = [worker EXCEPT ![next] = "queued"]
  /\ next' = next + 1
  /\ UNCHANGED <<config, futures, batch, age, cancellation, outcome, result, receipt>>

\* Its exception leaves run(): at once from launch(0), before the try, when
\* there is no thread to take the item; otherwise finally waits for the pool.
SubmitRaises ==
  /\ pc = "unstarted"
  /\ IF next = 2
     THEN pc' = "raised" /\ worker' = [worker EXCEPT ![1] = "dropped"]
     ELSE pc' = "join" /\ UNCHANGED worker
  /\ UNCHANGED <<config, locals, outcome, report>>

JoinPool ==
  /\ pc = "join"
  /\ \A i \in Ranks : worker[i] \notin {"queued", "running"}
  /\ pc' = "raised"
  /\ UNCHANGED <<config, locals, pool, report>>
-----------------------------------------------------------------------------
(* The pool: max_workers = len(ordered), so a launched item has its thread.*)

\* The item of a launch that failed waits for a thread that has another behind it.
WorkerStart(i) ==
  /\ worker[i] = "queued"
  /\ i \in futures \/ \E j \in Ranks : worker[j] = "finished"
  /\ worker' = [worker EXCEPT ![i] = "running"]
  /\ UNCHANGED <<config, pc, locals, outcome, report>>

WorkerFinish(i) ==
  /\ worker[i] = "running"
  /\ worker' = [worker EXCEPT ![i] = "finished"]
  /\ \E b \in Behaviours : outcome' = [outcome EXCEPT ![i] = Invoke(b)]
  /\ UNCHANGED <<config, pc, locals, report>>

Tick ==
  /\ pc \in {"loop", "wait", "apply", "post"} /\ age < stagger
  /\ age' = age + 1
  /\ UNCHANGED <<config, pc, next, futures, batch, cancellation, pool, report>>

\* run() is over and no adapter call is left in the background.
Terminated ==
  /\ Over /\ \A i \in Ranks : worker[i] \notin {"queued", "running"}
  /\ UNCHANGED vars
-----------------------------------------------------------------------------
Coordinator ==
  \/ ScoringRaises \/ RunWithoutStrategies \/ RunSequential \/ RunStaggered
  \/ SequentialLaunch \/ SequentialExhausted \/ SequentialResult
  \/ SequentialTerminal \/ SequentialContinue \/ SequentialEscape
  \/ StaggeredExhausted \/ WaitCalled \/ WaitWoken \/ WaitTimedOut
  \/ ApplyResult \/ ApplyTerminal \/ ApplyContinuation \/ ApplyEscape
  \/ PostLaunch \/ PostWait \/ SubmitRaises \/ JoinPool

Next ==
  \/ Coordinator \/ SubmitFails
  \/ \E i \in Ranks : WorkerStart(i) \/ WorkerFinish(i)
  \/ Tick
  \/ Terminated

Spec == Init /\ [][Next]_vars

\* The coordinator and the clock go on, and a queued work item gets its thread;
\* an adapter may hang for ever, and a thread need not fail to start.
FairSpec == /\ Spec /\ WF_vars(Coordinator) /\ WF_vars(Tick)
            /\ \A i \in 1..MaxStrategies : WF_vars(i \in Ranks /\ WorkerStart(i))
-----------------------------------------------------------------------------
(* Properties.                                                             *)

ConfigType ==
  /\ n \in 0..MaxStrategies
  /\ score \in [Ranks -> Scores]
  /\ order \in [Ranks -> Ranks]
  /\ stagger \in Staggers

LocalsType ==
  /\ next \in 1..(n + 1)
  /\ futures \in SUBSET Ranks
  /\ batch \in SUBSET Ranks
  /\ age \in 0..stagger
  /\ cancellation \in BOOLEAN

PoolType ==
  /\ worker \in [Ranks -> {"idle", "queued", "running", "finished", "dropped"}]
  /\ outcome \in [Ranks -> Outcomes \cup {"none"}]

AcquisitionReceipt ==
  [outcome : {"failed", "success"}, selected : 0..n,
   reason : {"initial", "no_strategies", "selected", "stopped", "all_failed"},
   named : Nat, accounting : [AccountingKeys -> Nat]]

ReportType ==
  /\ attempt \in [Ranks -> AttemptReceipt]
  /\ result \in 0..n
  /\ receipt \in AcquisitionReceipt

\* Every variable has its type.
TypeOK ==
  /\ ConfigType /\ LocalsType /\ PoolType /\ ReportType
  /\ pc \in {"start", "seq_loop", "seq_call", "loop", "wait", "apply", "post",
             "unstarted", "join", "returned", "raised"}

\* The selection is told the same way everywhere: run() returns a result
\* exactly when the receipt says success, and then the strategy found by
\* scanning the attempts, the one selection_reason names, the only attempt
\* marked succeeded and the adapter the bytes came from are the same.
SelectionConsistent ==
  pc = "returned" =>
    /\ (receipt.outcome = "success") <=> (result # 0)
    /\ InState(attempt, "succeeded") = {result} \ {0}
    /\ result # 0 => /\ outcome[result] = "result"
                     /\ receipt.selected = order[result]
                     /\ receipt.reason = "selected" /\ receipt.named = result

\* A terminal error ends the run wherever it is met: nothing is selected, no
\* attempt is still running, none is counted as snipe-aborted, and a strategy
\* that was pending then was never called.
TerminalStops ==
  \A i \in Ranks : attempt[i].state = "terminal_error" =>
    /\ pc = "returned" /\ result = 0
    /\ receipt.reason = "stopped" /\ receipt.named = i
    /\ \A j \in Ranks : /\ ~attempt[j].sniped
                        /\ attempt[j].state # "running"
                        /\ attempt[j].state = "pending" => worker[j] = "idle"

\* When run() fails and no error with terminal disposition stopped it, every configured
\* strategy was called, came back, and its own continuation error is in the
\* receipt; selection_reason counts exactly them.
FallbackExhaustive ==
  pc = "returned" /\ result = 0 /\ receipt.reason # "stopped" =>
    /\ \A i \in Ranks : /\ worker[i] = "finished" /\ IsContinuation(outcome[i])
                        /\ attempt[i] = ApplyOutcome(outcome[i])
    /\ n > 0 => receipt.reason = "all_failed" /\ receipt.named = n

\* The accounting of a returned receipt balances: every attempt was either
\* launched or not, every launched attempt was settled in one of four ways,
\* and only attempts cancelled by a selected result are snipe-aborted.
AccountingBalances ==
  pc = "returned" =>
    LET a == receipt.accounting
    IN  /\ a["configured"] = n
        /\ a["configured"] = a["launched"] + a["not_launched"]
        /\ a["launched"] = a["succeeded"] + a["continuation_errors"]
                           + a["terminal_errors"] + a["cancelled"]
        /\ a["snipe_aborted"] <= a["cancelled"]
        /\ a["snipe_aborted"] > 0 => a["succeeded"] = 1

\* A strategy is called only after every strategy with a higher score, and
\* every equally scored one declared before it, has been launched.
PreferredLaunchedFirst ==
  \A i, j \in Ranks :
    LET s == order[i]  t == order[j]
    IN  /\ attempt[i].state # "pending"
        /\ score[t] > score[s] \/ (score[t] = score[s] /\ t < s)
        => attempt[j].state # "pending"

\* Once run() is over no adapter call starts in the background: a queued work
\* item was dropped.  When run() raised, none is even left running.
NoCallAfterReturn ==
  Over => \A i \in Ranks : /\ worker[i] # "queued"
                           /\ pc = "raised" => worker[i] # "running"

\* An adapter still working when run() returns has been sent the cancellation
\* signal, and its attempt is recorded as cancelled.
LosersSignalled ==
  pc = "returned" => \A i \in Ranks :
    worker[i] = "running" => cancellation /\ attempt[i].cancelled

\* A fallback is launched only when no earlier attempt is running or the
\* stagger interval has passed since the previous launch.
FallbackWaits ==
  [][\A i \in Ranks : attempt[i].state = "pending" /\ attempt'[i].state = "running" =>
       \/ stagger > 0 /\ age = stagger
       \/ \A j \in Ranks : attempt[j].state # "running"]_vars

\* run() ends if every adapter call does, as its timeout promises.
RunCompletes ==
  (\A i \in 1..MaxStrategies : WF_vars(i \in Ranks /\ WorkerFinish(i))) => <>Over

\* A hanging adapter does not hold up a staggered run: as long as the run is
\* not over, the next strategy gets launched.
HungAdapterOvertaken ==
  \A i \in 1..MaxStrategies :
    (i \in Ranks /\ Staggered) ~> (Over \/ pc = "join" \/ i \notin InState(attempt, "pending"))

\* A valid result, once an adapter has come back with it, makes run() return
\* even if other adapters hang; only an escaping exception can keep it back.
ValidResultReturned ==
  \A i \in 1..MaxStrategies :
    (i \in futures /\ outcome[i] = "result") ~> (Over \/ pc = "join")

AttemptState == [i \in Ranks |-> attempt[i].state]
Verdict      == CASE pc = "returned"           -> receipt.outcome
                  [] pc \in {"join", "raised"} -> "raised"
                  [] OTHER                     -> "open"

Contract == INSTANCE WaterfallContract WITH
  state <- AttemptState, verdict <- Verdict, winner <- result

\* run() as its caller sees it: whatever the coordinator, the workers and the
\* clock do, an attempt is settled once, the verdict settles what is running
\* with it and nothing a worker does afterwards changes the receipt.
ImplementsContract == Contract!Spec
=============================================================================
