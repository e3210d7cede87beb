--------------------------- MODULE WaterfallRefinement ---------------------------
(***************************************************************************)
(* Waterfall implements WaterfallContract.                                 *)
(***************************************************************************)
EXTENDS WaterfallProofs

LEMMA InitRefines == Init => Contract!Init
<1>. SUFFICES ASSUME Init PROVE Contract!Init
  OBVIOUS
<1>1. AttemptState = [i \in 1..n |-> "pending"] /\ Verdict = "open"
  BY DEF Init, AttemptState, Verdict, Ranks, Pending
<1>. QED
  BY <1>1 DEF Init, Contract!Init, Contract!Ranks

\* A step that changes neither the attempts nor the verdict is a stutter.
LEMMA StutterRefines ==
  ASSUME UNCHANGED config, attempt' = attempt, result' = result, Verdict' = Verdict
  PROVE  UNCHANGED Contract!vars
BY DEF Contract!vars, AttemptState, Ranks, config

LEMMA RaiseRefines ==
  ASSUME UNCHANGED config, attempt' = attempt, result' = result, Verdict = "open", Verdict' = "raised"
  PROVE  Contract!Next
<1>1. AttemptState' = AttemptState /\ n' = n
  BY DEF AttemptState, Ranks, config
<1>. QED
  BY <1>1 DEF Contract!Next, Contract!Raise

LEMMA LaunchRefines ==
  ASSUME IInv, UNCHANGED config, next \in Ranks, attempt' = [attempt EXCEPT ![next] = Running],
         result' = result, Verdict = "open", Verdict' = "open"
  PROVE  Contract!Next
<1>1. Ranks' = Ranks /\ n' = n /\ Contract!Ranks = Ranks
  BY DEF config, Ranks, Contract!Ranks
<1>2. AttemptState' = [AttemptState EXCEPT ![next] = "running"]
  BY <1>1, RankFacts DEF AttemptState, Running, Pending
<1>3. \A j \in Ranks : AttemptState[j] = "pending" <=> j >= next
  BY RankFacts DEF AttemptState, IInv, LaunchedInOrder, Pending
<1>4. Contract!Launch(next)
  BY <1>1, <1>2, <1>3, RankFacts DEF Contract!Launch
<1>. QED
  BY <1>1, <1>4 DEF Contract!Next

LEMMA FallRefines ==
  ASSUME IInv, UNCHANGED config, NEW i \in Ranks, attempt[i].state = "running",
         NEW o, IsContinuation(o), attempt' = [attempt EXCEPT ![i] = ApplyOutcome(o)],
         result' = result, Verdict = "open", Verdict' = "open"
  PROVE  Contract!Next
<1>1. Ranks' = Ranks /\ n' = n /\ Contract!Ranks = Ranks
  BY DEF config, Ranks, Contract!Ranks
<1>2. ApplyOutcome(o).state \in {"continuation_error", "cancelled"}
  BY ContinuationApplied
<1>3. AttemptState' = [AttemptState EXCEPT ![i] = ApplyOutcome(o).state] /\ AttemptState[i] = "running"
  BY <1>1, RankFacts DEF AttemptState
<1>4. Contract!Fall(i)
  BY <1>1, <1>2, <1>3 DEF Contract!Fall
<1>. QED
  BY <1>1, <1>4 DEF Contract!Next

\* The verdict of rank i cancels exactly what is running.
LEMMA DecideRefines ==
  ASSUME IInv, UNCHANGED config, NEW i \in Ranks, NEW o, NEW att, attempt' = att,
         att \in [Ranks -> AttemptReceipt], att[i] = ApplyOutcome(o),
         \A j \in Ranks \ {i} :
           att[j].state = IF attempt[j].state = "running" THEN "cancelled" ELSE attempt[j].state
  PROVE  AttemptState' = Contract!Decide(i, ApplyOutcome(o).state)
<1>1. Ranks' = Ranks /\ n' = n /\ Contract!Ranks = Ranks
  BY DEF config, Ranks, Contract!Ranks
<1>. QED
  BY <1>1 DEF AttemptState, Contract!Decide

LEMMA WinRefines ==
  ASSUME IInv, UNCHANGED config, NEW i \in Ranks, attempt[i].state = "running",
         AttemptState' = Contract!Decide(i, "succeeded"),
         result' = i, Verdict = "open", Verdict' = "success"
  PROVE  Contract!Next
<1>1. n' = n /\ Contract!Ranks = Ranks /\ AttemptState[i] = "running"
  BY DEF config, Ranks, Contract!Ranks, AttemptState
<1>2. Contract!Win(i)
  BY <1>1 DEF Contract!Win
<1>. QED
  BY <1>1, <1>2 DEF Contract!Next

LEMMA HaltRefines ==
  ASSUME IInv, UNCHANGED config, NEW i \in Ranks, attempt[i].state = "running",
         NEW o, IsTerminal(o), AttemptState' = Contract!Decide(i, ApplyOutcome(o).state),
         result' = result, Verdict = "open", Verdict' = "failed"
  PROVE  Contract!Next
<1>1. n' = n /\ Contract!Ranks = Ranks /\ AttemptState[i] = "running"
  BY DEF config, Ranks, Contract!Ranks, AttemptState
<1>2. ApplyOutcome(o).state \in {"terminal_error", "cancelled"}
  BY TerminalApplied
<1>3. Contract!Halt(i)
  BY <1>1, <1>2 DEF Contract!Halt
<1>. QED
  BY <1>1, <1>3 DEF Contract!Next

LEMMA ExhaustRefines ==
  ASSUME IInv, UNCHANGED config, \A i \in Ranks : Fallen(i), attempt' = attempt,
         result' = 0, result = 0, Verdict = "open", Verdict' = "failed"
  PROVE  Contract!Next
<1>1. AttemptState' = AttemptState /\ n' = n /\ Contract!Ranks = Ranks
  BY DEF AttemptState, Ranks, config, Contract!Ranks
<1>2. \A i \in Ranks : AttemptState[i] \in {"continuation_error", "cancelled"}
  BY ContinuationApplied DEF AttemptState, Fallen
<1>3. Contract!Exhaust
  BY <1>1, <1>2 DEF Contract!Exhaust, Contract!Settled
<1>. QED
  BY <1>3 DEF Contract!Next, Contract!Exhaust

\* What the tail of run() makes the verdict.
LEMMA ConcludeVerdict ==
  ASSUME NEW res, NEW att, NEW why, NEW who, pc' = "returned",
         receipt' = FinalReceipt(order, att, res, why, who)
  PROVE  Verdict' = IF res = 0 THEN "failed" ELSE "success"
BY DEF Verdict, FinalReceipt

LEMMA RaiseStepRefines ==
  ASSUME IInv, ScoringRaises \/ SequentialEscape \/ ApplyEscape \/ SubmitRaises
  PROVE  Contract!Next
<1>1. /\ UNCHANGED config /\ attempt' = attempt /\ result' = result
      /\ pc \in {"start", "seq_call", "apply", "unstarted"} /\ pc' \in {"join", "raised"}
  BY DEF ScoringRaises, SequentialEscape, ApplyEscape, SubmitRaises, Called, At, report
<1>2. Verdict = "open" /\ Verdict' = "raised"
  BY <1>1 DEF Verdict
<1>. QED
  BY <1>1, <1>2, RaiseRefines

LEMMA LaunchStepRefines ==
  ASSUME IInv, RunStaggered \/ WaitTimedOut \/ PostLaunch \/ SequentialLaunch \/ SubmitFails
  PROVE  Contract!Next
<1>1. /\ UNCHANGED config /\ attempt' = [attempt EXCEPT ![next] = Running] /\ result' = result
      /\ pc \in {"start", "wait", "post", "seq_loop"} /\ pc' \in {"loop", "seq_call", "unstarted"}
  BY DEF RunStaggered, WaitTimedOut, PostLaunch, SequentialLaunch, SubmitFails, Launch
<1>2. next \in Ranks
  BY RankFacts DEF RunStaggered, WaitTimedOut, PostLaunch, SequentialLaunch, SubmitFails, FallbackDue, IInv,
     SequentialState
<1>3. Verdict = "open" /\ Verdict' = "open"
  BY <1>1 DEF Verdict
<1>. QED
  BY <1>1, <1>2, <1>3, LaunchRefines

LEMMA ContinueStepRefines ==
  ASSUME IInv, SequentialContinue \/ ApplyContinuation
  PROVE  Contract!Next
<1>1. CASE SequentialContinue
  <2>1. PICK o \in Outcomes : /\ Called(o) /\ IsContinuation(o) /\ pc' = "seq_loop"
                              /\ attempt' = [attempt EXCEPT ![next - 1] = ApplyOutcome(o)]
                              /\ UNCHANGED <<config, locals, pool, result, receipt>>
    BY <1>1 DEF SequentialContinue
  <2>2. next - 1 \in Ranks
    BY <2>1, CalledFacts
  <2>3. Verdict = "open" /\ Verdict' = "open" /\ result' = result /\ UNCHANGED config
    BY <2>1 DEF Verdict, Called
  <2>4. attempt[next - 1].state = "running"
    BY <2>1 DEF Called, IInv, SequentialState
  <2>. QED
    BY <2>1, <2>2, <2>3, <2>4, FallRefines
<1>2. CASE ApplyContinuation
  <2>1. PICK i \in Ranks, o \in Outcomes :
          /\ At(i, o) /\ IsContinuation(o) /\ Pop(i)
          /\ attempt' = [attempt EXCEPT ![i] = ApplyOutcome(o)]
          /\ pc' = IF batch = {i} THEN "post" ELSE "apply"
          /\ UNCHANGED <<config, next, age, cancellation, pool, result, receipt>>
    BY <1>2 DEF ApplyContinuation
  <2>2. attempt[i].state = "running"
    BY <2>1, AtFacts DEF InFlight, Running, Pending
  <2>3. Verdict = "open" /\ Verdict' = "open" /\ result' = result /\ UNCHANGED config
    BY <2>1 DEF Verdict, At
  <2>. QED
    BY <2>1, <2>2, <2>3, FallRefines
<1>. QED
  BY <1>1, <1>2

\* Sequentially only the attempt launched last runs.
LEMMA OnlyLastRuns ==
  ASSUME IInv, NEW o, Called(o), NEW j \in Ranks, j # next - 1
  PROVE  attempt[j].state # "running"
<1>1. CASE j < next
  <2>1. j < next - 1
    BY <1>1, RankFacts DEF LocalsType, Ranks
  <2>2. Fallen(j)
    BY <2>1, CalledFacts
  <2>. QED
    BY <2>2, ContinuationApplied DEF Fallen
<1>2. CASE ~(j < next)
  <2>1. attempt[j] = Pending
    BY <1>2 DEF IInv, LaunchedInOrder
  <2>. QED
    BY <2>1 DEF Pending
<1>. QED
  BY <1>1, <1>2

LEMMA ReturnStepRefines ==
  ASSUME IInv, SequentialResult \/ SequentialTerminal
  PROVE  Contract!Next
<1>1. CASE SequentialResult
  <2>. DEFINE att == [attempt EXCEPT ![next - 1] = ApplyOutcome("result")]
  <2>1. /\ Called("result") /\ UNCHANGED <<config, locals, pool>>
        /\ Conclude(att, next - 1, "selected", next - 1)
    BY <1>1 DEF SequentialResult
  <2>2. next - 1 \in Ranks /\ \A j \in Ranks : j < next - 1 => Fallen(j)
    BY <2>1, CalledFacts
  <2>3. attempt[next - 1].state = "running" /\ Verdict = "open"
    BY <2>1 DEF Called, IInv, SequentialState, Verdict
  <2>4. att \in [Ranks -> AttemptReceipt] /\ att[next - 1] = ApplyOutcome("result")
    BY <2>1, CalledVerdict
  <2>5. \A j \in Ranks \ {next - 1} :
          att[j].state = IF attempt[j].state = "running" THEN "cancelled" ELSE attempt[j].state
    <3>1. \A j \in Ranks : j # next - 1 => attempt[j].state # "running"
      BY <2>1, OnlyLastRuns
    <3>. QED
      BY <3>1
  <2>6. pc' = "returned" /\ attempt' = att /\ result' = next - 1 /\ next - 1 # 0
        /\ receipt' = FinalReceipt(order, att, next - 1, "selected", next - 1)
    BY <2>1, <2>2, RankFacts DEF Conclude
  <2>7. Verdict' = "success"
    BY <2>6, ConcludeVerdict
  <2>. HIDE DEF att
  <2>8. AttemptState' = Contract!Decide(next - 1, "succeeded")
    BY <2>1, <2>2, <2>4, <2>5, <2>6, DecideRefines, ResultApplied
  <2>. QED
    BY <2>1, <2>2, <2>3, <2>6, <2>7, <2>8, WinRefines
<1>2. CASE SequentialTerminal
  <2>1. PICK o \in Outcomes :
          /\ Called(o) /\ IsTerminal(o) /\ UNCHANGED <<config, locals, pool>>
          /\ Conclude([attempt EXCEPT ![next - 1] = ApplyOutcome(o)], 0, "stopped", next - 1)
    BY <1>2 DEF SequentialTerminal
  <2>. DEFINE att == [attempt EXCEPT ![next - 1] = ApplyOutcome(o)]
  <2>2. next - 1 \in Ranks /\ \A j \in Ranks : j < next - 1 => Fallen(j)
    BY <2>1, CalledFacts
  <2>3. attempt[next - 1].state = "running" /\ Verdict = "open" /\ result = 0
    BY <2>1 DEF Called, IInv, SequentialState, Verdict, Undecided, Over
  <2>4. att \in [Ranks -> AttemptReceipt] /\ att[next - 1] = ApplyOutcome(o)
    BY <2>1, CalledVerdict
  <2>5. \A j \in Ranks \ {next - 1} :
          att[j].state = IF attempt[j].state = "running" THEN "cancelled" ELSE attempt[j].state
    <3>1. \A j \in Ranks : j # next - 1 => attempt[j].state # "running"
      BY <2>1, OnlyLastRuns
    <3>. QED
      BY <3>1
  <2>6. pc' = "returned" /\ attempt' = att /\ result' = 0
        /\ receipt' = FinalReceipt(order, att, 0, "stopped", next - 1)
    BY <2>1 DEF Conclude
  <2>7. Verdict' = "failed"
    BY <2>6, ConcludeVerdict
  <2>. HIDE DEF att
  <2>8. AttemptState' = Contract!Decide(next - 1, ApplyOutcome(o).state)
    BY <2>1, <2>2, <2>4, <2>5, <2>6, DecideRefines
  <2>. QED
    BY <2>1, <2>2, <2>3, <2>6, <2>7, <2>8, HaltRefines
<1>. QED
  BY <1>1, <1>2

\* Cancelling what is in the futures dict cancels exactly what is running.
LEMMA DecidedStates ==
  ASSUME IInv, NEW i \in Ranks, NEW o, At(i, o)
  PROVE  /\ attempt[i].state = "running"
         /\ \A j \in Ranks \ {i} : Decided(i, o)[j].state =
              IF attempt[j].state = "running" THEN "cancelled" ELSE attempt[j].state
<1>1. \A j \in Ranks : j \in futures <=> attempt[j].state = "running"
  BY DEF At, IInv, PoolState, InPool
<1>2. i \in futures
  BY AtFacts
<1>3. Cancelled(o = "result").state = "cancelled"
  BY DEF Cancelled
<1>. QED
  BY <1>1, <1>2, <1>3 DEF Decided

LEMMA ApplyStepRefines ==
  ASSUME IInv, ApplyResult \/ ApplyTerminal
  PROVE  Contract!Next
<1>1. CASE ApplyResult
  <2>1. PICK i \in Ranks :
          /\ At(i, "result") /\ Pop(i) /\ CancelInflight(futures \ {i})
          /\ Conclude(Decided(i, "result"), i, "selected", i)
          /\ UNCHANGED <<config, next, age, outcome>>
    BY <1>1 DEF ApplyResult
  <2>. DEFINE att == Decided(i, "result")
  <2>2. att \in [Ranks -> AttemptReceipt] /\ att[i] = ApplyOutcome("result")
    BY <2>1, DecidedVerdict
  <2>3. pc' = "returned" /\ attempt' = att /\ result' = i /\ i # 0
        /\ receipt' = FinalReceipt(order, att, i, "selected", i)
    BY <2>1, RankFacts DEF Conclude
  <2>4. Verdict = "open" /\ Verdict' = "success"
    BY <2>1, <2>3, ConcludeVerdict DEF At, Verdict
  <2>5. AttemptState' = Contract!Decide(i, "succeeded")
    BY <2>1, <2>2, <2>3, DecidedStates, DecideRefines, ResultApplied
  <2>. QED
    BY <2>1, <2>3, <2>4, <2>5, DecidedStates, WinRefines
<1>2. CASE ApplyTerminal
  <2>1. PICK i \in Ranks, o \in Outcomes :
          /\ At(i, o) /\ IsTerminal(o) /\ Pop(i) /\ CancelInflight(futures \ {i})
          /\ Conclude(Decided(i, o), 0, "stopped", i)
          /\ UNCHANGED <<config, next, age, outcome>>
    BY <1>2 DEF ApplyTerminal
  <2>. DEFINE att == Decided(i, o)
  <2>2. att \in [Ranks -> AttemptReceipt] /\ att[i] = ApplyOutcome(o)
    BY <2>1, DecidedVerdict
  <2>3. pc' = "returned" /\ attempt' = att /\ result' = 0
        /\ receipt' = FinalReceipt(order, att, 0, "stopped", i)
    BY <2>1 DEF Conclude
  <2>4. Verdict = "open" /\ Verdict' = "failed" /\ result = 0
    BY <2>1, <2>3, ConcludeVerdict DEF At, Verdict, IInv, Undecided, Over
  <2>5. AttemptState' = Contract!Decide(i, ApplyOutcome(o).state)
    BY <2>1, <2>2, <2>3, DecidedStates, DecideRefines
  <2>. QED
    BY <2>1, <2>3, <2>4, <2>5, DecidedStates, HaltRefines
<1>. QED
  BY <1>1, <1>2

LEMMA ExhaustStepRefines ==
  ASSUME IInv, SequentialExhausted \/ StaggeredExhausted \/ RunWithoutStrategies
  PROVE  Contract!Next
<1>1. UNCHANGED config /\ attempt' = attempt /\ result' = 0 /\ result = 0
  BY DEF SequentialExhausted, StaggeredExhausted, RunWithoutStrategies, Conclude, IInv, Undecided, Over
<1>2. \A i \in Ranks : Fallen(i)
  <2>1. CASE SequentialExhausted
    BY <2>1, RankFacts DEF SequentialExhausted, IInv, SequentialState
  <2>2. CASE StaggeredExhausted
    BY <2>2, RankFacts DEF StaggeredExhausted, IInv, PoolState, InPool, InFlight, Running, Pending, Undecided, Over
  <2>3. CASE RunWithoutStrategies
    BY <2>3, RankFacts DEF RunWithoutStrategies
  <2>. QED
    BY <2>1, <2>2, <2>3
<1>3. Verdict = "open"
  BY DEF SequentialExhausted, StaggeredExhausted, RunWithoutStrategies, Verdict
<1>4. pc' = "returned" /\ receipt'.outcome = "failed"
  <2>1. CASE SequentialExhausted \/ StaggeredExhausted
    BY <2>1 DEF SequentialExhausted, StaggeredExhausted, Conclude, FinalReceipt
  <2>2. CASE RunWithoutStrategies
    <3>1. /\ pc = "start" /\ pc' = "returned"
          /\ receipt' = [receipt EXCEPT !.reason = "no_strategies", !.accounting = Accounting(attempt)]
      BY <2>2 DEF RunWithoutStrategies
    <3>2. receipt = NewReceipt
      BY <3>1 DEF IInv, Undecided, Over
    <3>. QED
      BY <3>1, <3>2 DEF NewReceipt
  <2>. QED
    BY <2>1, <2>2
<1>5. Verdict' = "failed"
  BY <1>4 DEF Verdict
<1>. QED
  BY <1>1, <1>2, <1>3, <1>5, ExhaustRefines

LEMMA SilentStepRefines ==
  ASSUME IInv, \/ RunSequential \/ WaitCalled \/ WaitWoken \/ PostWait \/ JoinPool
               \/ (\E i \in Ranks : WorkerStart(i) \/ WorkerFinish(i))
               \/ Tick \/ Terminated \/ UNCHANGED vars
  PROVE  UNCHANGED Contract!vars
<1>1. UNCHANGED config /\ attempt' = attempt /\ result' = result /\ receipt' = receipt
  BY DEF RunSequential, WaitCalled, WaitWoken, PostWait, JoinPool, WorkerStart, WorkerFinish, Tick,
     Terminated, vars, report
<1>2. \/ pc' = pc
      \/ pc = "join" /\ pc' = "raised"
      \/ {pc, pc'} \cap {"returned", "join", "raised"} = {}
  BY DEF RunSequential, WaitCalled, WaitWoken, PostWait, JoinPool, WorkerStart, WorkerFinish, Tick,
     Terminated, vars
<1>3. Verdict' = Verdict
  BY <1>1, <1>2 DEF Verdict
<1>. QED
  BY <1>1, <1>3, StutterRefines

\* run() implements its contract.
THEOREM Implements == Spec => ImplementsContract
<1>1. IInv /\ [Next]_vars => [Contract!Next]_(Contract!vars)
  <2>. SUFFICES ASSUME IInv, [Next]_vars PROVE Contract!Next \/ UNCHANGED Contract!vars
    OBVIOUS
  <2>1. CASE ScoringRaises \/ SequentialEscape \/ ApplyEscape \/ SubmitRaises
    BY <2>1, RaiseStepRefines
  <2>2. CASE RunStaggered \/ WaitTimedOut \/ PostLaunch \/ SequentialLaunch \/ SubmitFails
    BY <2>2, LaunchStepRefines
  <2>3. CASE SequentialContinue \/ ApplyContinuation
    BY <2>3, ContinueStepRefines
  <2>4. CASE SequentialResult \/ SequentialTerminal
    BY <2>4, ReturnStepRefines
  <2>5. CASE ApplyResult \/ ApplyTerminal
    BY <2>5, ApplyStepRefines
  <2>6. CASE SequentialExhausted \/ StaggeredExhausted \/ RunWithoutStrategies
    BY <2>6, ExhaustStepRefines
  <2>7. CASE \/ RunSequential \/ WaitCalled \/ WaitWoken \/ PostWait \/ JoinPool
             \/ (\E i \in Ranks : WorkerStart(i) \/ WorkerFinish(i))
             \/ Tick \/ Terminated \/ UNCHANGED vars
    BY <2>7, SilentStepRefines
  <2>. QED
    BY <2>1, <2>2, <2>3, <2>4, <2>5, <2>6, <2>7 DEF Next, Coordinator
<1>. QED
  BY <1>1, InitRefines, InductiveInvariant, PTL DEF Spec, ImplementsContract, Contract!Spec
=============================================================================
