---------------------------- MODULE WaterfallProofs ----------------------------
(***************************************************************************)
(* Safety of Waterfall for every number of strategies, every score and     *)
(* every stagger interval.                                                 *)
(***************************************************************************)
EXTENDS WaterfallInductive, FiniteSetTheorems, TLAPS

LEMMA ResultApplied ==
  /\ ApplyOutcome("result") \in AttemptReceipt
  /\ ApplyOutcome("result").state = "succeeded"
  /\ ApplyOutcome("result").error = "none"
  /\ ApplyOutcome("result").sniped = FALSE
BY DEF ApplyOutcome, IsContinuation, AttemptReceipt, AttemptStates, ErrorCodes

LEMMA ContinuationApplied ==
  ASSUME NEW o, IsContinuation(o)
  PROVE  /\ ApplyOutcome(o) \in AttemptReceipt
         /\ ApplyOutcome(o).state \in {"continuation_error", "cancelled"}
         /\ ApplyOutcome(o).error # "none"
         /\ ApplyOutcome(o).sniped = FALSE
BY DEF ApplyOutcome, IsContinuation, AttemptReceipt, AttemptStates, ErrorCodes

LEMMA TerminalApplied ==
  ASSUME NEW o, IsTerminal(o)
  PROVE  /\ ApplyOutcome(o) \in AttemptReceipt
         /\ ApplyOutcome(o).state \in {"terminal_error", "cancelled"}
         /\ ApplyOutcome(o).error # "none"
         /\ ApplyOutcome(o).sniped = FALSE
BY DEF ApplyOutcome, IsTerminal, IsContinuation, AttemptReceipt, AttemptStates, ErrorCodes

LEMMA CancelledType ==
  ASSUME NEW snipe \in BOOLEAN
  PROVE  Cancelled(snipe) \in AttemptReceipt
BY DEF Cancelled, AttemptReceipt, AttemptStates, ErrorCodes

LEMMA CountedFinite ==
  ASSUME NEW k \in Nat, NEW att \in [1..k -> AttemptReceipt]
  PROVE  \A key \in AccountingKeys : /\ Counted(att, key) \subseteq 1..k
                                     /\ IsFiniteSet(Counted(att, key))
                                     /\ Cardinality(Counted(att, key)) \in Nat
<1>1. IsFiniteSet(1..k)
  BY FS_Interval
<1>2. \A key \in AccountingKeys : Counted(att, key) \subseteq 1..k
  BY DEF Counted, AccountingKeys, InState
<1>. QED
  BY <1>1, <1>2, FS_Subset, FS_CardinalityType

LEMMA AccountingType ==
  ASSUME NEW k \in Nat, NEW att \in [1..k -> AttemptReceipt]
  PROVE  Accounting(att) \in [AccountingKeys -> Nat]
BY CountedFinite DEF Accounting

LEMMA InitInv == Init => IInv
<1>. SUFFICES ASSUME Init PROVE IInv
  OBVIOUS
<1>. USE DEF Init, Ranks
<1>1. TypeOK
  <2>1. n \in Nat /\ n \in 0..MaxStrategies /\ stagger \in Nat
    BY ConfigAssumption DEF ConfigAssumption
  <2>2. NotFinished \in [AccountingKeys -> Nat]
    BY DEF NotFinished
  <2>3. Pending \in AttemptReceipt
    BY DEF Pending, AttemptReceipt, AttemptStates, ErrorCodes
  <2>4. receipt \in AcquisitionReceipt
    BY <2>1, <2>2 DEF NewReceipt, AcquisitionReceipt
  <2>5. order \in [Ranks -> Ranks]
    BY DEF OrderedStrategies
  <2>6. worker \in [Ranks -> {"idle", "queued", "running", "finished", "dropped"}]
    OBVIOUS
  <2>7. outcome \in [Ranks -> Outcomes \cup {"none"}]
    OBVIOUS
  <2>8. attempt \in [Ranks -> AttemptReceipt]
    BY <2>3
  <2>9. score \in [Ranks -> Scores]
    OBVIOUS
  <2>10. age \in 0..stagger /\ next \in 1..(n + 1) /\ result \in 0..n
    BY <2>1
  <2>11. stagger \in Staggers /\ cancellation \in BOOLEAN /\ pc = "start"
    OBVIOUS
  <2>12. futures \in SUBSET Ranks /\ batch \in SUBSET Ranks
    OBVIOUS
  <2>. QED
    BY <2>1, <2>4, <2>5, <2>6, <2>7, <2>8, <2>9, <2>10, <2>11, <2>12, Zenon
    DEF TypeOK, ConfigType, LocalsType, PoolType, ReportType
<1>2. Sorted
  BY DEF Sorted, OrderedStrategies
<1>3. LaunchedInOrder /\ OutcomeWhenFinished /\ Undecided /\ SequentialState
  BY DEF LaunchedInOrder, OutcomeWhenFinished, Undecided, Over, SequentialState
<1>4. PoolState /\ Concluded
  BY DEF PoolState, Concluded, InPool
<1>5. SelectionConsistent /\ TerminalStops /\ FallbackExhaustive /\ NoCallAfterReturn /\ LosersSignalled
  BY DEF SelectionConsistent, TerminalStops, FallbackExhaustive, NoCallAfterReturn, LosersSignalled,
     Over, Pending
<1>. QED
  BY <1>1, <1>2, <1>3, <1>4, <1>5 DEF IInv

\* While run() is open there is no verdict to be wrong about.
LEMMA OpenState ==
  /\ LaunchedInOrder /\ Undecided /\ pc \notin {"returned", "raised"}
  => /\ Concluded /\ SelectionConsistent /\ TerminalStops /\ FallbackExhaustive
     /\ NoCallAfterReturn /\ LosersSignalled
<1>. SUFFICES ASSUME LaunchedInOrder, Undecided, pc \notin {"returned", "raised"}
              PROVE  /\ Concluded /\ SelectionConsistent /\ TerminalStops /\ FallbackExhaustive
                     /\ NoCallAfterReturn /\ LosersSignalled
  OBVIOUS
<1>1. ASSUME NEW i \in Ranks
      PROVE  attempt[i].state # "terminal_error"
  <2>1. CASE InFlight(i)
    BY <2>1 DEF InFlight, Running, Pending
  <2>2. CASE Fallen(i)
    BY <2>2, ContinuationApplied DEF Fallen
  <2>3. CASE attempt[i] = Pending
    BY <2>3 DEF Pending
  <2>. QED
    BY <2>1, <2>2, <2>3 DEF LaunchedInOrder, Undecided, Over
<1>. QED
  BY <1>1 DEF Concluded, SelectionConsistent, TerminalStops, FallbackExhaustive,
     NoCallAfterReturn, LosersSignalled, Over

Structure == LaunchedInOrder /\ OutcomeWhenFinished /\ Undecided /\ SequentialState /\ PoolState

LEMMA OpenStep ==
  ASSUME IInv, TypeOK', UNCHANGED config, Structure', pc' \notin {"returned", "raised"}
  PROVE  IInv'
<1>1. Sorted'
  BY DEF IInv, Sorted, config, Ranks
<1>2. (/\ Concluded /\ SelectionConsistent /\ TerminalStops /\ FallbackExhaustive
       /\ NoCallAfterReturn /\ LosersSignalled)'
  <2>1. (LaunchedInOrder /\ Undecided /\ pc \notin {"returned", "raised"})'
    BY DEF Structure
  <2>. QED
    BY <2>1, OpenState, PTL
<1>. QED
  BY <1>1, <1>2 DEF IInv, Structure

\* launch(next_index) keeps the invariant wherever it is called.
LEMMA LaunchInv ==
  ASSUME IInv, Launch, Staggered, next <= n, pc \in InPool \cup {"start"},
         \A i \in Ranks : i \in futures <=> attempt[i].state = "running",
         pc' = "loop", UNCHANGED <<config, batch, cancellation, outcome, result, receipt>>
  PROVE  IInv'
<1>. USE DEF IInv, Ranks, config, Launch
<1>0. /\ next \in Ranks /\ n \in Nat /\ stagger \in Nat
  BY ConfigAssumption DEF TypeOK, ConfigType, LocalsType, ConfigAssumption
<1>1. TypeOK'
  <2>1. Running \in AttemptReceipt
    BY DEF Running, Pending, AttemptReceipt, AttemptStates, ErrorCodes
  <2>2. attempt' \in [Ranks' -> AttemptReceipt]
    BY <1>0, <2>1 DEF TypeOK, ReportType
  <2>3. worker' \in [Ranks' -> {"idle", "queued", "running", "finished", "dropped"}]
    BY <1>0 DEF TypeOK, PoolType
  <2>4. next' \in 1..(n' + 1) /\ futures' \in SUBSET Ranks' /\ age' \in 0..stagger'
    BY <1>0 DEF TypeOK, LocalsType
  <2>5. ConfigType' /\ LocalsType'
    BY <2>4 DEF TypeOK, ConfigType, LocalsType
  <2>6. PoolType' /\ ReportType'
    BY <2>2, <2>3 DEF TypeOK, PoolType, ReportType, AcquisitionReceipt
  <2>. QED
    BY <2>5, <2>6 DEF TypeOK
<1>2. LaunchedInOrder' /\ OutcomeWhenFinished'
  <2>1. LaunchedInOrder'
    <3>1. attempt'[next].state = "running" /\ worker'[next] = "queued" /\ next' = next + 1
      BY <1>0 DEF TypeOK, PoolType, ReportType, Running, Pending
    <3>2. \A i \in Ranks \ {next} : attempt'[i] = attempt[i] /\ worker'[i] = worker[i]
      BY DEF TypeOK, PoolType, ReportType
    <3>. QED
      BY <1>0, <3>1, <3>2 DEF LaunchedInOrder
  <2>2. OutcomeWhenFinished'
    BY <1>0 DEF TypeOK, LocalsType, PoolType, LaunchedInOrder, OutcomeWhenFinished
  <2>. QED
    BY <2>1, <2>2
<1>3. Undecided'
  BY <1>0 DEF TypeOK, LocalsType, PoolType, ReportType, Undecided, Over, InFlight, Fallen, InPool
<1>4. SequentialState' /\ PoolState'
  BY <1>0 DEF TypeOK, LocalsType, ReportType, SequentialState, PoolState, InPool, Running, Staggered
<1>. QED
  BY <1>1, <1>2, <1>3, <1>4, OpenStep DEF Structure

\* What Conclude writes when the attempts hold the success of res, or none.
LEMMA FinalReport ==
  ASSUME TypeOK,
         NEW att \in [Ranks -> AttemptReceipt], NEW res \in 0..n,
         NEW why \in {"initial", "selected", "stopped"}, NEW who \in 0..n,
         InState(att, "succeeded") = {res} \ {0},
         NEW rec, rec = FinalReceipt(order, att, res, why, who)
  PROVE  /\ rec.outcome = IF res = 0 THEN "failed" ELSE "success"
         /\ rec.selected = IF res = 0 THEN 0 ELSE order[res]
         /\ rec.reason = IF res = 0 /\ why = "initial" THEN "all_failed" ELSE why
         /\ res # 0 \/ why # "initial" => rec.named = who
         /\ rec.accounting = Accounting(att)
         /\ rec \in AcquisitionReceipt
<1>1. n \in Nat /\ Ranks = 1..n /\ DOMAIN att = Ranks /\ order \in [Ranks -> Ranks]
  BY ConfigAssumption DEF TypeOK, ConfigType, ConfigAssumption, Ranks
<1>2. res # 0 => FirstSucceeded(att) = res
  BY DEF FirstSucceeded
<1>3. res # 0 => order[res] \in 1..n
  BY <1>1
<1>4. Cardinality({i \in Ranks : att[i].error # "none"}) \in Nat
  <2>1. {i \in Ranks : att[i].error # "none"} \subseteq 1..n /\ IsFiniteSet(1..n)
    BY <1>1, FS_Interval
  <2>. QED
    BY <2>1, FS_Subset, FS_CardinalityType
<1>5. Accounting(att) \in [AccountingKeys -> Nat]
  BY <1>1, AccountingType
<1>. HIDE DEF Accounting
<1>. QED
  BY <1>1, <1>2, <1>3, <1>4, <1>5 DEF FinalReceipt, AcquisitionReceipt

\* A step that returns keeps the invariant if the attempts it returns are
\* settled and its verdict is right.
LEMMA ConcludeInv ==
  ASSUME IInv, UNCHANGED config, UNCHANGED <<next, outcome>>, LocalsType', PoolType',
         NEW att \in [Ranks -> AttemptReceipt], NEW res \in 0..n,
         NEW why \in {"initial", "selected", "stopped"}, NEW who \in 0..n,
         InState(att, "succeeded") = {res} \ {0}, Conclude(att, res, why, who),
         \A i \in Ranks :
           /\ i < next => att[i].state \notin {"pending", "running"} /\ worker'[i] \notin {"idle", "queued"}
           /\ i >= next => att[i] = Pending /\ worker'[i] = "idle"
           /\ worker'[i] = "finished" <=> worker[i] = "finished"
           /\ att[i].sniped => att[i].state = "cancelled" /\ res # 0
           /\ worker'[i] = "running" => cancellation' /\ att[i].cancelled,
         \A i \in batch' : worker'[i] = "finished",
         SelectionConsistent', TerminalStops', FallbackExhaustive'
  PROVE  IInv'
<1>1. /\ ReportType' /\ pc' = "returned" /\ attempt' = att /\ result' = res
      /\ receipt'.accounting = Accounting(att)
  <2>1. pc' = "returned" /\ attempt' = att /\ result' = res
        /\ receipt' = FinalReceipt(order, att, res, why, who)
    BY DEF Conclude
  <2>0. TypeOK /\ InState(att, "succeeded") = {res} \ {0}
    BY DEF IInv
  <2>2. /\ receipt'.accounting = Accounting(att)
        /\ receipt' \in AcquisitionReceipt
    BY <2>1, <2>0, FinalReport
  <2>. QED
    BY <2>1, <2>2 DEF ReportType, AcquisitionReceipt, config, Ranks
<1>2. TypeOK'
  BY <1>1 DEF IInv, TypeOK, ConfigType, config, Ranks
<1>3. Sorted'
  BY DEF IInv, Sorted, config, Ranks
<1>4. LaunchedInOrder' /\ OutcomeWhenFinished'
  <2>1. Ranks' = Ranks /\ n' = n /\ n \in Nat /\ next \in Nat
    BY ConfigAssumption DEF IInv, TypeOK, ConfigType, LocalsType, ConfigAssumption, Ranks, config
  <2>2. LaunchedInOrder'
    BY <1>1, <2>1 DEF LaunchedInOrder, Ranks
  <2>3. OutcomeWhenFinished'
    BY <2>1 DEF IInv, OutcomeWhenFinished
  <2>. QED
    BY <2>2, <2>3
<1>5. Undecided' /\ SequentialState' /\ PoolState'
  BY <1>1 DEF Undecided, Over, SequentialState, PoolState, InPool
<1>6. Concluded'
  <2>1. \A i \in Ranks : att[i].state # "running"
    BY DEF IInv, TypeOK, LocalsType, ConfigType, Ranks, Pending
  <2>2. \A i \in Ranks : att[i].sniped => att[i].state = "cancelled" /\ res # 0
    OBVIOUS
  <2>. QED
    BY <1>1, <2>1, <2>2 DEF Concluded, Ranks, config
<1>7. NoCallAfterReturn' /\ LosersSignalled'
  <2>1. \A i \in Ranks : worker'[i] # "queued"
    BY DEF IInv, TypeOK, LocalsType, ConfigType, Ranks
  <2>. QED
    BY <1>1, <2>1 DEF NoCallAfterReturn, LosersSignalled, Ranks, config
<1>. QED
  BY <1>2, <1>3, <1>4, <1>5, <1>6, <1>7 DEF IInv

\* A step that returns the result of rank i.
LEMMA WinInv ==
  ASSUME IInv, UNCHANGED config, UNCHANGED <<next, outcome>>, LocalsType', PoolType',
         NEW att \in [Ranks -> AttemptReceipt], NEW i \in Ranks, Conclude(att, i, "selected", i),
         \A j \in Ranks :
           /\ j < next => att[j].state \notin {"pending", "running"} /\ worker'[j] \notin {"idle", "queued"}
           /\ j >= next => att[j] = Pending /\ worker'[j] = "idle"
           /\ worker'[j] = "finished" <=> worker[j] = "finished"
           /\ worker'[j] = "running" => cancellation' /\ att[j].cancelled,
         \A j \in batch' : worker'[j] = "finished",
         outcome[i] = "result", att[i] = ApplyOutcome("result"),
         \A j \in Ranks \ {i} : /\ att[j].state \notin {"succeeded", "terminal_error"}
                                /\ att[j].sniped => att[j].state = "cancelled"
  PROVE  IInv'
<1>0. att[i].state = "succeeded" /\ ~att[i].sniped
  BY ResultApplied
<1>1. n \in Nat /\ i \in 0..n /\ i # 0 /\ Ranks' = Ranks /\ order' = order /\ DOMAIN att = Ranks
  BY ConfigAssumption DEF IInv, TypeOK, ConfigType, ConfigAssumption, Ranks, config
<1>2. InState(att, "succeeded") = {i} \ {0}
  BY <1>0, <1>1 DEF InState
<1>3. pc' = "returned" /\ attempt' = att /\ result' = i
      /\ receipt' = FinalReceipt(order, att, i, "selected", i)
  BY DEF Conclude
<1>4. /\ receipt'.outcome = "success" /\ receipt'.selected = order[i]
      /\ receipt'.reason = "selected" /\ receipt'.named = i
  BY <1>1, <1>2, <1>3, FinalReport DEF IInv
<1>5. SelectionConsistent'
  BY <1>1, <1>2, <1>3, <1>4 DEF SelectionConsistent
<1>6. \A j \in Ranks : att[j].state # "terminal_error"
  BY <1>0
<1>7. TerminalStops' /\ FallbackExhaustive'
  BY <1>1, <1>3, <1>6 DEF TerminalStops, FallbackExhaustive
<1>8. \A j \in Ranks : att[j].sniped => att[j].state = "cancelled" /\ i # 0
  BY <1>0, <1>1
<1>. QED
  BY <1>1, <1>2, <1>5, <1>7, <1>8, ConcludeInv

\* A step that stops the run at the error of rank i.
LEMMA HaltInv ==
  ASSUME IInv, UNCHANGED config, UNCHANGED <<next, outcome>>, LocalsType', PoolType',
         NEW att \in [Ranks -> AttemptReceipt], NEW i \in Ranks, Conclude(att, 0, "stopped", i),
         \A j \in Ranks :
           /\ j < next => att[j].state \notin {"pending", "running"} /\ worker'[j] \notin {"idle", "queued"}
           /\ j >= next => att[j] = Pending /\ worker'[j] = "idle"
           /\ worker'[j] = "finished" <=> worker[j] = "finished"
           /\ worker'[j] = "running" => cancellation' /\ att[j].cancelled,
         \A j \in batch' : worker'[j] = "finished",
         NEW o, IsTerminal(o), att[i] = ApplyOutcome(o),
         \A j \in Ranks \ {i} : /\ att[j].state \notin {"succeeded", "terminal_error"}
                                /\ ~att[j].sniped
  PROVE  IInv'
<1>1. n \in Nat /\ i \in 0..n /\ 0 \in 0..n /\ Ranks' = Ranks /\ DOMAIN att = Ranks
  BY ConfigAssumption DEF IInv, TypeOK, ConfigType, ConfigAssumption, Ranks, config
<1>2. InState(att, "succeeded") = {0} \ {0}
  BY <1>1, TerminalApplied DEF InState
<1>3. pc' = "returned" /\ attempt' = att /\ result' = 0
      /\ receipt' = FinalReceipt(order, att, 0, "stopped", i)
  BY DEF Conclude
<1>4. receipt'.outcome = "failed" /\ receipt'.reason = "stopped" /\ receipt'.named = i
  BY <1>1, <1>2, <1>3, FinalReport DEF IInv
<1>5. SelectionConsistent' /\ FallbackExhaustive'
  BY <1>1, <1>2, <1>3, <1>4 DEF SelectionConsistent, FallbackExhaustive
<1>6. \A j \in Ranks : ~att[j].sniped
  BY TerminalApplied
<1>7. TerminalStops'
  <2>1. \A j \in Ranks : att[j].state = "terminal_error" => j = i
    OBVIOUS
  <2>2. \A j \in Ranks : /\ att[j].state # "running"
                         /\ att[j].state = "pending" => worker'[j] = "idle"
    BY DEF IInv, TypeOK, LocalsType, ConfigType, Ranks, Pending
  <2>. QED
    BY <1>1, <1>3, <1>4, <1>6, <2>1, <2>2 DEF TerminalStops
<1>. QED
  BY <1>1, <1>2, <1>5, <1>6, <1>7, ConcludeInv

\* A step that returns because every strategy has fallen.
LEMMA ExhaustInv ==
  ASSUME IInv, pc # "returned", UNCHANGED config, UNCHANGED <<locals, pool>>,
         Conclude(attempt, 0, "initial", 0),
         \A i \in Ranks : i < next /\ Fallen(i)
  PROVE  IInv'
<1>1. /\ n \in Nat /\ 0 \in 0..n /\ Ranks' = Ranks /\ Ranks = 1..n /\ n' = n
      /\ next \in Nat /\ attempt \in [Ranks -> AttemptReceipt]
  BY ConfigAssumption DEF IInv, TypeOK, ConfigType, LocalsType, ReportType, ConfigAssumption, Ranks, config
<1>2. \A i \in Ranks : /\ attempt[i].state \in {"continuation_error", "cancelled"}
                       /\ attempt[i].error # "none" /\ ~attempt[i].sniped
  BY ContinuationApplied DEF Fallen
<1>3. InState(attempt, "succeeded") = {0} \ {0}
  BY <1>1, <1>2 DEF InState
<1>4. pc' = "returned" /\ attempt' = attempt /\ result' = 0
      /\ receipt' = FinalReceipt(order, attempt, 0, "initial", 0)
  BY DEF Conclude
<1>5. receipt'.outcome = "failed" /\ receipt'.reason = "all_failed"
  BY <1>1, <1>3, <1>4, FinalReport DEF IInv
<1>6. receipt'.named = n
  <2>1. {i \in DOMAIN attempt : attempt[i].error # "none"} = 1..n
    BY <1>1, <1>2
  <2>2. Cardinality(1..n) = n
    BY <1>1, FS_Interval
  <2>. QED
    BY <1>4, <2>1, <2>2 DEF FinalReceipt
<1>7. SelectionConsistent' /\ TerminalStops'
  BY <1>1, <1>2, <1>3, <1>4, <1>5 DEF SelectionConsistent, TerminalStops
<1>8. FallbackExhaustive'
  BY <1>1, <1>4, <1>5, <1>6 DEF FallbackExhaustive, Fallen, pool
<1>9. LocalsType' /\ PoolType' /\ next' = next /\ outcome' = outcome /\ worker' = worker
  BY DEF IInv, TypeOK, LocalsType, PoolType, locals, pool, config, Ranks
<1>10. \A i \in Ranks : worker[i] = "finished"
  BY DEF Fallen
<1>11. \A i \in batch' : worker'[i] = "finished"
  BY <1>1, <1>9, <1>10 DEF LocalsType
<1>12. \A i \in Ranks :
         /\ i < next => attempt[i].state \notin {"pending", "running"} /\ worker'[i] \notin {"idle", "queued"}
         /\ i >= next => attempt[i] = Pending /\ worker'[i] = "idle"
         /\ worker'[i] = "finished" <=> worker[i] = "finished"
         /\ attempt[i].sniped => attempt[i].state = "cancelled" /\ 0 # 0
         /\ worker'[i] = "running" => cancellation' /\ attempt[i].cancelled
  BY <1>1, <1>2, <1>9, <1>10
<1>. QED
  BY <1>1, <1>3, <1>7, <1>8, <1>9, <1>11, <1>12, ConcludeInv

\* What the constants' and variables' types say about ranks.
LEMMA RankFacts ==
  ASSUME IInv
  PROVE  /\ n \in Nat /\ stagger \in Nat /\ Ranks = 1..n
         /\ next \in 1..(n + 1) /\ next \in Nat
         /\ attempt \in [Ranks -> AttemptReceipt]
         /\ futures \subseteq Ranks /\ batch \subseteq Ranks
         /\ ConfigType /\ LocalsType /\ PoolType /\ ReportType
BY ConfigAssumption DEF IInv, TypeOK, ConfigType, LocalsType, ReportType, ConfigAssumption, Ranks

\* What is known of each rank when the adapter called sequentially is back.
LEMMA CalledFacts ==
  ASSUME IInv, NEW o, Called(o)
  PROVE  /\ next - 1 \in Ranks /\ worker[next - 1] = "finished" /\ outcome[next - 1] = o
         /\ \A j \in Ranks : j < next - 1 => Fallen(j)
         /\ \A j \in Ranks : j >= next => attempt[j] = Pending /\ worker[j] = "idle"
<1>1. next - 1 \in Ranks
  BY RankFacts DEF IInv, SequentialState, Called
<1>. QED
  BY <1>1, RankFacts DEF IInv, SequentialState, LaunchedInOrder, Called

\* ... and when the for loop is at the future of rank i.
LEMMA AtFacts ==
  ASSUME IInv, NEW i \in Ranks, NEW o, At(i, o)
  PROVE  /\ i < next /\ worker[i] = "finished" /\ outcome[i] = o
         /\ i \in futures /\ Staggered
         /\ \A j \in Ranks : j \in futures => j < next /\ InFlight(j)
         /\ \A j \in Ranks : j \notin futures /\ j < next => Fallen(j)
         /\ \A j \in Ranks : j >= next =>
              j \notin futures /\ attempt[j] = Pending /\ worker[j] = "idle"
<1>1. i \in futures /\ worker[i] = "finished" /\ outcome[i] = o /\ Staggered
  BY DEF At, IInv, PoolState, InPool
<1>2. \A j \in Ranks : j \in futures <=> attempt[j].state = "running"
  BY DEF At, IInv, PoolState, InPool
<1>3. \A j \in Ranks : j >= next => attempt[j] = Pending /\ worker[j] = "idle"
  BY RankFacts DEF IInv, LaunchedInOrder
<1>4. \A j \in Ranks : j \in futures => j < next
  BY RankFacts, <1>2, <1>3 DEF Pending
<1>5. \A j \in Ranks : j < next => InFlight(j) \/ Fallen(j)
  BY DEF At, IInv, Undecided, Over
<1>6. \A j \in Ranks : Fallen(j) => attempt[j].state # "running"
  BY ContinuationApplied DEF Fallen
<1>7. \A j \in Ranks : InFlight(j) => attempt[j].state = "running"
  BY DEF InFlight, Running, Pending
<1>. QED
  BY <1>1, <1>2, <1>3, <1>4, <1>5, <1>6, <1>7, RankFacts DEF Pending

LEMMA BeforeWaterfallInv ==
  ASSUME IInv, ScoringRaises \/ RunWithoutStrategies \/ RunSequential
  PROVE  IInv'
<1>. USE RankFacts
<1>1. CASE ScoringRaises
  <2>1. \A i \in Ranks : attempt[i] = Pending /\ worker[i] = "idle"
    BY <1>1 DEF ScoringRaises, IInv, SequentialState, LaunchedInOrder
  <2>2. TypeOK' /\ Sorted' /\ LaunchedInOrder' /\ OutcomeWhenFinished'
    BY <1>1 DEF ScoringRaises, IInv, TypeOK, Sorted, LaunchedInOrder, OutcomeWhenFinished, ConfigType,
       LocalsType, PoolType, ReportType, AcquisitionReceipt, config, locals, pool, report, Ranks
  <2>3. Undecided' /\ SequentialState' /\ PoolState' /\ Concluded'
    BY <1>1 DEF ScoringRaises, IInv, Undecided, Over, SequentialState, PoolState, Concluded, InFlight,
       Fallen, InPool, config, locals, pool, report, Ranks
  <2>4. (/\ SelectionConsistent /\ TerminalStops /\ FallbackExhaustive
         /\ NoCallAfterReturn /\ LosersSignalled)'
    BY <1>1, <2>1 DEF ScoringRaises, SelectionConsistent, TerminalStops, FallbackExhaustive,
       NoCallAfterReturn, LosersSignalled, Pending, config, pool, report, Ranks
  <2>. QED
    BY <2>2, <2>3, <2>4 DEF IInv
<1>2. CASE RunWithoutStrategies
  <2>1. Ranks = {} /\ Ranks' = {} /\ n' = 0 /\ attempt' = attempt /\ result' = 0 /\ result = 0
    BY <1>2 DEF RunWithoutStrategies, IInv, Undecided, Over, config, Ranks
  <2>2. /\ receipt'.accounting = Accounting(attempt) /\ receipt'.outcome = "failed"
        /\ receipt' \in AcquisitionReceipt
    <3>1. Accounting(attempt) \in [AccountingKeys -> Nat]
      BY AccountingType
    <3>2. receipt' = [receipt EXCEPT !.reason = "no_strategies", !.accounting = Accounting(attempt)]
      BY <1>2 DEF RunWithoutStrategies
    <3>3. receipt \in AcquisitionReceipt /\ receipt.outcome = "failed"
      BY <1>2 DEF RunWithoutStrategies, IInv, Undecided, Over, ReportType, NewReceipt
    <3>. QED
      BY <3>1, <3>2, <3>3 DEF AcquisitionReceipt
  <2>3. TypeOK' /\ Sorted' /\ LaunchedInOrder' /\ OutcomeWhenFinished'
    BY <1>2, <2>1, <2>2 DEF RunWithoutStrategies, IInv, TypeOK, Sorted, LaunchedInOrder,
       OutcomeWhenFinished, ConfigType, LocalsType, PoolType, ReportType, AcquisitionReceipt,
       config, locals, pool
  <2>4. Undecided' /\ SequentialState' /\ PoolState' /\ Concluded'
    BY <1>2, <2>1, <2>2 DEF RunWithoutStrategies, IInv, Undecided, Over, SequentialState, PoolState,
       Concluded, LocalsType, InPool, locals
  <2>5. (/\ SelectionConsistent /\ TerminalStops /\ FallbackExhaustive
         /\ NoCallAfterReturn /\ LosersSignalled)'
    <3>1. InState(attempt', "succeeded") = {}
      BY <2>1 DEF InState
    <3>. QED
      BY <1>2, <2>1, <2>2, <3>1 DEF RunWithoutStrategies, SelectionConsistent, TerminalStops,
         FallbackExhaustive, NoCallAfterReturn, LosersSignalled
  <2>. QED
    BY <2>3, <2>4, <2>5 DEF IInv
<1>3. CASE RunSequential
  <2>1. UNCHANGED config /\ pc' \notin {"returned", "raised"}
    BY <1>3 DEF RunSequential
  <2>2. TypeOK' /\ LaunchedInOrder' /\ OutcomeWhenFinished'
    BY <1>3 DEF RunSequential, IInv, TypeOK, LaunchedInOrder, OutcomeWhenFinished, ConfigType,
       LocalsType, PoolType, ReportType, AcquisitionReceipt, config, locals, pool, report, Ranks
  <2>3. Undecided' /\ SequentialState' /\ PoolState'
    BY <1>3 DEF RunSequential, IInv, Undecided, Over, SequentialState, PoolState, InFlight, Fallen,
       InPool, config, locals, pool, report, Ranks
  <2>. QED
    BY <2>1, <2>2, <2>3, OpenStep DEF Structure
<1>. QED
  BY <1>1, <1>2, <1>3

LEMMA SequentialStepInv ==
  ASSUME IInv, SequentialLaunch \/ SequentialContinue \/ SequentialEscape
  PROVE  IInv'
<1>. USE RankFacts
<1>1. CASE SequentialLaunch
  <2>1. /\ next \in Ranks /\ UNCHANGED config /\ pc' = "seq_call" /\ Ranks' = Ranks
        /\ attempt' = [attempt EXCEPT ![next] = Running]
        /\ worker' = [worker EXCEPT ![next] = "running"]
        /\ next' = next + 1 /\ outcome' = outcome
    BY <1>1 DEF SequentialLaunch, config, Ranks
  <2>2. TypeOK'
    <3>1. Running \in AttemptReceipt
      BY DEF Running, Pending, AttemptReceipt, AttemptStates, ErrorCodes
    <3>2. ConfigType' /\ LocalsType'
      BY <1>1, <2>1 DEF SequentialLaunch, ConfigType, LocalsType, config
    <3>3. PoolType' /\ ReportType'
      BY <1>1, <2>1, <3>1 DEF SequentialLaunch, PoolType, ReportType, AcquisitionReceipt, config
    <3>. QED
      BY <2>1, <3>2, <3>3 DEF TypeOK
  <2>3. attempt'[next] = Running /\ worker'[next] = "running"
    BY <2>1 DEF PoolType
  <2>4. \A i \in Ranks \ {next} : attempt'[i] = attempt[i] /\ worker'[i] = worker[i]
    BY <2>1 DEF PoolType
  <2>5. LaunchedInOrder' /\ OutcomeWhenFinished'
    <3>1. LaunchedInOrder'
      BY <2>1, <2>3, <2>4 DEF IInv, LaunchedInOrder, Running, Pending
    <3>2. OutcomeWhenFinished'
      BY <2>1, <2>3, <2>4 DEF IInv, OutcomeWhenFinished, LaunchedInOrder
    <3>. QED
      BY <3>1, <3>2
  <2>6. Undecided'
    BY <1>1, <2>1, <2>3, <2>4 DEF SequentialLaunch, IInv, Undecided, Over, InFlight, Fallen
  <2>7. SequentialState' /\ PoolState'
    <3>1. pc = "seq_loop" /\ batch' = {} /\ Running.state = "running"
      BY <1>1 DEF SequentialLaunch, IInv, SequentialState, Running, Pending
    <3>2. next' - 1 = next /\ next' > 1
      BY <2>1 DEF LocalsType, Ranks
    <3>3. \A i \in Ranks : i < next => Fallen(i)'
      BY <2>1, <2>4, <3>1 DEF IInv, SequentialState, Fallen
    <3>. QED
      BY <2>1, <2>3, <3>1, <3>2, <3>3 DEF SequentialState, PoolState, InPool
  <2>. QED
    BY <2>1, <2>2, <2>5, <2>6, <2>7, OpenStep DEF Structure
<1>2. CASE SequentialContinue
  <2>1. PICK o \in Outcomes : /\ Called(o) /\ IsContinuation(o) /\ pc' = "seq_loop"
                              /\ attempt' = [attempt EXCEPT ![next - 1] = ApplyOutcome(o)]
                              /\ UNCHANGED <<config, locals, pool, result, receipt>>
    BY <1>2 DEF SequentialContinue
  <2>2. /\ next - 1 \in Ranks /\ Ranks' = Ranks /\ n' = n /\ next' = next
        /\ worker' = worker /\ outcome' = outcome
    BY <2>1, CalledFacts DEF config, locals, pool, Ranks
  <2>3. TypeOK'
    BY <2>1, <2>2, ContinuationApplied DEF TypeOK, ConfigType, LocalsType, PoolType, ReportType,
       AcquisitionReceipt, config, locals, pool
  <2>4. attempt'[next - 1] = ApplyOutcome(o) /\ outcome[next - 1] = o /\ worker[next - 1] = "finished"
    BY <2>1, <2>2, CalledFacts
  <2>5. \A i \in Ranks : i # next - 1 => attempt'[i] = attempt[i]
    BY <2>1
  <2>6. \A i \in Ranks : i < next => Fallen(i)'
    BY <2>1, <2>2, <2>4, <2>5, CalledFacts DEF Fallen
  <2>7. LaunchedInOrder' /\ OutcomeWhenFinished'
    <3>1. attempt'[next - 1].state # "pending"
      BY <2>1, <2>4, ContinuationApplied
    <3>2. LaunchedInOrder'
      BY <2>2, <2>4, <2>5, <3>1 DEF IInv, LaunchedInOrder
    <3>3. OutcomeWhenFinished'
      BY <2>2 DEF IInv, OutcomeWhenFinished
    <3>. QED
      BY <3>2, <3>3
  <2>8. Undecided' /\ SequentialState' /\ PoolState'
    BY <2>1, <2>2, <2>6 DEF Called, IInv, Undecided, Over, SequentialState, PoolState, InPool, locals
  <2>. QED
    BY <2>1, <2>3, <2>7, <2>8, OpenStep DEF Structure
<1>3. CASE SequentialEscape
  <2>1. Called("escape") /\ pc' = "raised" /\ UNCHANGED <<config, locals, pool, report>>
    BY <1>3 DEF SequentialEscape
  <2>2. \A i \in Ranks : worker[i] \notin {"queued", "running"}
    BY <2>1, CalledFacts DEF Fallen
  <2>3. TypeOK' /\ Sorted' /\ LaunchedInOrder' /\ OutcomeWhenFinished'
    BY <2>1 DEF IInv, TypeOK, Sorted, LaunchedInOrder, OutcomeWhenFinished, ConfigType,
       LocalsType, PoolType, ReportType, AcquisitionReceipt, config, locals, pool, report, Ranks
  <2>4. Undecided' /\ SequentialState' /\ PoolState' /\ Concluded'
    BY <2>1 DEF Called, IInv, Undecided, Over, SequentialState, PoolState, Concluded, InFlight,
       Fallen, InPool, config, locals, pool, report, Ranks
  <2>5. (/\ SelectionConsistent /\ TerminalStops /\ FallbackExhaustive
         /\ NoCallAfterReturn /\ LosersSignalled)'
    BY <2>1, <2>2 DEF Called, IInv, SelectionConsistent, TerminalStops, FallbackExhaustive,
       NoCallAfterReturn, LosersSignalled, config, pool, report, Ranks
  <2>. QED
    BY <2>3, <2>4, <2>5 DEF IInv
<1>. QED
  BY <1>1, <1>2, <1>3

\* The attempts and the pool when the sequential waterfall comes back with the
\* verdict of the strategy it called last.
LEMMA CalledVerdict ==
  ASSUME IInv, NEW o, Called(o), o = "result" \/ IsTerminal(o), UNCHANGED <<config, locals, pool>>,
         NEW att, att = [attempt EXCEPT ![next - 1] = ApplyOutcome(o)]
  PROVE  /\ att \in [Ranks -> AttemptReceipt] /\ att[next - 1] = ApplyOutcome(o)
         /\ \A j \in Ranks :
              /\ j < next => att[j].state \notin {"pending", "running"} /\ worker'[j] \notin {"idle", "queued"}
              /\ j >= next => att[j] = Pending /\ worker'[j] = "idle"
              /\ worker'[j] = "finished" <=> worker[j] = "finished"
              /\ worker'[j] = "running" => cancellation' /\ att[j].cancelled
         /\ \A j \in batch' : worker'[j] = "finished"
         /\ \A j \in Ranks \ {next - 1} : /\ att[j].state \notin {"succeeded", "terminal_error"}
                                          /\ ~att[j].sniped
         /\ LocalsType' /\ PoolType' /\ UNCHANGED config /\ UNCHANGED <<next, outcome>>
<1>. USE RankFacts
<1>1. next - 1 \in Ranks /\ worker[next - 1] = "finished"
  BY CalledFacts
<1>2. /\ ApplyOutcome(o) \in AttemptReceipt
      /\ ApplyOutcome(o).state \notin {"pending", "running"}
  <2>1. CASE o = "result"
    BY <2>1, ResultApplied
  <2>2. CASE IsTerminal(o)
    BY <2>2, TerminalApplied
  <2>. QED
    BY <2>1, <2>2
<1>3. att \in [Ranks -> AttemptReceipt] /\ att[next - 1] = ApplyOutcome(o)
  BY <1>1, <1>2
<1>4. \A j \in Ranks \ {next - 1} : att[j] = attempt[j]
  OBVIOUS
<1>5. \A j \in Ranks : j < next - 1 =>
        /\ worker[j] = "finished" /\ ~attempt[j].sniped
        /\ attempt[j].state \in {"continuation_error", "cancelled"}
  BY CalledFacts, ContinuationApplied DEF Fallen
<1>6. \A j \in Ranks : j >= next => attempt[j] = Pending /\ worker[j] = "idle"
  BY CalledFacts
<1>7. worker' = worker /\ UNCHANGED config /\ UNCHANGED <<next, outcome>> /\ batch' = batch
  BY DEF locals, pool
<1>8. LocalsType' /\ PoolType'
  BY <1>7 DEF LocalsType, PoolType, config, locals, pool, Ranks
<1>9. batch = {}
  BY DEF IInv, Called, SequentialState
<1>10. \A j \in Ranks : j < next - 1 \/ j = next - 1 \/ j >= next
  OBVIOUS
<1>11. \A j \in Ranks :
         /\ j < next => att[j].state \notin {"pending", "running"} /\ worker'[j] \notin {"idle", "queued"}
         /\ j >= next => att[j] = Pending /\ worker'[j] = "idle"
         /\ worker'[j] = "finished" <=> worker[j] = "finished"
         /\ worker'[j] = "running" => cancellation' /\ att[j].cancelled
  BY <1>1, <1>2, <1>3, <1>4, <1>5, <1>6, <1>7, <1>10
<1>12. \A j \in Ranks \ {next - 1} : /\ att[j].state \notin {"succeeded", "terminal_error"}
                                     /\ ~att[j].sniped
  BY <1>1, <1>4, <1>5, <1>6, <1>10 DEF Pending
<1>. QED
  BY <1>3, <1>7, <1>8, <1>9, <1>11, <1>12

LEMMA SequentialReturnInv ==
  ASSUME IInv, SequentialExhausted \/ SequentialResult \/ SequentialTerminal
  PROVE  IInv'
<1>1. CASE SequentialExhausted
  <2>1. \A i \in Ranks : i < next /\ Fallen(i)
    BY <1>1, RankFacts DEF SequentialExhausted, IInv, SequentialState
  <2>. QED
    BY <1>1, <2>1, ExhaustInv DEF SequentialExhausted
<1>2. CASE SequentialResult
  <2>. DEFINE att == [attempt EXCEPT ![next - 1] = ApplyOutcome("result")]
  <2>1. /\ Called("result") /\ UNCHANGED <<config, locals, pool>>
        /\ Conclude(att, next - 1, "selected", next - 1)
    BY <1>2 DEF SequentialResult
  <2>2. next - 1 \in Ranks /\ outcome[next - 1] = "result"
    BY <2>1, CalledFacts
  <2>. HIDE DEF att
  <2>. QED
    BY <2>1, <2>2, CalledVerdict, WinInv DEF att
<1>3. CASE SequentialTerminal
  <2>1. PICK o \in Outcomes :
          /\ Called(o) /\ IsTerminal(o) /\ UNCHANGED <<config, locals, pool>>
          /\ Conclude([attempt EXCEPT ![next - 1] = ApplyOutcome(o)], 0, "stopped", next - 1)
    BY <1>3 DEF SequentialTerminal
  <2>2. next - 1 \in Ranks
    BY <2>1, CalledFacts
  <2>. QED
    BY <2>1, <2>2, CalledVerdict, HaltInv
<1>. QED
  BY <1>1, <1>2, <1>3

\* The staggered waterfall launches its first strategy or a fallback.
LEMMA StaggeredLaunchInv ==
  ASSUME IInv, RunStaggered \/ WaitTimedOut \/ PostLaunch
  PROVE  IInv'
<1>1. Launch /\ pc' = "loop" /\ UNCHANGED <<config, batch, cancellation, outcome, result, receipt>>
  BY DEF RunStaggered, WaitTimedOut, PostLaunch
<1>2. pc \in InPool \cup {"start"} /\ Staggered /\ next <= n
  BY RankFacts DEF RunStaggered, WaitTimedOut, PostLaunch, FallbackDue, InPool, IInv, PoolState, SequentialState
<1>3. \A i \in Ranks : i \in futures <=> attempt[i].state = "running"
  <2>1. CASE pc = "start"
    BY <2>1, RankFacts DEF IInv, SequentialState, LaunchedInOrder, Pending
  <2>2. CASE pc \in InPool
    BY <2>2 DEF IInv, PoolState
  <2>. QED
    BY <1>2, <2>1, <2>2
<1>. QED
  BY <1>1, <1>2, <1>3, LaunchInv

\* A launch finds no thread.
LEMMA SubmitFailsInv ==
  ASSUME IInv, SubmitFails
  PROVE  IInv'
<1>. USE RankFacts
<1>1. /\ pc' = "unstarted" /\ next' = next + 1
      /\ attempt' = [attempt EXCEPT ![next] = Running]
      /\ worker' = [worker EXCEPT ![next] = "queued"]
      /\ UNCHANGED <<config, futures, batch, age, cancellation, outcome, result, receipt>>
      /\ pc \in InPool \cup {"start"} /\ next <= n
  BY DEF SubmitFails, FallbackDue, InPool, IInv, SequentialState
<1>2. /\ next \in Ranks /\ UNCHANGED config /\ Ranks' = Ranks /\ n' = n
      /\ attempt'[next] = Running /\ worker'[next] = "queued"
      /\ \A i \in Ranks \ {next} : attempt'[i] = attempt[i] /\ worker'[i] = worker[i]
  BY <1>1 DEF config, PoolType, ReportType, Ranks
<1>3. TypeOK'
  <2>1. Running \in AttemptReceipt
    BY DEF Running, Pending, AttemptReceipt, AttemptStates, ErrorCodes
  <2>2. attempt' \in [Ranks' -> AttemptReceipt]
    BY <1>1, <1>2, <2>1 DEF ReportType
  <2>3. worker' \in [Ranks' -> {"idle", "queued", "running", "finished", "dropped"}]
    BY <1>1, <1>2 DEF PoolType
  <2>4. ConfigType' /\ LocalsType'
    BY <1>1, <1>2 DEF ConfigType, LocalsType, config, Ranks
  <2>5. PoolType' /\ ReportType'
    BY <1>1, <1>2, <2>2, <2>3 DEF PoolType, ReportType, AcquisitionReceipt
  <2>. QED
    BY <1>1, <2>4, <2>5 DEF TypeOK
<1>4. LaunchedInOrder'
  BY <1>1, <1>2 DEF IInv, LaunchedInOrder, Running, Pending
<1>5. OutcomeWhenFinished'
  <2>1. worker[next] = "idle"
    BY <1>2 DEF IInv, LaunchedInOrder
  <2>. QED
    BY <1>1, <1>2, <2>1 DEF IInv, OutcomeWhenFinished
<1>6. Undecided'
  <2>1. \A i \in Ranks : i < next => InFlight(i)' \/ Fallen(i)'
    BY <1>1, <1>2 DEF IInv, Undecided, InFlight, Fallen, Over, InPool
  <2>2. \A i \in Ranks : i = next => InFlight(i)'
    BY <1>2 DEF InFlight, Running, Pending
  <2>. QED
    BY <1>1, <1>2, <2>1, <2>2 DEF IInv, Undecided, Over, InPool
<1>7. SequentialState' /\ PoolState'
  <2>1. next = 1 => futures = {}
    <3>1. CASE pc = "start"
      BY <3>1 DEF IInv, SequentialState
    <3>2. CASE pc \in InPool
      BY <3>2 DEF IInv, PoolState, LaunchedInOrder, Pending
    <3>. QED
      BY <1>1, <3>1, <3>2
  <2>. QED
    BY <1>1, <1>2, <2>1 DEF SequentialState, PoolState, InPool
<1>. QED
  BY <1>1, <1>2, <1>3, <1>4, <1>5, <1>6, <1>7, OpenStep DEF Structure

\* Its exception leaves run(), or waits for the pool.
LEMMA SubmitRaisesInv ==
  ASSUME IInv, SubmitRaises
  PROVE  IInv'
<1>. USE RankFacts
<1>0. pc = "unstarted" /\ UNCHANGED <<config, locals, outcome, report>> /\ next > 1
  BY DEF SubmitRaises, IInv, PoolState
<1>1. CASE next # 2
  <2>1. pc' = "join" /\ worker' = worker
    BY <1>1 DEF SubmitRaises
  <2>2. TypeOK' /\ LaunchedInOrder' /\ OutcomeWhenFinished'
    BY <1>0, <2>1 DEF IInv, TypeOK, LaunchedInOrder, OutcomeWhenFinished, ConfigType, LocalsType,
       PoolType, ReportType, AcquisitionReceipt, config, locals, report, Ranks
  <2>3. Undecided' /\ SequentialState' /\ PoolState'
    BY <1>0, <2>1 DEF IInv, Undecided, SequentialState, PoolState, InFlight, Fallen, InPool, Over,
       config, locals, report, Ranks
  <2>. QED
    BY <1>0, <2>1, <2>2, <2>3, OpenStep DEF Structure
<1>2. CASE next = 2
  <2>1. /\ pc' = "raised" /\ worker' = [worker EXCEPT ![1] = "dropped"]
        /\ 1 \in Ranks /\ worker[1] = "queued" /\ Ranks' = Ranks /\ n' = n
    BY <1>0, <1>2 DEF SubmitRaises, IInv, PoolState, LocalsType, config, Ranks
  <2>2. worker'[1] = "dropped" /\ \A i \in Ranks \ {1} : worker'[i] = worker[i] /\ worker[i] = "idle"
    BY <1>2, <2>1 DEF IInv, LaunchedInOrder, PoolType
  <2>3. TypeOK' /\ Sorted'
    BY <1>0, <2>1 DEF IInv, TypeOK, Sorted, ConfigType, LocalsType, PoolType, ReportType,
       AcquisitionReceipt, config, locals, report, Ranks
  <2>4. LaunchedInOrder'
    BY <1>0, <2>1, <2>2 DEF IInv, LaunchedInOrder, locals, report
  <2>5. OutcomeWhenFinished'
    BY <1>0, <2>1, <2>2 DEF IInv, OutcomeWhenFinished
  <2>6. Undecided' /\ SequentialState' /\ PoolState' /\ Concluded'
    BY <1>0, <2>1 DEF IInv, Undecided, SequentialState, PoolState, Concluded, InPool, Over,
       locals, report
  <2>7. NoCallAfterReturn'
    BY <2>1, <2>2 DEF NoCallAfterReturn
  <2>8. TerminalStops'
    BY <1>0, <2>1 DEF IInv, TerminalStops, report
  <2>9. SelectionConsistent' /\ FallbackExhaustive' /\ LosersSignalled'
    BY <2>1 DEF SelectionConsistent, FallbackExhaustive, LosersSignalled
  <2>. QED
    BY <2>3, <2>4, <2>5, <2>6, <2>7, <2>8, <2>9 DEF IInv
<1>. QED
  BY <1>1, <1>2

\* The coordinator waits, is woken, or goes round the loop.
LEMMA WaitInv ==
  ASSUME IInv, WaitCalled \/ WaitWoken \/ PostWait
  PROVE  IInv'
<1>. USE RankFacts
<1>1. /\ pc \in InPool /\ pc' \in InPool /\ batch' \subseteq Ranks /\ UNCHANGED config
      /\ UNCHANGED <<next, futures, age, cancellation>> /\ UNCHANGED <<pool, report>>
      /\ pc' = "apply" => batch' \subseteq futures /\ \A i \in batch' : worker[i] = "finished"
      /\ pc' = "loop" => futures # {} \/ next > n
  BY DEF WaitCalled, WaitWoken, PostWait, InPool, Done, FallbackDue, locals
<1>2. TypeOK'
  BY <1>1 DEF IInv, TypeOK, ConfigType, LocalsType, PoolType, ReportType, AcquisitionReceipt,
     InPool, config, pool, report, Ranks
<1>3. LaunchedInOrder' /\ OutcomeWhenFinished'
  BY <1>1 DEF IInv, LaunchedInOrder, OutcomeWhenFinished, config, pool, report, Ranks
<1>4. Undecided' /\ SequentialState' /\ PoolState'
  BY <1>1 DEF IInv, Undecided, Over, SequentialState, PoolState, InFlight, Fallen, InPool, Staggered,
     config, pool, report, Ranks
<1>. QED
  BY <1>1, <1>2, <1>3, <1>4, OpenStep DEF Structure, InPool

\* The staggered waterfall runs out of futures.
LEMMA StaggeredExhaustedInv ==
  ASSUME IInv, StaggeredExhausted
  PROVE  IInv'
<1>1. \A i \in Ranks : i < next /\ ~InFlight(i)
  BY RankFacts DEF StaggeredExhausted, IInv, PoolState, InPool, InFlight, Running, Pending
<1>2. \A i \in Ranks : i < next /\ Fallen(i)
  BY <1>1 DEF StaggeredExhausted, IInv, Undecided, Over
<1>. QED
  BY <1>2, ExhaustInv DEF StaggeredExhausted

\* A fallback fails: its future is popped and its error recorded.
LEMMA ApplyContinuationInv ==
  ASSUME IInv, ApplyContinuation
  PROVE  IInv'
<1>. USE RankFacts
<1>1. PICK i \in Ranks, o \in Outcomes :
        /\ At(i, o) /\ IsContinuation(o) /\ Pop(i)
        /\ attempt' = [attempt EXCEPT ![i] = ApplyOutcome(o)]
        /\ pc' = IF batch = {i} THEN "post" ELSE "apply"
        /\ UNCHANGED <<config, next, age, cancellation, pool, result, receipt>>
  BY DEF ApplyContinuation
<1>2. /\ UNCHANGED config /\ Ranks' = Ranks /\ n' = n /\ next' = next /\ worker' = worker /\ outcome' = outcome
      /\ pc \in InPool /\ pc' \in {"post", "apply"}
      /\ futures' = futures \ {i} /\ batch' = batch \ {i}
  BY <1>1 DEF At, Pop, pool, config, Ranks, InPool
<1>3. attempt'[i] = ApplyOutcome(o) /\ \A j \in Ranks \ {i} : attempt'[j] = attempt[j]
  BY <1>1
<1>4. ApplyOutcome(o) \in AttemptReceipt /\ ApplyOutcome(o).state \in {"continuation_error", "cancelled"}
  BY <1>1, ContinuationApplied
<1>5. TypeOK'
  <2>1. ConfigType' /\ LocalsType' /\ PoolType'
    BY <1>1, <1>2 DEF ConfigType, LocalsType, PoolType, config
  <2>2. ReportType'
    BY <1>1, <1>2, <1>4 DEF ReportType, AcquisitionReceipt
  <2>. QED
    BY <1>2, <2>1, <2>2 DEF TypeOK
<1>6. LaunchedInOrder' /\ OutcomeWhenFinished'
  BY <1>1, <1>2, <1>3, <1>4, AtFacts DEF IInv, LaunchedInOrder, OutcomeWhenFinished
<1>7. \A j \in Ranks : j < next => InFlight(j)' \/ Fallen(j)'
  <2>1. Fallen(i)'
    BY <1>1, <1>2, <1>3, AtFacts DEF Fallen
  <2>2. \A j \in Ranks \ {i} : j < next => InFlight(j)' \/ Fallen(j)'
    BY <1>1, <1>2, <1>3 DEF At, IInv, Undecided, Over, InFlight, Fallen
  <2>. QED
    BY <2>1, <2>2
<1>8. Undecided' /\ SequentialState'
  BY <1>1, <1>2, <1>7 DEF At, IInv, Undecided, Over, SequentialState
<1>9. PoolState'
  <2>1. \A j \in Ranks : j \in futures' <=> attempt'[j].state = "running"
    BY <1>2, <1>3, <1>4 DEF IInv, PoolState
  <2>2. batch' \subseteq futures' /\ (\A j \in batch' : worker'[j] = "finished") /\ Staggered'
    BY <1>1, <1>2 DEF At, IInv, PoolState, Staggered, InPool, config
  <2>. QED
    BY <1>2, <2>1, <2>2 DEF PoolState
<1>. QED
  BY <1>2, <1>5, <1>6, <1>8, <1>9, OpenStep DEF Structure

\* An exception leaves run() through finally.
LEMMA EscapeInv ==
  ASSUME IInv, ApplyEscape \/ JoinPool
  PROVE  IInv'
<1>. USE RankFacts
<1>1. CASE ApplyEscape
  <2>1. PICK i \in Ranks : /\ At(i, "escape") /\ Pop(i) /\ pc' = "join"
                           /\ UNCHANGED <<config, next, age, cancellation, pool, report>>
    BY <1>1 DEF ApplyEscape
  <2>2. UNCHANGED config /\ futures' \subseteq futures /\ batch' \subseteq batch
    BY <2>1 DEF Pop
  <2>3. TypeOK'
    BY <2>1, <2>2 DEF IInv, TypeOK, ConfigType, LocalsType, PoolType, ReportType, AcquisitionReceipt,
       config, pool, report, Ranks
  <2>4. LaunchedInOrder' /\ OutcomeWhenFinished'
    BY <2>1 DEF IInv, LaunchedInOrder, OutcomeWhenFinished, config, pool, report, Ranks
  <2>5. Undecided' /\ SequentialState' /\ PoolState'
    BY <2>1 DEF At, IInv, Undecided, Over, SequentialState, PoolState, InFlight, Fallen, InPool,
       config, pool, report, Ranks
  <2>. QED
    BY <2>1, <2>2, <2>3, <2>4, <2>5, OpenStep DEF Structure
<1>2. CASE JoinPool
  <2>1. TypeOK' /\ Sorted' /\ LaunchedInOrder' /\ OutcomeWhenFinished'
    BY <1>2 DEF JoinPool, IInv, TypeOK, Sorted, LaunchedInOrder, OutcomeWhenFinished, ConfigType,
       LocalsType, PoolType, ReportType, AcquisitionReceipt, config, locals, pool, report, Ranks
  <2>2. Undecided' /\ SequentialState' /\ PoolState' /\ Concluded'
    BY <1>2 DEF JoinPool, IInv, Undecided, Over, SequentialState, PoolState, Concluded, InFlight,
       Fallen, InPool, config, locals, pool, report, Ranks
  <2>3. (/\ SelectionConsistent /\ TerminalStops /\ FallbackExhaustive
         /\ NoCallAfterReturn /\ LosersSignalled)'
    BY <1>2 DEF JoinPool, IInv, SelectionConsistent, TerminalStops, FallbackExhaustive,
       NoCallAfterReturn, LosersSignalled, config, pool, report, Ranks
  <2>. QED
    BY <2>1, <2>2, <2>3 DEF IInv
<1>. QED
  BY <1>1, <1>2

\* The attempts and the pool once the outcome of rank i decided the run.
LEMMA DecidedVerdict ==
  ASSUME IInv, NEW i \in Ranks, NEW o, At(i, o), o = "result" \/ IsTerminal(o), Pop(i),
         CancelInflight(futures \ {i}), UNCHANGED <<config, next, age, outcome>>,
         NEW att, att = Decided(i, o)
  PROVE  /\ att \in [Ranks -> AttemptReceipt] /\ att[i] = ApplyOutcome(o)
         /\ \A j \in Ranks :
              /\ j < next => att[j].state \notin {"pending", "running"} /\ worker'[j] \notin {"idle", "queued"}
              /\ j >= next => att[j] = Pending /\ worker'[j] = "idle"
              /\ worker'[j] = "finished" <=> worker[j] = "finished"
              /\ worker'[j] = "running" => cancellation' /\ att[j].cancelled
         /\ \A j \in batch' : worker'[j] = "finished"
         /\ \A j \in Ranks \ {i} : /\ att[j].state \notin {"succeeded", "terminal_error"}
                                   /\ att[j].sniped => o = "result" /\ att[j].state = "cancelled"
         /\ LocalsType' /\ PoolType' /\ UNCHANGED config /\ UNCHANGED <<next, outcome>>
<1>. USE RankFacts
<1>1. i \in futures /\ i < next /\ worker[i] = "finished"
  BY AtFacts
<1>2. /\ ApplyOutcome(o) \in AttemptReceipt
      /\ ApplyOutcome(o).state \notin {"pending", "running"}
  <2>1. CASE o = "result"
    BY <2>1, ResultApplied
  <2>2. CASE IsTerminal(o)
    BY <2>2, TerminalApplied
  <2>. QED
    BY <2>1, <2>2
<1>3. /\ Cancelled(o = "result") \in AttemptReceipt /\ Cancelled(o = "result").state = "cancelled"
      /\ Cancelled(o = "result").cancelled = TRUE /\ Cancelled(o = "result").sniped = (o = "result")
  BY CancelledType DEF Cancelled
<1>4. att[i] = ApplyOutcome(o)
  BY DEF Decided
<1>5. \A j \in Ranks \ {i} : att[j] = IF j \in futures THEN Cancelled(o = "result") ELSE attempt[j]
  BY DEF Decided
<1>6. att \in [Ranks -> AttemptReceipt]
  BY <1>2, <1>3 DEF Decided
<1>7. /\ cancellation' = TRUE /\ UNCHANGED config /\ UNCHANGED <<next, outcome>>
      /\ futures' = futures \ {i} /\ batch' = batch \ {i}
      /\ worker' = [j \in Ranks |-> IF j \in futures \ {i} /\ worker[j] = "queued"
                                   THEN "dropped" ELSE worker[j]]
  BY DEF CancelInflight, Pop
<1>8. LocalsType' /\ PoolType'
  BY <1>7 DEF LocalsType, PoolType, config, Ranks
<1>9. \A j \in batch' : worker'[j] = "finished"
  BY <1>7 DEF At, IInv, PoolState
<1>10. ASSUME NEW j \in Ranks
       PROVE  /\ j < next => att[j].state \notin {"pending", "running"} /\ worker'[j] \notin {"idle", "queued"}
              /\ j >= next => att[j] = Pending /\ worker'[j] = "idle"
              /\ worker'[j] = "finished" <=> worker[j] = "finished"
              /\ worker'[j] = "running" => cancellation' /\ att[j].cancelled
              /\ j # i => /\ att[j].state \notin {"succeeded", "terminal_error"}
                          /\ att[j].sniped => o = "result" /\ att[j].state = "cancelled"
  <2>1. CASE j = i
    BY <2>1, <1>1, <1>2, <1>4, <1>7
  <2>2. CASE j # i /\ j \in futures
    <3>1. j < next /\ worker[j] \in {"queued", "running", "finished"}
      BY <2>2, AtFacts DEF InFlight
    <3>2. att[j] = Cancelled(o = "result")
      BY <2>2, <1>5
    <3>3. /\ att[j].state = "cancelled" /\ att[j].cancelled
          /\ att[j].sniped => o = "result"
      BY <3>2, <1>3
    <3>4. worker'[j] = IF worker[j] = "queued" THEN "dropped" ELSE worker[j]
      BY <2>2, <1>7
    <3>. QED
      BY <2>2, <3>1, <3>3, <3>4, <1>7
  <2>3. CASE j # i /\ j \notin futures /\ j < next
    <3>1. att[j] = attempt[j] /\ Fallen(j)
      BY <2>3, <1>5, AtFacts
    <3>2. /\ att[j].state \in {"continuation_error", "cancelled"} /\ ~att[j].sniped
          /\ worker[j] = "finished"
      BY <3>1, ContinuationApplied DEF Fallen
    <3>. QED
      BY <2>3, <3>2, <1>7
  <2>4. CASE j # i /\ j \notin futures /\ j >= next
    <3>1. att[j] = Pending /\ worker[j] = "idle"
      BY <2>4, <1>5, AtFacts
    <3>2. worker'[j] = "idle"
      BY <2>4, <3>1, <1>7
    <3>. QED
      BY <2>4, <3>1, <3>2 DEF Pending
  <2>. QED
    BY <2>1, <2>2, <2>3, <2>4, AtFacts
<1>. QED
  BY <1>4, <1>6, <1>7, <1>8, <1>9, <1>10

\* The staggered waterfall comes back with a verdict.
LEMMA StaggeredVerdictInv ==
  ASSUME IInv, ApplyResult \/ ApplyTerminal
  PROVE  IInv'
<1>1. CASE ApplyResult
  <2>1. PICK i \in Ranks :
          /\ At(i, "result") /\ Pop(i) /\ CancelInflight(futures \ {i})
          /\ Conclude(Decided(i, "result"), i, "selected", i)
          /\ UNCHANGED <<config, next, age, outcome>>
    BY <1>1 DEF ApplyResult
  <2>. DEFINE att == Decided(i, "result")
  <2>2. outcome[i] = "result" /\ i < next
    BY <2>1, AtFacts
  <2>3. /\ att \in [Ranks -> AttemptReceipt] /\ att[i] = ApplyOutcome("result")
        /\ \A j \in Ranks :
             /\ j < next => att[j].state \notin {"pending", "running"} /\ worker'[j] \notin {"idle", "queued"}
             /\ j >= next => att[j] = Pending /\ worker'[j] = "idle"
             /\ worker'[j] = "finished" <=> worker[j] = "finished"
             /\ worker'[j] = "running" => cancellation' /\ att[j].cancelled
        /\ \A j \in batch' : worker'[j] = "finished"
        /\ \A j \in Ranks \ {i} : /\ att[j].state \notin {"succeeded", "terminal_error"}
                                  /\ att[j].sniped => att[j].state = "cancelled"
        /\ LocalsType' /\ PoolType' /\ UNCHANGED config /\ UNCHANGED <<next, outcome>>
    BY <2>1, DecidedVerdict
  <2>4. Conclude(att, i, "selected", i)
    BY <2>1
  <2>. HIDE DEF att
  <2>. QED
    BY <2>2, <2>3, <2>4, WinInv
<1>2. CASE ApplyTerminal
  <2>1. PICK i \in Ranks, o \in Outcomes :
          /\ At(i, o) /\ IsTerminal(o) /\ Pop(i) /\ CancelInflight(futures \ {i})
          /\ Conclude(Decided(i, o), 0, "stopped", i)
          /\ UNCHANGED <<config, next, age, outcome>>
    BY <1>2 DEF ApplyTerminal
  <2>. DEFINE att == Decided(i, o)
  <2>2. o # "result"
    BY <2>1 DEF IsTerminal
  <2>3. /\ att \in [Ranks -> AttemptReceipt] /\ att[i] = ApplyOutcome(o)
        /\ \A j \in Ranks :
             /\ j < next => att[j].state \notin {"pending", "running"} /\ worker'[j] \notin {"idle", "queued"}
             /\ j >= next => att[j] = Pending /\ worker'[j] = "idle"
             /\ worker'[j] = "finished" <=> worker[j] = "finished"
             /\ worker'[j] = "running" => cancellation' /\ att[j].cancelled
        /\ \A j \in batch' : worker'[j] = "finished"
        /\ \A j \in Ranks \ {i} : /\ att[j].state \notin {"succeeded", "terminal_error"}
                                  /\ ~att[j].sniped
        /\ LocalsType' /\ PoolType' /\ UNCHANGED config /\ UNCHANGED <<next, outcome>>
    BY <2>1, <2>2, DecidedVerdict
  <2>4. Conclude(att, 0, "stopped", i)
    BY <2>1
  <2>. HIDE DEF att
  <2>. QED
    BY <2>1, <2>3, <2>4, HaltInv
<1>. QED
  BY <1>1, <1>2

\* A worker thread takes its work item or comes back with an outcome.
LEMMA WorkerInv ==
  ASSUME IInv, NEW i \in Ranks, WorkerStart(i) \/ WorkerFinish(i)
  PROVE  IInv'
<1>. USE RankFacts
<1>1. CASE WorkerStart(i)
  <2>1. /\ worker[i] = "queued" /\ worker' = [worker EXCEPT ![i] = "running"]
        /\ UNCHANGED <<config, pc, locals, outcome, report>>
    BY <1>1 DEF WorkerStart
  <2>2. pc \notin {"returned", "raised"}
    BY <2>1 DEF IInv, NoCallAfterReturn, Over
  <2>3. TypeOK'
    BY <2>1 DEF IInv, TypeOK, ConfigType, LocalsType, PoolType, ReportType, AcquisitionReceipt,
       config, locals, report, Ranks
  <2>4. worker'[i] = "running" /\ \A j \in Ranks \ {i} : worker'[j] = worker[j]
    BY <2>1 DEF PoolType
  <2>5. LaunchedInOrder' /\ OutcomeWhenFinished'
    BY <2>1, <2>4 DEF IInv, LaunchedInOrder, OutcomeWhenFinished, config, locals, report, Ranks
  <2>6. \A j \in Ranks : /\ Fallen(j) => Fallen(j)'
                         /\ InFlight(j) => InFlight(j)'
    BY <2>1, <2>4 DEF InFlight, Fallen, report
  <2>7. Undecided' /\ SequentialState' /\ PoolState'
    <3>1. Undecided'
      BY <2>1, <2>2, <2>6 DEF IInv, Undecided, Over, config, locals, report, Ranks
    <3>2. SequentialState'
      BY <2>1, <2>6 DEF IInv, SequentialState, config, locals, report, Ranks
    <3>3. pc # "unstarted" \/ next # 2
      BY <1>1 DEF WorkerStart, IInv, PoolState, LaunchedInOrder
    <3>4. PoolState'
      BY <2>1, <2>4, <3>3 DEF IInv, PoolState, Staggered, config, locals, report, Ranks
    <3>. QED
      BY <3>1, <3>2, <3>4
  <2>. QED
    BY <2>1, <2>2, <2>3, <2>5, <2>7, OpenStep DEF Structure
<1>2. CASE WorkerFinish(i)
  <2>1. PICK o \in Outcomes :
          /\ worker[i] = "running" /\ worker' = [worker EXCEPT ![i] = "finished"]
          /\ outcome' = [outcome EXCEPT ![i] = o]
          /\ UNCHANGED <<config, pc, locals, report>>
    <3>1. \A b \in Behaviours : Invoke(b) \in Outcomes
      BY DEF Behaviours, Invoke, Outcomes
    <3>. QED
      BY <1>2, <3>1 DEF WorkerFinish
  <2>2. TypeOK' /\ Sorted'
    BY <2>1 DEF IInv, TypeOK, Sorted, ConfigType, LocalsType, PoolType, ReportType, AcquisitionReceipt,
       config, locals, report, Ranks
  <2>3. /\ worker'[i] = "finished" /\ outcome'[i] = o /\ o # "none"
        /\ \A j \in Ranks \ {i} : worker'[j] = worker[j] /\ outcome'[j] = outcome[j]
    BY <2>1 DEF PoolType, Outcomes
  <2>4. /\ UNCHANGED config /\ UNCHANGED report /\ UNCHANGED <<pc, next, futures, batch, age, cancellation>>
        /\ n' = n /\ Ranks' = Ranks /\ Staggered' = Staggered
    BY <2>1 DEF config, locals, Ranks, Staggered
  <2>5. LaunchedInOrder' /\ OutcomeWhenFinished'
    BY <2>1, <2>3, <2>4 DEF IInv, LaunchedInOrder, OutcomeWhenFinished, report
  <2>6. \A j \in Ranks : /\ Fallen(j) => Fallen(j)'
                         /\ InFlight(j) => InFlight(j)'
    BY <2>1, <2>3, <2>4 DEF InFlight, Fallen, report
  <2>7. Undecided' /\ SequentialState' /\ PoolState' /\ Concluded'
    <3>1. Undecided'
      BY <2>4, <2>6 DEF IInv, Undecided, Over, report
    <3>2. SequentialState'
      BY <2>4, <2>6 DEF IInv, SequentialState, report
    <3>3. pc # "unstarted" \/ next # 2
      BY <2>1 DEF IInv, PoolState, LaunchedInOrder
    <3>4. PoolState'
      BY <2>3, <2>4, <3>3 DEF IInv, PoolState, report
    <3>5. Concluded'
      BY <2>4 DEF IInv, Concluded, report
    <3>. QED
      BY <3>1, <3>2, <3>4, <3>5
  <2>8. SelectionConsistent'
    <3>1. result \in Ranks /\ outcome[result] = "result" => outcome'[result] = "result"
      BY <2>1, <2>3 DEF IInv, OutcomeWhenFinished
    <3>2. result # 0 => result \in Ranks
      BY DEF ReportType
    <3>. QED
      BY <2>4, <3>1, <3>2 DEF IInv, SelectionConsistent, report, config
  <2>9. TerminalStops' /\ FallbackExhaustive'
    <3>1. TerminalStops'
      BY <2>1, <2>3, <2>4 DEF IInv, TerminalStops, report
    <3>2. FallbackExhaustive'
      BY <2>1, <2>3, <2>4 DEF IInv, FallbackExhaustive, report
    <3>. QED
      BY <3>1, <3>2
  <2>10. NoCallAfterReturn' /\ LosersSignalled'
    BY <2>3, <2>4 DEF IInv, NoCallAfterReturn, LosersSignalled, Over, report
  <2>. QED
    BY <2>2, <2>5, <2>7, <2>8, <2>9, <2>10 DEF IInv
<1>. QED
  BY <1>1, <1>2

\* Nothing the invariant speaks of changes with the time.
LEMMA TickInv ==
  ASSUME IInv, Tick
  PROVE  IInv'
<1>. USE RankFacts
<1>1. /\ age' = age + 1 /\ age < stagger /\ pc \in InPool
      /\ UNCHANGED <<config, pc, next, futures, batch, cancellation, pool, report>>
  BY DEF Tick, InPool
<1>2. TypeOK'
  <2>1. ConfigType' /\ PoolType' /\ ReportType'
    BY <1>1 DEF ConfigType, PoolType, ReportType, AcquisitionReceipt, config, pool, report, Ranks
  <2>2. LocalsType'
    BY <1>1 DEF LocalsType, config, Ranks
  <2>. QED
    BY <1>1, <2>1, <2>2 DEF IInv, TypeOK
<1>3. LaunchedInOrder' /\ OutcomeWhenFinished'
  BY <1>1 DEF IInv, LaunchedInOrder, OutcomeWhenFinished, config, pool, report, Ranks
<1>4. Undecided' /\ SequentialState' /\ PoolState'
  BY <1>1 DEF IInv, Undecided, Over, SequentialState, PoolState, InFlight, Fallen, InPool, Staggered,
     config, pool, report, Ranks
<1>. QED
  BY <1>1, <1>2, <1>3, <1>4, OpenStep DEF Structure, InPool

LEMMA StutterInv ==
  ASSUME IInv, UNCHANGED vars
  PROVE  IInv'
<1>0. TypeOK'
  BY DEF IInv, TypeOK, ConfigType, LocalsType, PoolType, ReportType, AcquisitionReceipt, vars,
     config, locals, pool, report, Ranks
<1>1. Sorted' /\ LaunchedInOrder' /\ OutcomeWhenFinished'
  BY DEF IInv, Sorted, LaunchedInOrder, OutcomeWhenFinished, vars, config, locals, pool, report, Ranks
<1>2. Undecided' /\ SequentialState' /\ PoolState' /\ Concluded'
  BY DEF IInv, Undecided, Over, SequentialState, PoolState, Concluded, InFlight, Fallen, InPool, Staggered,
     vars, config, locals, pool, report, Ranks
<1>3. (/\ SelectionConsistent /\ TerminalStops /\ FallbackExhaustive
       /\ NoCallAfterReturn /\ LosersSignalled)'
  BY DEF IInv, SelectionConsistent, TerminalStops, FallbackExhaustive, NoCallAfterReturn,
     LosersSignalled, Over, vars, config, locals, pool, report, Ranks
<1>. QED
  BY <1>0, <1>1, <1>2, <1>3 DEF IInv

LEMMA NextInv == IInv /\ [Next]_vars => IInv'
<1>. SUFFICES ASSUME IInv, [Next]_vars PROVE IInv'
  OBVIOUS
<1>1. CASE ScoringRaises \/ RunWithoutStrategies \/ RunSequential
  BY <1>1, BeforeWaterfallInv
<1>2. CASE SequentialLaunch \/ SequentialContinue \/ SequentialEscape
  BY <1>2, SequentialStepInv
<1>3. CASE SequentialExhausted \/ SequentialResult \/ SequentialTerminal
  BY <1>3, SequentialReturnInv
<1>4. CASE RunStaggered \/ WaitTimedOut \/ PostLaunch
  BY <1>4, StaggeredLaunchInv
<1>5. CASE WaitCalled \/ WaitWoken \/ PostWait
  BY <1>5, WaitInv
<1>6. CASE StaggeredExhausted
  BY <1>6, StaggeredExhaustedInv
<1>7. CASE ApplyContinuation
  BY <1>7, ApplyContinuationInv
<1>8. CASE ApplyEscape \/ JoinPool
  BY <1>8, EscapeInv
<1>9. CASE ApplyResult \/ ApplyTerminal
  BY <1>9, StaggeredVerdictInv
<1>10. CASE \E i \in Ranks : WorkerStart(i) \/ WorkerFinish(i)
  BY <1>10, WorkerInv
<1>11. CASE Tick
  BY <1>11, TickInv
<1>12. CASE Terminated \/ UNCHANGED vars
  BY <1>12, StutterInv DEF Terminated
<1>13. CASE SubmitFails \/ SubmitRaises
  BY <1>13, SubmitFailsInv, SubmitRaisesInv
<1>. QED
  BY <1>1, <1>2, <1>3, <1>4, <1>5, <1>6, <1>7, <1>8, <1>9, <1>10, <1>11, <1>12, <1>13
  DEF Next, Coordinator

\* The inductive invariant holds in every reachable state.
THEOREM InductiveInvariant == Spec => []IInv
BY InitInv, NextInv, PTL DEF Spec

\* Type correctness of every run.
THEOREM TypeCorrect == Spec => []TypeOK
BY InductiveInvariant, PTL DEF IInv

\* run() tells one story about the strategy it selected.
THEOREM SelectionIsConsistent == Spec => []SelectionConsistent
BY InductiveInvariant, PTL DEF IInv

\* A terminal error stops the run.
THEOREM TerminalErrorStops == Spec => []TerminalStops
BY InductiveInvariant, PTL DEF IInv

\* Failure is reported only after every strategy has failed.
THEOREM FallbackIsExhaustive == Spec => []FallbackExhaustive
BY InductiveInvariant, PTL DEF IInv

\* No adapter call starts once run() is over.
THEOREM NothingCalledAfterReturn == Spec => []NoCallAfterReturn
BY InductiveInvariant, PTL DEF IInv

\* The adapters still at work when run() returns know they lost.
THEOREM LosersAreSignalled == Spec => []LosersSignalled
BY InductiveInvariant, PTL DEF IInv

\* Preferred strategies are launched first.
THEOREM PreferredAreLaunchedFirst == Spec => []PreferredLaunchedFirst
<1>1. IInv => PreferredLaunchedFirst
  <2>. SUFFICES ASSUME IInv, NEW i \in Ranks, NEW j \in Ranks, attempt[i].state # "pending",
                       \/ score[order[j]] > score[order[i]]
                       \/ score[order[j]] = score[order[i]] /\ order[j] < order[i]
                PROVE  attempt[j].state # "pending"
    BY DEF PreferredLaunchedFirst
  <2>1. order[i] \in Nat /\ order[j] \in Nat /\ score[order[i]] \in Int /\ score[order[j]] \in Int
    <3>1. Ranks \subseteq Nat /\ Scores \subseteq Int
      BY RankFacts, ConfigAssumption DEF ConfigAssumption
    <3>2. order \in [Ranks -> Ranks] /\ score \in [Ranks -> Scores]
      BY RankFacts DEF ConfigType
    <3>3. order[i] \in Ranks /\ order[j] \in Ranks
      BY <3>2
    <3>4. score[order[i]] \in Scores /\ score[order[j]] \in Scores
      BY <3>2, <3>3
    <3>. QED
      BY <3>1, <3>3, <3>4
  <2>2. ~Precedes(score, order[i], order[j])
    BY <2>1 DEF Precedes
  <2>3. j <= i
    BY <2>2, RankFacts DEF IInv, Sorted
  <2>4. i < next
    BY RankFacts DEF IInv, LaunchedInOrder, Pending
  <2>5. j < next
    BY <2>3, <2>4, RankFacts
  <2>. QED
    BY <2>5 DEF IInv, LaunchedInOrder
<1>. QED
  BY <1>1, InductiveInvariant, PTL

LEMMA DisjointUnion ==
  ASSUME NEW S, NEW T, IsFiniteSet(S), IsFiniteSet(T), S \cap T = {}
  PROVE  Cardinality(S \cup T) = Cardinality(S) + Cardinality(T)
<1>1. Cardinality(S) \in Nat /\ Cardinality(T) \in Nat /\ Cardinality({}) = 0
  BY FS_CardinalityType, FS_EmptySet
<1>2. Cardinality(S \cup T) = Cardinality(S) + Cardinality(T) - Cardinality(S \cap T)
  BY FS_Union
<1>3. Cardinality(S \cap T) = 0
  BY <1>1
<1>. QED
  BY <1>1, <1>2, <1>3

\* The accounting of a returned receipt balances.
THEOREM AccountingIsBalanced == Spec => []AccountingBalances
<1>1. IInv => AccountingBalances
  <2>. SUFFICES ASSUME IInv, pc = "returned"
                PROVE  LET a == receipt.accounting
                       IN  /\ a["configured"] = n
                           /\ a["configured"] = a["launched"] + a["not_launched"]
                           /\ a["launched"] = a["succeeded"] + a["continuation_errors"]
                                              + a["terminal_errors"] + a["cancelled"]
                           /\ a["snipe_aborted"] <= a["cancelled"]
                           /\ a["snipe_aborted"] > 0 => a["succeeded"] = 1
    BY DEF AccountingBalances
  <2>. DEFINE All       == Ranks
              Launched  == Ranks \ InState(attempt, "pending")
              Unused    == InState(attempt, "pending")
              Succeeded == InState(attempt, "succeeded")
              Continued == InState(attempt, "continuation_error")
              Stopped   == InState(attempt, "terminal_error")
              Dropped   == InState(attempt, "cancelled")
              Sniped    == {i \in Ranks : attempt[i].sniped}
  <2>1. DOMAIN attempt = Ranks /\ Ranks = 1..n /\ n \in Nat
    BY RankFacts
  <2>2. /\ receipt.accounting["configured"] = Cardinality(All)
        /\ receipt.accounting["launched"] = Cardinality(Launched)
        /\ receipt.accounting["not_launched"] = Cardinality(Unused)
        /\ receipt.accounting["succeeded"] = Cardinality(Succeeded)
        /\ receipt.accounting["continuation_errors"] = Cardinality(Continued)
        /\ receipt.accounting["terminal_errors"] = Cardinality(Stopped)
        /\ receipt.accounting["cancelled"] = Cardinality(Dropped)
        /\ receipt.accounting["snipe_aborted"] = Cardinality(Sniped)
    BY <2>1 DEF IInv, Concluded, Accounting, AccountingKeys, Counted
  <2>3. /\ IsFiniteSet(All) /\ IsFiniteSet(Launched) /\ IsFiniteSet(Unused) /\ IsFiniteSet(Succeeded)
        /\ IsFiniteSet(Continued) /\ IsFiniteSet(Stopped) /\ IsFiniteSet(Dropped) /\ IsFiniteSet(Sniped)
    <3>1. IsFiniteSet(1..n)
      BY <2>1, FS_Interval
    <3>2. \A s : InState(attempt, s) \subseteq 1..n
      BY <2>1 DEF InState
    <3>3. Launched \subseteq 1..n /\ Sniped \subseteq 1..n
      BY <2>1
    <3>. QED
      BY <2>1, <3>1, <3>2, <3>3, FS_Subset
  <2>4. All = Launched \cup Unused /\ Launched \cap Unused = {}
    BY <2>1 DEF InState
  <2>5. Launched = ((Succeeded \cup Continued) \cup Stopped) \cup Dropped
    BY <2>1, RankFacts DEF InState, IInv, Concluded, AttemptReceipt, AttemptStates
  <2>6. /\ Succeeded \cap Continued = {} /\ (Succeeded \cup Continued) \cap Stopped = {}
        /\ ((Succeeded \cup Continued) \cup Stopped) \cap Dropped = {}
    BY DEF InState
  <2>7. Sniped \subseteq Dropped
    BY <2>1 DEF IInv, Concluded, InState
  <2>8. Sniped # {} => Succeeded = {result}
    BY DEF IInv, Concluded, SelectionConsistent
  <2>9. Cardinality(All) = n
    BY <2>1, FS_Interval
  <2>. HIDE DEF All, Launched, Unused, Succeeded, Continued, Stopped, Dropped, Sniped
  <2>10. Cardinality(All) = Cardinality(Launched) + Cardinality(Unused)
    BY <2>3, <2>4, DisjointUnion
  <2>11. Cardinality(Launched) = Cardinality(Succeeded) + Cardinality(Continued)
                                 + Cardinality(Stopped) + Cardinality(Dropped)
    <3>1. IsFiniteSet(Succeeded \cup Continued) /\ IsFiniteSet((Succeeded \cup Continued) \cup Stopped)
      BY <2>3, FS_Union
    <3>2. Cardinality(Succeeded \cup Continued) = Cardinality(Succeeded) + Cardinality(Continued)
      BY <2>3, <2>6, DisjointUnion
    <3>3. Cardinality((Succeeded \cup Continued) \cup Stopped)
          = Cardinality(Succeeded \cup Continued) + Cardinality(Stopped)
      BY <2>3, <2>6, <3>1, DisjointUnion
    <3>4. Cardinality(Launched)
          = Cardinality((Succeeded \cup Continued) \cup Stopped) + Cardinality(Dropped)
      BY <2>3, <2>5, <2>6, <3>1, DisjointUnion
    <3>. QED
      BY <3>2, <3>3, <3>4
  <2>12. Cardinality(Sniped) <= Cardinality(Dropped)
    BY <2>3, <2>7, FS_Subset
  <2>13. Cardinality(Sniped) > 0 => Cardinality(Succeeded) = 1
    <3>1. Cardinality({}) = 0 /\ Cardinality({result}) = 1
      BY FS_EmptySet, FS_Singleton
    <3>. QED
      BY <3>1, <2>8
  <2>. QED
    BY <2>2, <2>9, <2>10, <2>11, <2>12, <2>13
<1>. QED
  BY <1>1, InductiveInvariant, PTL

\* A fallback waits for the stagger interval or for every earlier attempt.
THEOREM FallbackAlwaysWaits == Spec => FallbackWaits
<1>. DEFINE Waits == \A i \in Ranks : attempt[i].state = "pending" /\ attempt'[i].state = "running" =>
                       \/ stagger > 0 /\ age = stagger
                       \/ \A j \in Ranks : attempt[j].state # "running"
<1>1. IInv /\ [Next]_vars => Waits \/ UNCHANGED vars
  <2>. SUFFICES ASSUME IInv, Next, NEW i \in Ranks, attempt[i].state = "pending",
                       attempt'[i].state = "running"
                PROVE  \/ stagger > 0 /\ age = stagger
                       \/ \A j \in Ranks : attempt[j].state # "running"
    OBVIOUS
  <2>1. CASE RunStaggered \/ SequentialLaunch
    <3>1. CASE RunStaggered
      BY <3>1, RankFacts DEF RunStaggered, IInv, SequentialState, LaunchedInOrder, Pending
    <3>2. CASE SequentialLaunch
      <4>1. \A j \in Ranks : Fallen(j) \/ attempt[j] = Pending
        BY <3>2, RankFacts DEF SequentialLaunch, IInv, SequentialState, LaunchedInOrder
      <4>. QED
        BY <4>1, ContinuationApplied DEF Fallen, Pending
    <3>. QED
      BY <2>1, <3>1, <3>2
  <2>2. CASE WaitTimedOut \/ PostLaunch
    <3>1. \A j \in Ranks : j \in futures <=> attempt[j].state = "running"
      BY <2>2 DEF WaitTimedOut, PostLaunch, IInv, PoolState, InPool
    <3>2. stagger > 0
      BY <2>2 DEF WaitTimedOut, PostLaunch, IInv, PoolState, InPool, Staggered
    <3>3. age >= stagger \/ futures = {}
      BY <2>2 DEF WaitTimedOut, PostLaunch, FallbackDue
    <3>. QED
      BY <3>1, <3>2, <3>3, RankFacts DEF LocalsType
  <2>3. CASE SequentialContinue \/ ApplyContinuation
    <3>1. \E k \in Ranks : \E o : IsContinuation(o) /\ attempt' = [attempt EXCEPT ![k] = ApplyOutcome(o)]
      BY <2>3, CalledFacts DEF SequentialContinue, ApplyContinuation
    <3>. QED
      BY <3>1, ContinuationApplied, RankFacts
  <2>4. CASE \/ SequentialExhausted \/ SequentialResult \/ SequentialTerminal
             \/ StaggeredExhausted \/ ApplyResult \/ ApplyTerminal
    <3>1. IInv' /\ pc' = "returned" /\ Ranks' = Ranks
      BY <2>4, NextInv DEF SequentialExhausted, SequentialResult, SequentialTerminal, StaggeredExhausted,
         ApplyResult, ApplyTerminal, Conclude, config, Ranks
    <3>. QED
      BY <3>1 DEF IInv, Concluded
  <2>5. CASE attempt' = attempt
    BY <2>5
  <2>6. CASE SubmitFails
    <3>1. CASE pc = "start"
      BY <3>1, RankFacts DEF IInv, SequentialState, LaunchedInOrder, Pending
    <3>2. CASE pc \in InPool
      <4>1. stagger > 0 /\ \A j \in Ranks : j \in futures <=> attempt[j].state = "running"
        BY <3>2 DEF IInv, PoolState, Staggered
      <4>2. age >= stagger \/ futures = {}
        BY <2>6, <3>2 DEF SubmitFails, FallbackDue, InPool
      <4>. QED
        BY <4>1, <4>2, RankFacts DEF LocalsType
    <3>. QED
      BY <2>6, <3>1, <3>2 DEF SubmitFails, InPool
  <2>. QED
    BY <2>1, <2>2, <2>3, <2>4, <2>5, <2>6 DEF Next, Coordinator, ScoringRaises, RunWithoutStrategies,
       RunSequential, SequentialEscape, WaitCalled, WaitWoken, ApplyEscape, PostWait, JoinPool,
       SubmitRaises, WorkerStart, WorkerFinish, Tick, Terminated, report, vars
<1>2. IInv /\ [Next]_vars => [Waits]_vars
  BY <1>1
<1>. QED
  BY <1>2, InductiveInvariant, PTL DEF Spec, FallbackWaits
=============================================================================
