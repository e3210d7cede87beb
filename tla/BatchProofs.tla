------------------------------ MODULE BatchProofs ------------------------------
(***************************************************************************)
(* Safety of run_batch for batches of any size.                            *)
(***************************************************************************)
EXTENDS Batch, TLAPS

\* The memo knows the run of every request handled so far, and no other.
MemoExact ==
  /\ \A i \in Indices : i < index =>
       items[i] = IF deduplicate THEN memo[KeyOf(requests[i])] ELSE i
  /\ \A k \in Keys : memo[k] # 0 =>
       deduplicate /\ memo[k] < index /\ KeyOf(requests[memo[k]]) = k

\* Exactly the requests handled have an item, which is an earlier one's or its
\* own.
ItemsExact ==
  \A i \in Indices : IF i < index THEN items[i] \in 1..i ELSE items[i] = 0

Verdict ==
  /\ pc \in {"returned", "partial_failure"} => index = size + 1
  /\ pc = "returned" => ~(raise_on_partial /\ Partial)
  /\ pc = "partial_failure" => raise_on_partial /\ Partial

IInv == TypeOK /\ MemoExact /\ ItemsExact /\ Verdict

LEMMA KeyFacts ==
  ASSUME TypeOK
  PROVE  /\ size \in Nat /\ index \in Nat
         /\ \A i \in Indices : KeyOf(requests[i]) \in Keys
BY BatchAssumption DEF TypeOK, Indices, KeyOf, Keys

LEMMA InitInv == Init => IInv
BY BatchAssumption DEF Init, IInv, TypeOK, MemoExact, ItemsExact, Verdict, Indices

LEMMA ReuseInv == IInv /\ Reuse => IInv'
<1>. SUFFICES ASSUME IInv, Reuse PROVE IInv'
  OBVIOUS
<1>. DEFINE run == memo[KeyOf(requests[index])]
<1>1. /\ pc = "loop" /\ index \in Indices /\ deduplicate /\ run # 0
      /\ items' = [items EXCEPT ![index] = run] /\ index' = index + 1
      /\ UNCHANGED <<input, pc, memo, ok>> /\ Indices' = Indices
  BY KeyFacts DEF Reuse, Known, input, Indices, IInv, TypeOK
<1>2. run \in 1..(index - 1)
  BY <1>1, KeyFacts DEF IInv, TypeOK, MemoExact, Indices
<1>3. TypeOK'
  BY <1>1, <1>2, KeyFacts DEF IInv, TypeOK, input, Indices
<1>a. /\ index \in Nat /\ items'[index] = run
      /\ \A i \in Indices : i # index => items'[i] = items[i]
      /\ \A i \in Indices : i \in Nat /\ (i < index' <=> i < index \/ i = index)
  BY <1>1, KeyFacts DEF IInv, TypeOK, Indices
<1>4. MemoExact'
  <2>1. \A i \in Indices : i < index' => items'[i] = memo[KeyOf(requests[i])]
    BY <1>1, <1>a DEF IInv, MemoExact
  <2>2. \A k \in Keys : memo[k] # 0 => memo[k] < index' /\ KeyOf(requests[memo[k]]) = k
    BY <1>1, <1>a DEF IInv, MemoExact, TypeOK
  <2>. QED
    BY <1>1, <2>1, <2>2 DEF MemoExact, input, KeyOf
<1>5. ItemsExact'
  <2>1. run \in 1..index
    BY <1>2, <1>a
  <2>2. \A i \in Indices : IF i < index' THEN items'[i] \in 1..i ELSE items'[i] = 0
    BY <1>1, <1>a, <2>1 DEF IInv, ItemsExact
  <2>. QED
    BY <1>1, <2>2 DEF ItemsExact
<1>6. Verdict'
  BY <1>1 DEF Verdict
<1>. QED
  BY <1>3, <1>4, <1>5, <1>6 DEF IInv

LEMMA RunInv == IInv /\ Run => IInv'
<1>. SUFFICES ASSUME IInv, Run PROVE IInv'
  OBVIOUS
<1>. DEFINE key == KeyOf(requests[index])
<1>1. /\ pc = "loop" /\ index \in Indices /\ key \in Keys /\ ~Known(key)
      /\ items' = [items EXCEPT ![index] = index] /\ index' = index + 1
      /\ memo' = IF deduplicate THEN [memo EXCEPT ![key] = index] ELSE memo
      /\ UNCHANGED <<input, pc>> /\ Indices' = Indices
  BY KeyFacts DEF Run, input, Indices, IInv, TypeOK
<1>2. ok' \in [Indices -> BOOLEAN]
  BY DEF Run, IInv, TypeOK
<1>3. TypeOK'
  BY <1>1, <1>2, KeyFacts DEF IInv, TypeOK, input, Indices
<1>4. \A i \in Indices : i < index => items'[i] = items[i]
  BY <1>1 DEF IInv, TypeOK
<1>5. MemoExact'
  <2>1. CASE deduplicate
    <3>1. memo[key] = 0 /\ memo' = [memo EXCEPT ![key] = index]
      BY <1>1, <2>1 DEF Known
    <3>2. \A i \in Indices : i < index => KeyOf(requests[i]) # key
      BY <2>1, <3>1, KeyFacts DEF IInv, MemoExact, ItemsExact
    <3>3. \A i \in Indices : i < index' => items'[i] = memo'[KeyOf(requests[i])]
      BY <1>1, <1>4, <2>1, <3>1, <3>2, KeyFacts DEF IInv, TypeOK, MemoExact, Indices
    <3>4. \A k \in Keys : memo'[k] # 0 => memo'[k] < index' /\ KeyOf(requests[memo'[k]]) = k
      BY <1>1, <3>1, KeyFacts DEF IInv, TypeOK, MemoExact
    <3>. QED
      BY <1>1, <2>1, <3>3, <3>4 DEF MemoExact, input, KeyOf
  <2>2. CASE ~deduplicate
    BY <1>1, <1>4, <2>2, KeyFacts DEF IInv, TypeOK, MemoExact, input, KeyOf, Indices
  <2>. QED
    BY <2>1, <2>2
<1>6. ItemsExact'
  <2>1. /\ index \in 1..index /\ items'[index] = index
        /\ \A i \in Indices : i # index => items'[i] = items[i]
        /\ \A i \in Indices : i < index' <=> i < index \/ i = index
    BY <1>1, KeyFacts DEF IInv, TypeOK, Indices
  <2>2. \A i \in Indices : IF i < index' THEN items'[i] \in 1..i ELSE items'[i] = 0
    BY <2>1 DEF IInv, ItemsExact
  <2>. QED
    BY <1>1, <2>2 DEF ItemsExact
<1>7. Verdict'
  BY <1>1 DEF Verdict
<1>. QED
  BY <1>3, <1>5, <1>6, <1>7 DEF IInv

LEMMA EndInv == IInv /\ (RunRaises \/ Finish \/ Terminated \/ UNCHANGED vars) => IInv'
<1>. SUFFICES ASSUME IInv, RunRaises \/ Finish \/ Terminated \/ UNCHANGED vars PROVE IInv'
  OBVIOUS
<1>1. UNCHANGED <<input, index, memo, items, ok>> /\ Indices' = Indices /\ Partial' = Partial
  BY DEF RunRaises, Finish, Terminated, vars, input, Indices, Partial, Successes, Failures
<1>2. \/ pc' = "raised"
      \/ pc' = pc
      \/ index > size /\ pc' = IF raise_on_partial /\ Partial THEN "partial_failure" ELSE "returned"
  BY DEF RunRaises, Finish, Terminated, vars
<1>3. TypeOK'
  BY <1>1, <1>2 DEF IInv, TypeOK, input
<1>4. MemoExact' /\ ItemsExact'
  BY <1>1 DEF IInv, MemoExact, ItemsExact, input, KeyOf
<1>5. Verdict'
  BY <1>1, <1>2, KeyFacts DEF IInv, TypeOK, Verdict, input
<1>. QED
  BY <1>3, <1>4, <1>5 DEF IInv

\* The inductive invariant holds in every state of run_batch.
THEOREM BatchInvariant == Spec => []IInv
<1>1. IInv /\ [Next]_vars => IInv'
  BY ReuseInv, RunInv, EndInv DEF Next
<1>. QED
  BY <1>1, InitInv, PTL DEF Spec

\* Every variable of run_batch has its type.
THEOREM BatchTypes == Spec => []TypeOK
BY BatchInvariant, PTL DEF IInv

\* However many requests there are and however they repeat, run_batch makes
\* one run for each method and normalized URL and hands it to all of them.
THEOREM RunsAreShared == Spec => []DuplicatesShareRun
<1>1. IInv => DuplicatesShareRun
  <2>. SUFFICES ASSUME IInv, NEW i \in Indices, i < index
       PROVE /\ items[i] \in 1..i /\ SameRequest(requests[items[i]], requests[i])
             /\ \A j \in 1..(i - 1) :
                  (items[j] = items[i]) <=> (deduplicate /\ SameRequest(requests[j], requests[i]))
    BY DEF DuplicatesShareRun
  <2>1. \A r, q \in Requests : SameRequest(r, q) <=> KeyOf(r) = KeyOf(q)
    BY DEF SameRequest, KeyOf
  <2>2. items[i] \in 1..i /\ items[i] \in Indices
    BY KeyFacts DEF IInv, ItemsExact, Indices
  <2>3. \A j \in 1..i : j \in Indices /\ j < index /\ requests[j] \in Requests
    BY KeyFacts DEF IInv, TypeOK, Indices
  <2>4. CASE deduplicate
    <3>1. \A j \in 1..i : items[j] = memo[KeyOf(requests[j])] /\ items[j] # 0
      BY <2>3, <2>4, KeyFacts DEF IInv, MemoExact, ItemsExact, Indices
    <3>2. \A j \in 1..i : KeyOf(requests[items[j]]) = KeyOf(requests[j])
      BY <2>3, <3>1, KeyFacts DEF IInv, MemoExact
    <3>3. \A j \in 1..i : items[j] = items[i] <=> KeyOf(requests[j]) = KeyOf(requests[i])
      BY <2>2, <2>3, <3>1, <3>2, KeyFacts DEF Indices
    <3>4. i \in 1..i /\ \A j \in 1..(i - 1) : j \in 1..i
      BY KeyFacts DEF Indices
    <3>5. requests[items[i]] \in Requests
      BY <2>2 DEF IInv, TypeOK
    <3>. QED
      BY <2>1, <2>2, <2>3, <2>4, <3>2, <3>3, <3>4, <3>5
  <2>5. CASE ~deduplicate
    <3>1. \A j \in 1..i : items[j] = j
      BY <2>3, <2>5 DEF IInv, MemoExact
    <3>. QED
      BY <2>1, <2>2, <2>3, <2>5, <3>1 DEF Indices
  <2>. QED
    BY <2>4, <2>5
<1>. QED
  BY <1>1, BatchInvariant, PTL

\* PartialBatchFailure is raised after the last item and only for a batch that
\* both succeeded and failed.
THEOREM PartialFailureIsComplete == Spec => []PartialOnlyWhenComplete
<1>1. IInv => PartialOnlyWhenComplete
  <2>. SUFFICES ASSUME IInv, pc \in {"returned", "partial_failure"}
       PROVE /\ Successes \cup Failures = Indices
             /\ (pc = "partial_failure") <=>
                  (raise_on_partial /\ \E i, j \in Indices : ok[items[i]] /\ ~ok[items[j]])
    BY DEF PartialOnlyWhenComplete
  <2>1. \A i \in Indices : items[i] # 0
    BY KeyFacts DEF IInv, Verdict, ItemsExact, Indices
  <2>2. Successes \cup Failures = Indices
    BY <2>1 DEF Successes, Failures
  <2>3. Partial <=> \E i, j \in Indices : ok[items[i]] /\ ~ok[items[j]]
    BY <2>1 DEF Partial, Successes, Failures
  <2>. QED
    BY <2>2, <2>3 DEF IInv, Verdict
<1>. QED
  BY <1>1, BatchInvariant, PTL
=============================================================================
