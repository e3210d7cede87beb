--------------------------------- MODULE Batch ---------------------------------
(***************************************************************************)
(* AcquisitionEngine.run_batch: requests are run one after another; those  *)
(* that share method and normalized URL share one AcquisitionRun.  A run   *)
(* is known by the index of the request it was made for.                   *)
(***************************************************************************)
EXTENDS Integers, FiniteSets

CONSTANTS
  Requests,   \* the requests of a batch: records with a method and a url
  Normal,     \* url -> normalize_cache_key(url), the url itself if it is invalid
  MaxBatch    \* bound: the most requests in a batch

Keys == {<<r.method, Normal[r.url]>> : r \in Requests}

ASSUME BatchAssumption == MaxBatch \in Nat

VARIABLES
  size,              \* len(requests)
  requests,          \* the requests in input order
  deduplicate, raise_on_partial,
  pc,                \* where run_batch is
  index,             \* the request it is at
  memo,              \* key -> run, 0 for none
  items,             \* index -> run of its BatchItem, 0 before there is one
  ok                 \* run -> it has a result

input == <<size, requests, deduplicate, raise_on_partial>>
vars  == <<input, pc, index, memo, items, ok>>

Indices == 1..size

\* Mutant: GET and HEAD of one URL share a run.
KeyByUrl(r) == <<"GET", Normal[r.url]>>

KeyOf(r) == <<r.method, Normal[r.url]>>

Init ==
  /\ size \in 0..MaxBatch
  /\ requests \in [Indices -> Requests]
  /\ deduplicate \in BOOLEAN /\ raise_on_partial \in BOOLEAN
  /\ pc = "loop" /\ index = 1
  /\ memo = [k \in Keys |-> 0]
  /\ items = [i \in Indices |-> 0]
  /\ ok = [i \in Indices |-> FALSE]

Successes == {i \in Indices : items[i] # 0 /\ ok[items[i]]}
Failures  == {i \in Indices : items[i] # 0 /\ ~ok[items[i]]}

\* Mutant: a batch with a failure is partial.
PartialWithFailure == Failures # {}

Partial   == Successes # {} /\ Failures # {}

Known(k) == deduplicate /\ memo[k] # 0

\* Mutant: the request after a duplicate is skipped.
ReuseSkipping ==
  /\ pc = "loop" /\ index <= size /\ Known(KeyOf(requests[index]))
  /\ items' = [items EXCEPT ![index] = memo[KeyOf(requests[index])]]
  /\ index' = index + 2
  /\ UNCHANGED <<input, pc, memo, ok>>

\* The run of an earlier request is reused.
Reuse ==
  /\ pc = "loop" /\ index <= size /\ Known(KeyOf(requests[index]))
  /\ items' = [items EXCEPT ![index] = memo[KeyOf(requests[index])]]
  /\ index' = index + 1
  /\ UNCHANGED <<input, pc, memo, ok>>

\* self.run(request) comes back with or without a result.
Run ==
  /\ pc = "loop" /\ index <= size /\ ~Known(KeyOf(requests[index]))
  /\ \E success \in BOOLEAN : ok' = [ok EXCEPT ![index] = success]
  /\ items' = [items EXCEPT ![index] = index]
  /\ memo' = IF deduplicate THEN [memo EXCEPT ![KeyOf(requests[index])] = index] ELSE memo
  /\ index' = index + 1
  /\ UNCHANGED <<input, pc>>

\* self.run(request) raises, and the runs made so far are lost with it.
RunRaises ==
  /\ pc = "loop" /\ index <= size /\ ~Known(KeyOf(requests[index]))
  /\ pc' = "raised"
  /\ UNCHANGED <<input, index, memo, items, ok>>

Finish ==
  /\ pc = "loop" /\ index > size
  /\ pc' = IF raise_on_partial /\ Partial THEN "partial_failure" ELSE "returned"
  /\ UNCHANGED <<input, index, memo, items, ok>>

Terminated == pc # "loop" /\ UNCHANGED vars

Next == Reuse \/ Run \/ RunRaises \/ Finish \/ Terminated

Spec == Init /\ [][Next]_vars
-----------------------------------------------------------------------------
(* Properties.                                                             *)

\* Every variable has its type.
TypeOK ==
  /\ size \in 0..MaxBatch
  /\ requests \in [Indices -> Requests]
  /\ deduplicate \in BOOLEAN /\ raise_on_partial \in BOOLEAN
  /\ pc \in {"loop", "returned", "partial_failure", "raised"}
  /\ index \in 1..(size + 1)
  /\ memo \in [Keys -> 0..size]
  /\ items \in [Indices -> 0..size]
  /\ ok \in [Indices -> BOOLEAN]

SameRequest(r, q) == r.method = q.method /\ Normal[r.url] = Normal[q.url]

\* Two items share a run exactly when the batch is de-duplicated and their
\* requests agree on method and normalized URL, and it is the run made for the
\* first of them.  Without de-duplication every request has a run of its own.
DuplicatesShareRun ==
  \A i \in Indices : i < index =>
    /\ items[i] \in 1..i /\ SameRequest(requests[items[i]], requests[i])
    /\ \A j \in 1..(i - 1) :
         (items[j] = items[i]) <=> (deduplicate /\ SameRequest(requests[j], requests[i]))

\* PartialBatchFailure comes only after all item accounting exists, and
\* exactly when the batch both succeeded and failed; a batch that returns or
\* raises it has an item for every input.
PartialOnlyWhenComplete ==
  pc \in {"returned", "partial_failure"} =>
    /\ Successes \cup Failures = Indices
    /\ (pc = "partial_failure") <=>
         (raise_on_partial /\ \E i, j \in Indices : ok[items[i]] /\ ~ok[items[j]])
=============================================================================
